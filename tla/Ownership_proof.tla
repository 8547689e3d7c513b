-------------------------- MODULE Ownership_proof --------------------------
(***************************************************************************)
(* Lifetimes, for any number of objects and variables: no pointer that is  *)
(* used leads to an object that is no more, and a node, or what is built   *)
(* on it, never finds its database gone.  And no shared pointers go in a   *)
(* circle: what the program has let go of is destroyed.                    *)
(***************************************************************************)
EXTENDS Ownership, FiniteSetTheorems, TLAPS

Objects ==
  [kind : Kinds, refs : SUBSET Ids, db : Ids \cup {None, Expired}, full : BOOLEAN]

Values ==
  [what : {"pointer"} \cup OwningIterators \cup BareIterators,
   refs : SUBSET Ids, raw : Ids \cup {None, Dangling}, home : Ids \cup {None, Expired}]

(***************************************************************************)
(* The invariant, of the objects that objs has.                            *)
(***************************************************************************)

Live(objs, o) == o \in Ids /\ objs[o] # None

IsA(objs, o, kind) == Live(objs, o) /\ objs[o].kind = kind

\* What a new object, or one that is there, is to those it points to.
GoodDependant(objs, x) == x.db = Expired \/ IsA(objs, x.db, "db")

GoodNode(objs, x) ==
  /\ x.db \in x.refs /\ IsA(objs, x.db, "db")
  /\ \A r \in x.refs : objs[r].kind \in Dependants => objs[r].db = x.db

Over(objs, x, kind) == \E r \in x.refs : IsA(objs, r, kind)

Good(objs, x) ==
  /\ \A r \in x.refs : Live(objs, r)
  /\ x.kind \in Dependants => GoodDependant(objs, x)
  /\ x.kind = "node" => GoodNode(objs, x)
  /\ x.kind = "heap" => Over(objs, x, "node")
  /\ x.kind = "bth" => Over(objs, x, "heap")
  /\ x.kind = "table" => Over(objs, x, "bth")

\* The pages that a database keeps are its own.
OwnPages(objs, d) == \A r \in objs[d].refs : objs[r].db = d

\* No shared pointers in a circle: in every set of objects there is one that no
\* object of the set keeps.
Acyclic(objs) ==
  \A S \in SUBSET {o \in Ids : objs[o] # None} :
    S # {} => \E o \in S : \A p \in S : o \notin objs[p].refs

AllGood(objs) ==
  /\ objs \in [Ids -> Objects \cup {None}]
  /\ Acyclic(objs)
  /\ \A o \in Ids : objs[o] # None =>
       /\ Good(objs, objs[o])
       /\ objs[o].kind = "db" => OwnPages(objs, o)

\* What a value of the program points to.
Sound(objs, x) ==
  /\ \A r \in x.refs : Live(objs, r)
  /\ x.what = "pointer" => x.raw = None
  /\ x.what = "folder_iterator" =>
       \E d \in x.refs : IsA(objs, d, "db") /\ x.raw \in objs[d].refs
  /\ x.what = "subnode_iterator" =>
       \E n \in x.refs : IsA(objs, n, "node") /\ x.raw \in objs[n].refs
  /\ x.what \in BareIterators =>
       x.home = Expired \/ (Live(objs, x.home) /\ x.raw \in objs[x.home].refs)

\* folder_iterator makes nodes of the database, subnode_iterator of the node.
OwnerIs(objs, x) ==
  /\ x.what = "folder_iterator" => \A d \in x.refs : IsA(objs, d, "db")
  /\ x.what = "subnode_iterator" => \A n \in x.refs : IsA(objs, n, "node")

AllSound(objs, vals) ==
  /\ vals \in [Vars -> Values \cup {None}]
  /\ \A v \in Vars : vals[v] # None => Sound(objs, vals[v]) /\ OwnerIs(objs, vals[v])

BlameOK == blame \in Kinds \cup OwningIterators \cup {None}

Inv == AllGood(obj) /\ AllSound(obj, val) /\ BlameOK /\ IndependantObjectsWork

\* Nothing that was there has gone or changed but for what it keeps and has read.
Grown(objs, more) ==
  /\ more \in [Ids -> Objects \cup {None}]
  /\ \A o \in Ids : objs[o] # None =>
       /\ more[o] # None /\ more[o].kind = objs[o].kind /\ more[o].db = objs[o].db
       /\ objs[o].refs \subseteq more[o].refs

-----------------------------------------------------------------------------
(***************************************************************************)
(* Objects that are made.                                                  *)
(***************************************************************************)

LEMMA NotNone ==
  /\ \A x \in Objects : x # None
  /\ \A x \in Values : x # None
BY NamesAssumption DEF Objects, Values

LEMMA NewIsFree ==
  ASSUME NEW places, NEW o \in NewOf(places)
  PROVE  o \in places
BY DEF NewOf

\* What points to what is there is good among more objects too.
LEMMA GoodGrown ==
  ASSUME NEW objs, NEW more, NEW x, AllGood(objs), Grown(objs, more), Good(objs, x)
  PROVE  Good(more, x)
<1>1. \A r : Live(objs, r) => Live(more, r) /\ more[r].kind = objs[r].kind /\ more[r].db = objs[r].db
  BY DEF Grown, Live
<1> QED
  BY <1>1 DEF Good, GoodDependant, GoodNode, Over, IsA

LEMMA SoundGrown ==
  ASSUME NEW objs, NEW more, NEW vals, AllSound(objs, vals), Grown(objs, more)
  PROVE  AllSound(more, vals)
<1>1. \A r : Live(objs, r) => /\ Live(more, r) /\ more[r].kind = objs[r].kind
                              /\ objs[r].refs \subseteq more[r].refs
  BY DEF Grown, Live
<1>2. ASSUME NEW x, Sound(objs, x)
      PROVE  Sound(more, x)
  BY <1>1, <1>2 DEF Sound, IsA
<1>3. ASSUME NEW x, OwnerIs(objs, x)
      PROVE  OwnerIs(more, x)
  BY <1>1, <1>3 DEF OwnerIs, IsA
<1> QED
  BY <1>2, <1>3 DEF AllSound

LEMMA MadeGood ==
  ASSUME NEW objs, AllGood(objs), NEW o \in Ids, objs[o] = None,
         NEW x \in Objects, Good(objs, x), x.kind # "db" \/ x.refs = {}
  PROVE  /\ AllGood(Made(objs, o, x)) /\ Grown(objs, Made(objs, o, x)) /\ Made(objs, o, x)[o] = x
         /\ \A p \in Ids : p # o => Made(objs, o, x)[p] = objs[p]
<1> DEFINE more == Made(objs, o, x)
<1>1. /\ more \in [Ids -> Objects \cup {None}] /\ more[o] = x
      /\ \A p \in Ids : p # o => more[p] = objs[p]
  BY DEF AllGood, Made
<1> HIDE DEF more
<1>2. Grown(objs, more)
  BY <1>1 DEF Grown
<1>3. \A p \in Ids : objs[p] # None => Good(more, objs[p])
  BY <1>2, GoodGrown DEF AllGood
<1>4. Good(more, x)
  BY <1>2, GoodGrown
<1>5. ASSUME NEW p \in Ids, more[p] # None, more[p].kind = "db"
      PROVE  OwnPages(more, p)
  <2>1. CASE p = o
    BY <1>1, <1>5, <2>1 DEF OwnPages
  <2>2. CASE p # o
    <3>1. more[p] = objs[p] /\ OwnPages(objs, p) /\ (\A r \in objs[p].refs : Live(objs, r))
      BY <1>1, <1>5, <2>2 DEF AllGood, Good
    <3>2. \A r \in objs[p].refs : more[r].db = objs[r].db
      BY <1>2, <3>1 DEF Grown, Live
    <3> QED
      BY <3>1, <3>2 DEF OwnPages
  <2> QED
    BY <2>1, <2>2
<1>6. Acyclic(more)
  <2> SUFFICES ASSUME NEW S \in SUBSET {p \in Ids : more[p] # None}, S # {}
               PROVE  \E p \in S : \A q \in S : p \notin more[q].refs
    BY DEF Acyclic
  <2>1. \A q \in Ids : more[q] # None => o \notin more[q].refs
    BY <1>1 DEF AllGood, Good, Live
  <2>2. CASE o \in S
    BY <2>1, <2>2
  <2>3. CASE o \notin S
    <3>1. \A q \in S : more[q] = objs[q] /\ objs[q] # None
      BY <1>1, <2>3
    <3>2. S \in SUBSET {p \in Ids : objs[p] # None}
      BY <3>1
    <3>3. PICK p \in S : \A q \in S : p \notin objs[q].refs
      BY <3>2 DEF AllGood, Acyclic
    <3> QED
      BY <3>1, <3>3
  <2> QED
    BY <2>2, <2>3
<1> QED
  BY <1>1, <1>2, <1>3, <1>4, <1>5, <1>6 DEF AllGood, more

LEMMA MemberGood ==
  ASSUME NEW objs, AllGood(objs), NEW p \in Ids, objs[p] # None, NEW r \in Ids, objs[r] # None,
         objs[r].refs = {}, p # r,
         objs[p].kind = "db" => objs[r].db = p,
         objs[p].kind = "node" => objs[r].db = objs[p].db
  PROVE  /\ AllGood(Member(objs, p, r)) /\ Grown(objs, Member(objs, p, r))
         /\ r \in Member(objs, p, r)[p].refs
         /\ \A o \in Ids : objs[o] # None =>
              Member(objs, p, r)[o].kind = objs[o].kind /\ Member(objs, p, r)[o].db = objs[o].db
<1> DEFINE more == Member(objs, p, r)
           x == [objs[p] EXCEPT !.refs = @ \cup {r}]
<1>1. /\ objs[p] \in Objects /\ Good(objs, objs[p])
      /\ objs[p].kind = "db" => OwnPages(objs, p)
  BY DEF AllGood
<1>2. /\ x \in Objects /\ x.kind = objs[p].kind /\ x.db = objs[p].db /\ x.refs = objs[p].refs \cup {r}
  BY <1>1 DEF Objects
<1>3. more = [objs EXCEPT ![p] = x]
  BY DEF Member
<1> HIDE DEF x, more
<1>4. /\ more \in [Ids -> Objects \cup {None}] /\ more[p] = x
      /\ \A q \in Ids : q # p => more[q] = objs[q]
  BY <1>2, <1>3 DEF AllGood
<1>5. Grown(objs, more)
  BY <1>2, <1>4, NotNone DEF Grown
<1>6. Good(objs, x)
  BY <1>1, <1>2 DEF Good, GoodDependant, GoodNode, Over, IsA, Live
<1>7. \A q \in Ids : more[q] # None => Good(more, more[q])
  BY <1>4, <1>5, <1>6, GoodGrown DEF AllGood
<1>8. ASSUME NEW q \in Ids, more[q] # None, more[q].kind = "db"
      PROVE  OwnPages(more, q)
  <2>1. objs[q] # None /\ objs[q].kind = "db" /\ OwnPages(objs, q)
        /\ \A s \in objs[q].refs : Live(objs, s)
    BY <1>2, <1>4, <1>8 DEF AllGood, Good
  <2>2. \A s \in more[q].refs : s \in objs[q].refs \/ (q = p /\ s = r)
    BY <1>2, <1>4
  <2>3. \A s \in Ids : objs[s] # None => more[s].db = objs[s].db
    BY <1>5 DEF Grown
  <2> QED
    BY <2>1, <2>2, <2>3 DEF OwnPages, Live
<1>9. Acyclic(more)
  <2> SUFFICES ASSUME NEW S \in SUBSET {o \in Ids : more[o] # None}, S # {}
               PROVE  \E o \in S : \A q \in S : o \notin more[q].refs
    BY DEF Acyclic
  <2>1. more[r].refs = {} /\ (\A q \in Ids : more[q] # None => objs[q] # None)
    BY <1>4
  <2>2. \A q \in Ids : more[q].refs \subseteq objs[q].refs \cup {r}
    BY <1>2, <1>4
  <2>3. CASE S = {r}
    BY <2>1, <2>3
  <2>4. CASE S # {r}
    <3>1. S \ {r} # {} /\ S \ {r} \in SUBSET {o \in Ids : objs[o] # None}
      BY <2>1, <2>4
    <3>2. PICK o \in S \ {r} : \A q \in S \ {r} : o \notin objs[q].refs
      BY <3>1 DEF AllGood, Acyclic
    <3>3. \A q \in S \ {r} : o \notin more[q].refs
      BY <2>2, <3>2
    <3> QED
      BY <2>1, <3>2, <3>3
  <2> QED
    BY <2>3, <2>4
<1> QED
  BY <1>2, <1>4, <1>5, <1>7, <1>8, <1>9 DEF AllGood, Grown, more
-----------------------------------------------------------------------------
(***************************************************************************)
(* Values of the program.                                                  *)
(***************************************************************************)

LEMMA PointerSound ==
  ASSUME NEW objs, NEW o, Live(objs, o)
  PROVE  Pointer(o) \in Values /\ Sound(objs, Pointer(o)) /\ OwnerIs(objs, Pointer(o))
<1>1. o \in Ids /\ Live(objs, o)
  BY DEF Live
<1>2. Pointer(o) = [what |-> "pointer", refs |-> {o}, raw |-> None, home |-> None]
  BY DEF Pointer
<1>3. Pointer(o) \in Values
  BY <1>1, <1>2 DEF Values
<1> QED
  BY <1>1, <1>2, <1>3 DEF Sound, OwnerIs, BareIterators

LEMMA SetInv ==
  ASSUME Inv, AllGood(obj'), Grown(obj, obj'), NEW v \in Vars, NEW x \in Values,
         Sound(obj', x), OwnerIs(obj', x), Set(v, x)
  PROVE  Inv'
<1>1. val' = [val EXCEPT ![v] = x] /\ blame' = None
  BY DEF Set
<1>2. AllSound(obj', val)
  BY SoundGrown DEF Inv
<1>3. AllSound(obj', val')
  BY <1>1, <1>2 DEF AllSound
<1> QED
  BY <1>1, <1>3 DEF Inv, BlameOK, IndependantObjectsWork

\* A variable is set to a pointer to an object that is there.
LEMMA SetPointer ==
  ASSUME Inv, AllGood(obj'), Grown(obj, obj'), NEW v \in Vars, NEW o, Live(obj', o),
         Set(v, Pointer(o))
  PROVE  Inv'
BY PointerSound, SetInv

\* An object is made, and a variable set to it.
LEMMA SetNew ==
  ASSUME Inv, NEW v \in Vars, NEW o \in New, NEW x \in Objects, Good(obj, x),
         x.kind # "db" \/ x.refs = {}, obj' = Made(obj, o, x), Set(v, Pointer(o))
  PROVE  Inv'
<1>1. o \in Ids /\ obj[o] = None
  BY NewIsFree DEF New, Free, Existing
<1>2. AllGood(obj') /\ Grown(obj, obj') /\ obj'[o] = x
  BY <1>1, MadeGood DEF Inv
<1>3. Live(obj', o)
  BY <1>1, <1>2, NotNone DEF Live
<1> QED
  BY <1>2, <1>3, SetPointer

\* What is there is as it should be.
LEMMA Known ==
  ASSUME Inv, NEW o, o \in Existing
  PROVE  /\ o \in Ids /\ Live(obj, o) /\ obj[o] \in Objects /\ Good(obj, obj[o])
         /\ obj[o].kind = "db" => OwnPages(obj, o)
         /\ obj[o].kind \in Kinds
         /\ \A r \in obj[o].refs : r \in Existing
BY DEF Inv, AllGood, Existing, Live, Objects, Good

LEMMA SameGrown ==
  ASSUME Inv
  PROVE  AllGood(obj) /\ Grown(obj, obj)
BY DEF Inv, AllGood, Grown

LEMMA NewDependant ==
  ASSUME NEW kind, NEW d
  PROVE  Dependant(kind, d) = [kind |-> kind, refs |-> {}, db |-> d, full |-> FALSE]
BY DEF Dependant, Object

LEMMA NewNode ==
  ASSUME NEW d, NEW c
  PROVE  Node(d, c) = [kind |-> "node", refs |-> {d, c} \ {None}, db |-> d, full |-> FALSE]
BY DEF Node, Object

\* A member that is read on demand.
LEMMA MemberRead ==
  ASSUME Inv, NEW p, p \in Existing, NEW kind \in Dependants, NEW d, IsA(obj, d, "db"),
         obj[p].kind = "db" => d = p,
         obj[p].kind = "node" => d = obj[p].db,
         NEW r \in CachedAt(p, kind),
         obj' = Cached(p, kind, Dependant(kind, d), r)
  PROVE  /\ AllGood(obj') /\ Grown(obj, obj')
         /\ IsA(obj', r, kind) /\ r \in obj'[p].refs
<1>1. CASE Has(p, kind)
  <2>1. r = Ref(p, kind) /\ obj' = obj
    BY <1>1 DEF CachedAt, Cached
  <2>2. r \in obj[p].refs /\ Is(r, kind)
    BY <1>1, <2>1 DEF Has, Ref
  <2> QED
    BY <2>1, <2>2, SameGrown DEF Is, IsA, Live, Existing
<1>2. CASE ~Has(p, kind)
  <2> DEFINE x == Dependant(kind, d)
             more == Made(obj, r, x)
  <2>1. obj' = Member(more, p, r) /\ r \in Ids /\ obj[r] = None
    BY <1>2, NewIsFree DEF CachedAt, Cached, New, Free, Existing
  <2>2. x = [kind |-> kind, refs |-> {}, db |-> d, full |-> FALSE]
    BY NewDependant
  <2>3. d \in Ids /\ kind \in Kinds /\ kind # "db" /\ kind \notin {"node", "heap", "bth", "table"}
    BY DEF IsA, Live, Kinds, Dependants, Owning
  <2> HIDE DEF x, more
  <2>4. x \in Objects
    BY <2>2, <2>3 DEF Objects
  <2>5. Good(obj, x) /\ (x.kind # "db" \/ x.refs = {})
    BY <2>2, <2>3 DEF Good, GoodDependant
  <2>6. AllGood(more) /\ Grown(obj, more) /\ more[r] = x
    BY <2>1, <2>4, <2>5, MadeGood DEF more, Inv
  <2>7. /\ p \in Ids /\ obj[p] # None /\ more[p] # None
        /\ more[p].kind = obj[p].kind /\ more[p].db = obj[p].db
    BY <2>6, Known DEF Grown, Live
  <2>8. /\ more[r] # None /\ more[r].db = d /\ more[r].kind = kind
        /\ more[r].refs = {} /\ p # r
    <3>1. x # None
      BY <2>4, NotNone
    <3>2. x.db = d /\ x.kind = kind /\ x.refs = {}
      BY <2>2
    <3> QED
      BY <2>1, <2>6, <2>7, <3>1, <3>2
  <2>9. /\ AllGood(Member(more, p, r)) /\ Grown(more, Member(more, p, r))
        /\ r \in Member(more, p, r)[p].refs
    BY <2>1, <2>6, <2>7, <2>8, MemberGood
  <2>10. Grown(obj, Member(more, p, r))
    BY <2>6, <2>9 DEF Grown
  <2>11. IsA(Member(more, p, r), r, kind)
    BY <2>1, <2>8, <2>9 DEF Grown, IsA, Live
  <2> QED
    BY <2>1, <2>9, <2>10, <2>11
<1> QED
  BY <1>1, <1>2

\* The database of a node.
LEMMA DbOfNode ==
  ASSUME Inv, NEW n, Is(n, "node")
  PROVE  /\ n \in Existing /\ obj[n].kind = "node" /\ IsA(obj, obj[n].db, "db")
         /\ obj[n].db \in obj[n].refs /\ obj[n].db \in Ids
         /\ \A r \in obj[n].refs : obj[r].kind \in Dependants => obj[r].db = obj[n].db
BY Known DEF Is, Good, GoodNode, IsA, Live

LEMMA DbIs ==
  ASSUME Inv, NEW d, Is(d, "db")
  PROVE  d \in Existing /\ obj[d].kind = "db" /\ IsA(obj, d, "db") /\ d \in Ids
BY Known DEF Is, IsA

-----------------------------------------------------------------------------
(***************************************************************************)
(* What the program does.                                                  *)
(***************************************************************************)

LEMMA CopyStep ==
  ASSUME Inv, NEW v \in Vars, NEW u \in Vars, Copy(v, u)
  PROVE  Inv'
<1>1. val[u] # None /\ Set(v, val[u]) /\ obj' = obj
  BY DEF Copy
<1>2. val[u] \in Values /\ Sound(obj, val[u]) /\ OwnerIs(obj, val[u])
  BY <1>1 DEF Inv, AllSound
<1> QED
  BY <1>1, <1>2, SameGrown, SetInv

LEMMA DropStep ==
  ASSUME Inv, NEW v \in Vars, Drop(v)
  PROVE  Inv'
<1>1. val' = [val EXCEPT ![v] = None] /\ blame' = None /\ obj' = obj
  BY DEF Drop
<1>2. AllSound(obj, val')
  BY <1>1 DEF Inv, AllSound
<1> QED
  BY <1>1, <1>2 DEF Inv, BlameOK, IndependantObjectsWork

LEMMA OpenStep ==
  ASSUME Inv, NEW v \in Vars, Open(v)
  PROVE  Inv'
<1>1. PICK d \in New : obj' = Made(obj, d, Object("db", {}, None)) /\ Set(v, Pointer(d))
  BY DEF Open
<1> DEFINE x == Object("db", {}, None)
<1>2. x = [kind |-> "db", refs |-> {}, db |-> None, full |-> FALSE]
  BY DEF Object
<1> HIDE DEF x
<1>3. x \in Objects
  BY <1>2 DEF Objects, Kinds
<1>4. Good(obj, x)
  BY <1>2 DEF Good, Dependants
<1> QED
  BY <1>1, <1>2, <1>3, <1>4, SetNew DEF x

LEMMA ReadRootStep ==
  ASSUME Inv, NEW v \in Vars, NEW d \in Existing, ReadRoot(v, d)
  PROVE  Inv'
<1>1. PICK r \in CachedAt(d, "page") :
        obj' = Cached(d, "page", Dependant("page", d), r) /\ Set(v, Pointer(r))
  BY DEF ReadRoot
<1>2. obj[d].kind = "db" /\ IsA(obj, d, "db") /\ "page" \in Dependants
  BY DbIs DEF ReadRoot, Uses, Dependants
<1>3. AllGood(obj') /\ Grown(obj, obj') /\ IsA(obj', r, "page")
  BY <1>1, <1>2, MemberRead
<1> QED
  BY <1>1, <1>3, SetPointer DEF IsA

LEMMA ReadAloneStep ==
  ASSUME Inv, NEW v \in Vars, NEW d \in Existing, NEW kind \in Dependants, ReadAlone(v, d, kind)
  PROVE  Inv'
<1> DEFINE x == Dependant(kind, d)
<1>1. PICK o \in New : obj' = Made(obj, o, x) /\ Set(v, Pointer(o))
  BY DEF ReadAlone
<1>2. IsA(obj, d, "db") /\ d \in Ids
  BY DbIs DEF ReadAlone, Uses
<1>3. x = [kind |-> kind, refs |-> {}, db |-> d, full |-> FALSE]
  BY NewDependant
<1>4. kind \in Kinds /\ kind # "db" /\ kind \notin {"node", "heap", "bth", "table"}
  BY DEF Kinds, Dependants
<1> HIDE DEF x
<1>5. x \in Objects /\ Good(obj, x)
  BY <1>2, <1>3, <1>4 DEF Objects, Good, GoodDependant
<1> QED
  BY <1>1, <1>3, <1>5, SetNew

\* A node, of the database or of the subnodes of another node.
LEMMA NodeGood ==
  ASSUME Inv, NEW d, IsA(obj, d, "db"), NEW c, c = None \/ IsA(obj, c, "node")
  PROVE  Node(d, c) \in Objects /\ Good(obj, Node(d, c)) /\ Node(d, c).kind = "node"
<1> DEFINE x == Node(d, c)
<1>1. x = [kind |-> "node", refs |-> {d, c} \ {None}, db |-> d, full |-> FALSE]
  BY NewNode
<1>2. d \in Ids /\ d # None /\ Live(obj, d) /\ obj[d].kind = "db"
  BY NamesAssumption DEF IsA, Live
<1>3. \A r \in {d, c} \ {None} : Live(obj, r) /\ obj[r].kind \notin Dependants
  BY <1>2 DEF IsA, Dependants
<1>4. {d, c} \ {None} \in SUBSET Ids
  BY <1>3 DEF Live
<1> HIDE DEF x
<1>5. x \in Objects /\ x.kind = "node"
  BY <1>1, <1>2, <1>4 DEF Objects, Kinds
<1>6. Good(obj, x)
  BY <1>1, <1>2, <1>3 DEF Good, GoodNode, IsA, Dependants
<1> QED
  BY <1>5, <1>6 DEF x

LEMMA LookupNodeStep ==
  ASSUME Inv, NEW v \in Vars, NEW d \in Existing, LookupNode(v, d)
  PROVE  Inv'
<1>1. PICK n \in New : obj' = Made(obj, n, Node(d, None)) /\ Set(v, Pointer(n))
  BY DEF LookupNode
<1>2. IsA(obj, d, "db")
  BY DbIs DEF LookupNode, Uses
<1>3. Node(d, None) \in Objects /\ Good(obj, Node(d, None)) /\ Node(d, None).kind = "node"
  BY <1>2, NodeGood
<1> QED
  BY <1>1, <1>3, SetNew

LEMMA LookupSubnodeStep ==
  ASSUME Inv, NEW v \in Vars, NEW n \in Existing, LookupSubnode(v, n)
  PROVE  Inv'
<1>1. PICK sub \in New : obj' = Made(obj, sub, Node(obj[n].db, n)) /\ Set(v, Pointer(sub))
  BY DEF LookupSubnode
<1>2. IsA(obj, obj[n].db, "db") /\ IsA(obj, n, "node")
  BY DbOfNode, Known DEF LookupSubnode, Uses, IsA
<1>3. LET x == Node(obj[n].db, n) IN x \in Objects /\ Good(obj, x) /\ x.kind = "node"
  BY <1>2, NodeGood
<1> QED
  BY <1>1, <1>3, SetNew

LEMMA GetBlockStep ==
  ASSUME Inv, NEW v \in Vars, NEW n \in Existing, NEW kind \in {"data", "subnodes"},
         GetBlock(v, n, kind)
  PROVE  Inv'
<1>1. PICK b \in CachedAt(n, kind) :
        obj' = Cached(n, kind, Dependant(kind, obj[n].db), b) /\ Set(v, Pointer(b))
  BY DEF GetBlock
<1>2. obj[n].kind = "node" /\ IsA(obj, obj[n].db, "db") /\ kind \in Dependants
  BY DbOfNode DEF GetBlock, Uses, Dependants
<1>3. AllGood(obj') /\ Grown(obj, obj') /\ IsA(obj', b, kind)
  BY <1>1, <1>2, MemberRead
<1> QED
  BY <1>1, <1>3, SetPointer DEF IsA

\* A heap on a node, a BTH on a heap, a table on a BTH.
LEMMA OverGood ==
  ASSUME NEW objs, NEW kind \in Owning, NEW refs,
         \A r \in refs : Live(objs, r),
         kind = "heap" => \E r \in refs : IsA(objs, r, "node"),
         kind = "bth" => \E r \in refs : IsA(objs, r, "heap"),
         kind = "table" => \E r \in refs : IsA(objs, r, "bth")
  PROVE  LET x == Object(kind, refs, None)
         IN x \in Objects /\ Good(objs, x) /\ x.kind = kind /\ x.kind # "db"
<1> DEFINE x == Object(kind, refs, None)
<1>1. x = [kind |-> kind, refs |-> refs, db |-> None, full |-> FALSE]
  BY DEF Object
<1>2. kind \in Kinds /\ kind \notin Dependants /\ kind # "node" /\ kind # "db"
  BY DEF Kinds, Owning, Dependants
<1>3. refs \in SUBSET Ids
  BY DEF Live
<1> HIDE DEF x
<1>4. x \in Objects /\ x.kind = kind
  BY <1>1, <1>2, <1>3 DEF Objects
<1>5. Good(objs, x)
  BY <1>1, <1>2 DEF Good, Over
<1> QED
  BY <1>2, <1>4, <1>5 DEF x

LEMMA OpenHeapStep ==
  ASSUME Inv, NEW v \in Vars, NEW n \in Existing, OpenHeap(v, n)
  PROVE  Inv'
<1>1. PICK h \in New : obj' = Made(obj, h, Object("heap", {n}, None)) /\ Set(v, Pointer(h))
  BY DEF OpenHeap
<1>2. IsA(obj, n, "node") /\ Live(obj, n) /\ "heap" \in Owning
  BY Known DEF OpenHeap, Uses, Is, IsA, Owning
<1>3. LET x == Object("heap", {n}, None)
      IN x \in Objects /\ Good(obj, x) /\ x.kind = "heap" /\ x.kind # "db"
  BY <1>2, OverGood
<1> QED
  BY <1>1, <1>3, SetNew

LEMMA OpenBthStep ==
  ASSUME Inv, NEW v \in Vars, NEW h \in Existing, OpenBth(v, h)
  PROVE  Inv'
<1>1. PICK b \in New : obj' = Made(obj, b, Object("bth", {h}, None)) /\ Set(v, Pointer(b))
  BY DEF OpenBth
<1>2. IsA(obj, h, "heap") /\ Live(obj, h) /\ "bth" \in Owning
  BY Known DEF OpenBth, Uses, Is, IsA, Owning
<1>3. LET x == Object("bth", {h}, None)
      IN x \in Objects /\ Good(obj, x) /\ x.kind = "bth" /\ x.kind # "db"
  BY <1>2, OverGood
<1> QED
  BY <1>1, <1>3, SetNew
\* One more of them.
LEMMA OverMade ==
  ASSUME NEW objs, AllGood(objs), NEW o \in Ids, objs[o] = None, NEW kind \in Owning, NEW refs,
         \A r \in refs : Live(objs, r),
         kind = "heap" => \E r \in refs : IsA(objs, r, "node"),
         kind = "bth" => \E r \in refs : IsA(objs, r, "heap"),
         kind = "table" => \E r \in refs : IsA(objs, r, "bth")
  PROVE  LET more == Made(objs, o, Object(kind, refs, None))
         IN /\ AllGood(more) /\ Grown(objs, more) /\ IsA(more, o, kind) /\ Live(more, o)
            /\ \A p \in Ids : p # o => more[p] = objs[p]
<1> DEFINE x == Object(kind, refs, None)
<1>1. x \in Objects /\ Good(objs, x) /\ x.kind = kind /\ x.kind # "db"
  BY OverGood
<1> HIDE DEF x
<1>2. AllGood(Made(objs, o, x)) /\ Grown(objs, Made(objs, o, x)) /\ Made(objs, o, x)[o] = x
      /\ \A p \in Ids : p # o => Made(objs, o, x)[p] = objs[p]
  BY <1>1, MadeGood
<1> QED
  BY <1>1, <1>2, NotNone DEF IsA, Live, x

LEMMA GrownGrown ==
  ASSUME NEW objs, NEW some, NEW more, Grown(objs, some), Grown(some, more)
  PROVE  Grown(objs, more)
BY DEF Grown

\* The heap of a node and its BTH.
LEMMA BothMade ==
  ASSUME Inv, NEW n, Is(n, "node"), NEW h \in New, NEW b \in NewOf(Free \ {h})
  PROVE  LET some == Made(obj, h, Object("heap", {n}, None))
             more == Made(some, b, Object("bth", {h}, None))
         IN /\ AllGood(more) /\ Grown(obj, more) /\ IsA(more, b, "bth") /\ Live(more, b)
            /\ \A p \in Ids \ {h, b} : more[p] = obj[p]
<1> DEFINE some == Made(obj, h, Object("heap", {n}, None))
           more == Made(some, b, Object("bth", {h}, None))
<1>1. h \in Ids /\ obj[h] = None /\ b \in Ids /\ obj[b] = None /\ b # h
  BY NewIsFree DEF New, Free, Existing
<1>2. IsA(obj, n, "node") /\ Live(obj, n) /\ AllGood(obj)
  BY Known DEF Is, IsA, Inv
<1>3. "heap" \in Owning /\ "bth" \in Owning
  BY DEF Owning
<1>4. /\ AllGood(some) /\ Grown(obj, some) /\ IsA(some, h, "heap") /\ Live(some, h)
      /\ \A p \in Ids : p # h => some[p] = obj[p]
  BY <1>1, <1>2, <1>3, OverMade
<1> HIDE DEF some
<1>5. /\ AllGood(more) /\ Grown(some, more) /\ IsA(more, b, "bth") /\ Live(more, b)
      /\ \A p \in Ids : p # b => more[p] = some[p]
  <2>1. some[b] = None
    BY <1>1, <1>4
  <2> QED
    BY <1>1, <1>3, <1>4, <2>1, OverMade
<1> HIDE DEF more
<1>6. Grown(obj, more)
  BY <1>4, <1>5, GrownGrown
<1>7. \A p \in Ids \ {h, b} : more[p] = obj[p]
  BY <1>4, <1>5
<1> QED
  BY <1>5, <1>6, <1>7 DEF more, some

LEMMA OpenBagStep ==
  ASSUME Inv, NEW v \in Vars, NEW n \in Existing, OpenBag(v, n)
  PROVE  Inv'
<1>1. PICK h \in New : \E b \in NewOf(Free \ {h}) :
        /\ obj' = Made(Made(obj, h, Object("heap", {n}, None)), b, Object("bth", {h}, None))
        /\ Set(v, Pointer(b))
  BY DEF OpenBag
<1>2. PICK b \in NewOf(Free \ {h}) :
        /\ obj' = Made(Made(obj, h, Object("heap", {n}, None)), b, Object("bth", {h}, None))
        /\ Set(v, Pointer(b))
  BY <1>1
<1>3. Is(n, "node")
  BY DEF OpenBag, Uses
<1>4. AllGood(obj') /\ Grown(obj, obj') /\ Live(obj', b)
  BY <1>2, <1>3, BothMade
<1> QED
  BY <1>2, <1>4, SetPointer

\* The subnode with the rows of a table.
LEMMA SubnodeMade ==
  ASSUME NEW objs, AllGood(objs), AllGood(obj), Grown(obj, objs), Inv, NEW n, Is(n, "node"),
         NEW a \in Ids, objs[a] = None
  PROVE  LET more == Made(objs, a, Node(obj[n].db, n))
         IN /\ AllGood(more) /\ Grown(objs, more) /\ Live(more, a)
            /\ \A p \in Ids : p # a => more[p] = objs[p]
<1> DEFINE x == Node(obj[n].db, n)
<1>1. IsA(obj, obj[n].db, "db") /\ IsA(obj, n, "node")
  BY DbOfNode, Known DEF Is, IsA
<1>2. x \in Objects /\ Good(obj, x) /\ x.kind = "node" /\ x.kind # "db"
  BY <1>1, NodeGood
<1> HIDE DEF x
<1>3. Good(objs, x)
  BY <1>2, GoodGrown
<1>4. AllGood(Made(objs, a, x)) /\ Grown(objs, Made(objs, a, x)) /\ Made(objs, a, x)[a] = x
      /\ \A p \in Ids : p # a => Made(objs, a, x)[p] = objs[p]
  BY <1>2, <1>3, MadeGood
<1> QED
  BY <1>2, <1>4, NotNone DEF Live, x

LEMMA OpenTableStep ==
  ASSUME Inv, NEW v \in Vars, NEW n \in Existing, OpenTable(v, n)
  PROVE  Inv'
<1> DEFINE Opened(h, b) ==
             Made(Made(obj, h, Object("heap", {n}, None)), b, Object("bth", {h}, None))
<1>1. PICK h \in New : \E b \in NewOf(Free \ {h}) : \E t \in NewOf(Free \ {h, b}) :
        /\ \/ obj' = Made(Opened(h, b), t, Object("table", {b}, None))
           \/ \E a \in NewOf(Free \ {h, b, t}) :
                obj' = Made(Made(Opened(h, b), a, Node(obj[n].db, n)),
                            t, Object("table", {b, a}, None))
        /\ Set(v, Pointer(t))
  BY DEF OpenTable
<1>2. PICK b \in NewOf(Free \ {h}) : \E t \in NewOf(Free \ {h, b}) :
        /\ \/ obj' = Made(Opened(h, b), t, Object("table", {b}, None))
           \/ \E a \in NewOf(Free \ {h, b, t}) :
                obj' = Made(Made(Opened(h, b), a, Node(obj[n].db, n)),
                            t, Object("table", {b, a}, None))
        /\ Set(v, Pointer(t))
  BY <1>1
<1> DEFINE opened == Opened(h, b)
<1>3. PICK t \in NewOf(Free \ {h, b}) :
        /\ \/ obj' = Made(opened, t, Object("table", {b}, None))
           \/ \E a \in NewOf(Free \ {h, b, t}) :
                obj' = Made(Made(opened, a, Node(obj[n].db, n)), t, Object("table", {b, a}, None))
        /\ Set(v, Pointer(t))
  BY <1>2
<1>4. Is(n, "node")
  BY DEF OpenTable, Uses
<1>5. /\ AllGood(opened) /\ Grown(obj, opened) /\ IsA(opened, b, "bth") /\ Live(opened, b)
      /\ \A p \in Ids \ {h, b} : opened[p] = obj[p]
  BY <1>4, BothMade
<1> HIDE DEF opened, Opened
<1>6. t \in Ids /\ t # h /\ t # b /\ obj[t] = None /\ opened[t] = None /\ "table" \in Owning
  BY <1>5, NewIsFree DEF Free, Existing, Owning
<1>7. AllGood(obj') /\ Grown(opened, obj') /\ Live(obj', t)
  <2>1. CASE obj' = Made(opened, t, Object("table", {b}, None))
    BY <1>5, <1>6, <2>1, OverMade
  <2>2. ASSUME NEW a \in NewOf(Free \ {h, b, t}),
               obj' = Made(Made(opened, a, Node(obj[n].db, n)), t, Object("table", {b, a}, None))
        PROVE  AllGood(obj') /\ Grown(opened, obj') /\ Live(obj', t)
    <3> DEFINE some == Made(opened, a, Node(obj[n].db, n))
    <3>1. a \in Ids /\ a # h /\ a # b /\ a # t /\ opened[a] = None
      BY <1>5, NewIsFree DEF Free, Existing
    <3>2. /\ AllGood(some) /\ Grown(opened, some) /\ Live(some, a)
          /\ \A p \in Ids : p # a => some[p] = opened[p]
      BY <1>4, <1>5, <3>1, SubnodeMade DEF Inv
    <3>3. obj' = Made(some, t, Object("table", {b, a}, None))
      BY <2>2
    <3> HIDE DEF some
    <3>4. IsA(some, b, "bth") /\ Live(some, b) /\ some[t] = None
      BY <1>5, <1>6, <3>1, <3>2 DEF IsA, Live
    <3>5. AllGood(obj') /\ Grown(some, obj') /\ Live(obj', t)
      BY <1>6, <3>2, <3>3, <3>4, OverMade
    <3> QED
      BY <3>2, <3>5, GrownGrown
  <2> QED
    BY <1>3, <2>1, <2>2
<1>8. Grown(obj, obj')
  BY <1>5, <1>7, GrownGrown
<1> QED
  BY <1>3, <1>7, <1>8, SetPointer

\* The first page of a database and the members of a node, read on demand.
LEMMA RootRead ==
  ASSUME Inv, NEW d, Is(d, "db"), NEW r \in CachedAt(d, "page"),
         obj' = Cached(d, "page", Dependant("page", d), r)
  PROVE  /\ AllGood(obj') /\ Grown(obj, obj') /\ IsA(obj', d, "db")
         /\ r \in Ids /\ r \in obj'[d].refs
<1>1. d \in Existing /\ obj[d].kind = "db" /\ IsA(obj, d, "db") /\ d \in Ids /\ "page" \in Dependants
  BY DbIs DEF Dependants
<1>2. AllGood(obj') /\ Grown(obj, obj') /\ IsA(obj', r, "page") /\ r \in obj'[d].refs
  BY <1>1, MemberRead
<1> QED
  BY <1>1, <1>2 DEF Grown, IsA, Live

LEMMA SubnodesRead ==
  ASSUME Inv, NEW n, Is(n, "node"), NEW kind \in {"data", "subnodes"}, NEW s \in CachedAt(n, kind),
         obj' = Cached(n, kind, Dependant(kind, obj[n].db), s)
  PROVE  /\ AllGood(obj') /\ Grown(obj, obj') /\ IsA(obj', n, "node")
         /\ s \in Ids /\ s \in obj'[n].refs
<1>1. n \in Existing /\ obj[n].kind = "node" /\ IsA(obj, obj[n].db, "db") /\ kind \in Dependants
  BY DbOfNode DEF Dependants
<1>2. AllGood(obj') /\ Grown(obj, obj') /\ IsA(obj', s, kind) /\ s \in obj'[n].refs
  BY <1>1, MemberRead
<1>3. IsA(obj, n, "node")
  BY <1>1, Known DEF IsA
<1> QED
  BY <1>2, <1>3 DEF Grown, IsA, Live

LEMMA FolderIteratorStep ==
  ASSUME Inv, NEW v \in Vars, NEW d \in Existing, FolderIterator(v, d)
  PROVE  Inv'
<1> DEFINE X(r) == [what |-> "folder_iterator", refs |-> {d}, raw |-> r, home |-> None]
<1>1. PICK r \in CachedAt(d, "page") :
        obj' = Cached(d, "page", Dependant("page", d), r) /\ Set(v, X(r))
  BY DEF FolderIterator
<1>2. /\ AllGood(obj') /\ Grown(obj, obj') /\ IsA(obj', d, "db")
      /\ r \in Ids /\ r \in obj'[d].refs
  BY <1>1, RootRead DEF FolderIterator, Uses
<1> DEFINE x == X(r)
<1>3. x.what = "folder_iterator" /\ x.refs = {d} /\ x.raw = r
  OBVIOUS
<1>4. x \in Values
  BY <1>2 DEF Values, OwningIterators, IsA, Live
<1>5. Set(v, x)
  BY <1>1
<1> HIDE DEF x, X
<1>6. Sound(obj', x) /\ OwnerIs(obj', x)
  BY <1>2, <1>3 DEF Sound, OwnerIs, IsA, BareIterators
<1> QED
  BY <1>2, <1>4, <1>5, <1>6, SetInv

LEMMA SubnodeIteratorStep ==
  ASSUME Inv, NEW v \in Vars, NEW n \in Existing, SubnodeIterator(v, n)
  PROVE  Inv'
<1> DEFINE X(s) == [what |-> "subnode_iterator", refs |-> {n}, raw |-> s, home |-> None]
<1>1. PICK s \in CachedAt(n, "subnodes") :
        obj' = Cached(n, "subnodes", Dependant("subnodes", obj[n].db), s) /\ Set(v, X(s))
  BY DEF SubnodeIterator
<1>2. /\ AllGood(obj') /\ Grown(obj, obj') /\ IsA(obj', n, "node")
      /\ s \in Ids /\ s \in obj'[n].refs
  BY <1>1, SubnodesRead DEF SubnodeIterator, Uses
<1> DEFINE x == X(s)
<1>3. x.what = "subnode_iterator" /\ x.refs = {n} /\ x.raw = s
  OBVIOUS
<1>4. x \in Values
  BY <1>2 DEF Values, OwningIterators, IsA, Live
<1>5. Set(v, x)
  BY <1>1
<1> HIDE DEF x, X
<1>6. Sound(obj', x) /\ OwnerIs(obj', x)
  BY <1>2, <1>3 DEF Sound, OwnerIs, IsA, BareIterators
<1> QED
  BY <1>2, <1>4, <1>5, <1>6, SetInv

LEMMA NodeinfoIteratorStep ==
  ASSUME Inv, NEW v \in Vars, NEW d \in Existing, NodeinfoIterator(v, d)
  PROVE  Inv'
<1> DEFINE X(r) == [what |-> "nodeinfo_iterator", refs |-> {}, raw |-> r, home |-> d]
<1>1. PICK r \in CachedAt(d, "page") :
        obj' = Cached(d, "page", Dependant("page", d), r) /\ Set(v, X(r))
  BY DEF NodeinfoIterator
<1>2. /\ AllGood(obj') /\ Grown(obj, obj') /\ IsA(obj', d, "db")
      /\ r \in Ids /\ r \in obj'[d].refs
  BY <1>1, RootRead DEF NodeinfoIterator, Uses
<1> DEFINE x == X(r)
<1>3. x.what = "nodeinfo_iterator" /\ x.refs = {} /\ x.raw = r /\ x.home = d
  OBVIOUS
<1>4. x \in Values
  BY <1>2 DEF Values, BareIterators, IsA, Live
<1>5. Set(v, x)
  BY <1>1
<1> HIDE DEF x, X
<1>6. Sound(obj', x) /\ OwnerIs(obj', x)
  BY <1>2, <1>3 DEF Sound, OwnerIs, IsA
<1> QED
  BY <1>2, <1>4, <1>5, <1>6, SetInv

LEMMA SubnodeinfoIteratorStep ==
  ASSUME Inv, NEW v \in Vars, NEW n \in Existing, SubnodeinfoIterator(v, n)
  PROVE  Inv'
<1> DEFINE X(s) == [what |-> "subnodeinfo_iterator", refs |-> {}, raw |-> s, home |-> n]
<1>1. PICK s \in CachedAt(n, "subnodes") :
        obj' = Cached(n, "subnodes", Dependant("subnodes", obj[n].db), s) /\ Set(v, X(s))
  BY DEF SubnodeinfoIterator
<1>2. /\ AllGood(obj') /\ Grown(obj, obj') /\ IsA(obj', n, "node")
      /\ s \in Ids /\ s \in obj'[n].refs
  BY <1>1, SubnodesRead DEF SubnodeinfoIterator, Uses
<1> DEFINE x == X(s)
<1>3. x.what = "subnodeinfo_iterator" /\ x.refs = {} /\ x.raw = s /\ x.home = n
  OBVIOUS
<1>4. x \in Values
  BY <1>2 DEF Values, BareIterators, IsA, Live
<1>5. Set(v, x)
  BY <1>1
<1> HIDE DEF x, X
<1>6. Sound(obj', x) /\ OwnerIs(obj', x)
  BY <1>2, <1>3 DEF Sound, OwnerIs, IsA
<1> QED
  BY <1>2, <1>4, <1>5, <1>6, SetInv

LEMMA DereferenceStep ==
  ASSUME Inv, NEW v \in Vars, NEW u \in Vars, Dereference(v, u)
  PROVE  Inv'
<1>1. PICK n \in New, owner \in val[u].refs :
        /\ \/ /\ val[u].what = "folder_iterator"
              /\ obj' = Made(obj, n, Node(owner, None))
           \/ /\ val[u].what = "subnode_iterator"
              /\ obj' = Made(obj, n, Node(obj[owner].db, owner))
        /\ Set(v, Pointer(n))
  BY DEF Dereference
<1>2. OwnerIs(obj, val[u])
  BY DEF Dereference, Inv, AllSound
<1>3. CASE val[u].what = "folder_iterator" /\ obj' = Made(obj, n, Node(owner, None))
  <2>1. IsA(obj, owner, "db")
    BY <1>2, <1>3 DEF OwnerIs
  <2>2. LET x == Node(owner, None) IN x \in Objects /\ Good(obj, x) /\ x.kind = "node"
    BY <2>1, NodeGood
  <2> QED
    BY <1>1, <1>3, <2>2, SetNew
<1>4. CASE val[u].what = "subnode_iterator" /\ obj' = Made(obj, n, Node(obj[owner].db, owner))
  <2>1. IsA(obj, owner, "node") /\ Is(owner, "node")
    BY <1>2, <1>4 DEF OwnerIs, Is, IsA, Live, Existing
  <2>2. IsA(obj, obj[owner].db, "db")
    BY <2>1, DbOfNode
  <2>3. LET x == Node(obj[owner].db, owner) IN x \in Objects /\ Good(obj, x) /\ x.kind = "node"
    BY <2>1, <2>2, NodeGood
  <2> QED
    BY <1>1, <1>4, <2>3, SetNew
<1> QED
  BY <1>1, <1>3, <1>4

-----------------------------------------------------------------------------
(***************************************************************************)
(* Use.                                                                    *)
(***************************************************************************)

\* Nothing changes but what has been read.
LEMMA Filled ==
  ASSUME Inv, NEW o \in Existing, obj' = [obj EXCEPT ![o].full = TRUE]
  PROVE  AllGood(obj') /\ Grown(obj, obj')
<1> DEFINE x == [obj[o] EXCEPT !.full = TRUE]
<1>1. o \in Ids /\ obj[o] # None /\ obj[o] \in Objects
  BY Known DEF Live
<1>2. x \in Objects /\ x.kind = obj[o].kind /\ x.db = obj[o].db /\ x.refs = obj[o].refs
  BY <1>1 DEF Objects
<1>3. obj' = [obj EXCEPT ![o] = x]
  OBVIOUS
<1> HIDE DEF x
<1>4. /\ obj' \in [Ids -> Objects \cup {None}] /\ obj'[o] = x
      /\ \A p \in Ids : p # o => obj'[p] = obj[p]
  BY <1>1, <1>2, <1>3 DEF Inv, AllGood
<1>5. \A p \in Ids : obj[p] # None =>
        /\ obj'[p] # None /\ obj'[p].kind = obj[p].kind /\ obj'[p].db = obj[p].db
        /\ obj'[p].refs = obj[p].refs
  BY <1>2, <1>4, NotNone
<1>6. Grown(obj, obj')
  BY <1>4, <1>5 DEF Grown
<1>7. ASSUME NEW p \in Ids, obj'[p] # None
      PROVE  Good(obj', obj'[p]) /\ (obj'[p].kind = "db" => OwnPages(obj', p))
  <2>1. obj[p] # None /\ Good(obj, obj[p]) /\ (obj[p].kind = "db" => OwnPages(obj, p))
    BY <1>1, <1>4, <1>7 DEF Inv, AllGood
  <2>2. Good(obj', obj[p])
    BY <1>6, <2>1, GoodGrown DEF Inv
  <2>3. Good(obj', obj'[p])
    BY <1>5, <2>1, <2>2 DEF Good, GoodDependant, GoodNode, Over
  <2>4. obj'[p].kind = "db" => OwnPages(obj', p)
    BY <1>5, <2>1 DEF OwnPages, Good, Live
  <2> QED
    BY <2>3, <2>4
<1>8. Acyclic(obj')
  <2> SUFFICES ASSUME NEW S \in SUBSET {p \in Ids : obj'[p] # None}, S # {}
               PROVE  \E p \in S : \A q \in S : p \notin obj'[q].refs
    BY DEF Acyclic
  <2>1. \A q \in S : obj[q] # None
    BY <1>1, <1>4
  <2>2. S \in SUBSET {p \in Ids : obj[p] # None}
    BY <2>1
  <2>3. PICK p \in S : \A q \in S : p \notin obj[q].refs
    BY <2>2 DEF Inv, AllGood, Acyclic
  <2> QED
    BY <1>5, <2>1, <2>3
<1> QED
  BY <1>4, <1>6, <1>7, <1>8 DEF AllGood

\* On behalf of a dependant the database may be missing.
LEMMA FillStep ==
  ASSUME Inv, NEW o \in Existing, NEW kind, kind \in Dependants \/ obj[o].db # Expired,
         Fill(o, kind)
  PROVE  Inv'
<1>1. val' = val
  BY DEF Fill
<1>2. CASE obj[o].db = Expired
  <2>1. blame' = kind /\ obj' = obj /\ kind \in Dependants
    BY <1>2 DEF Fill
  <2> QED
    BY <1>1, <2>1 DEF Inv, BlameOK, IndependantObjectsWork, Kinds
<1>3. CASE obj[o].db # Expired
  <2>1. blame' = None /\ obj' = [obj EXCEPT ![o].full = TRUE]
    BY <1>3 DEF Fill
  <2>2. AllGood(obj') /\ Grown(obj, obj')
    BY <2>1, Filled
  <2>3. AllSound(obj', val)
    BY <2>2, SoundGrown DEF Inv
  <2> QED
    BY <1>1, <2>1, <2>2, <2>3 DEF Inv, BlameOK, IndependantObjectsWork
<1> QED
  BY <1>2, <1>3

LEMMA EnsureStep ==
  ASSUME Inv, NEW n, Is(n, "node"), NEW kind \in {"data", "subnodes"}, NEW b \in New,
         Ensure(n, kind, b)
  PROVE  Inv'
<1>1. obj' = Cached(n, kind, Dependant(kind, obj[n].db), b) /\ blame' = None /\ val' = val
  BY DEF Ensure
<1>2. b \in CachedAt(n, kind)
  BY DEF Ensure, CachedAt
<1>3. AllGood(obj') /\ Grown(obj, obj')
  BY <1>1, <1>2, SubnodesRead
<1>4. AllSound(obj', val)
  BY <1>3, SoundGrown DEF Inv
<1> QED
  BY <1>1, <1>3, <1>4 DEF Inv, BlameOK, IndependantObjectsWork

\* What a node keeps knows the database: the node keeps that too.
LEMMA MemberNotExpired ==
  ASSUME Inv, NEW n, Is(n, "node"), NEW b \in obj[n].refs, obj[b].kind \in Dependants
  PROVE  b \in Existing /\ obj[b].db # Expired
BY DbOfNode, Known, NamesAssumption

LEMMA RefIs ==
  ASSUME NEW o, NEW kind, Has(o, kind)
  PROVE  Ref(o, kind) \in obj[o].refs /\ Is(Ref(o, kind), kind)
BY DEF Has, Ref

LEMMA OverHas ==
  ASSUME NEW o, NEW kind, Over(obj, obj[o], kind)
  PROVE  Has(o, kind)
BY DEF Over, Has, Is, IsA, Live, Existing

LEMMA NodesAreNodes ==
  ASSUME Inv, NEW o \in Existing, obj[o].kind \in Owning \cup {"node"}, NEW n \in NodesOf(o)
  PROVE  Is(n, "node")
<1>1. CASE obj[o].kind = "node"
  BY <1>1 DEF NodesOf, Is
<1>2. CASE obj[o].kind \in Owning
  <2>1. \A p \in Existing : /\ obj[p].kind = "heap" => Has(p, "node")
                            /\ obj[p].kind = "bth" => Has(p, "heap")
                            /\ obj[p].kind = "table" => Has(p, "bth")
    BY Known, OverHas DEF Good
  <2>2. Is(HeapOf(o), "heap")
    <3>1. CASE obj[o].kind = "heap"
      BY <3>1 DEF HeapOf, Is
    <3>2. CASE obj[o].kind = "bth"
      BY <2>1, <3>2, RefIs DEF HeapOf
    <3>3. CASE obj[o].kind = "table"
      <4>1. Is(Ref(o, "bth"), "bth")
        BY <2>1, <3>3, RefIs
      <4>2. Is(Ref(Ref(o, "bth"), "heap"), "heap")
        BY <2>1, <4>1, RefIs DEF Is
      <4> QED
        BY <3>3, <4>2 DEF HeapOf
    <3> QED
      BY <1>2, <3>1, <3>2, <3>3 DEF Owning
  <2>3. Is(Ref(HeapOf(o), "node"), "node")
    BY <2>1, <2>2, RefIs DEF Is
  <2>4. obj[o].kind # "node"
    BY <1>2 DEF Owning
  <2> QED
    BY <2>3, <2>4 DEF NodesOf
<1> QED
  BY <1>1, <1>2

LEMMA UsePointerStep ==
  ASSUME Inv, NEW v \in Vars, UsePointer(v)
  PROVE  Inv'
<1>1. PICK o \in Existing :
        \/ Fill(o, obj[o].kind)
        \/ /\ obj[o].kind \in Owning \cup {"node"}
           /\ \E n \in NodesOf(o), kind \in {"data", "subnodes"} :
                \/ \E b \in New : Ensure(n, kind, b)
                \/ Has(n, kind) /\ Fill(Ref(n, kind), obj[o].kind)
  BY DEF UsePointer
<1>2. CASE Fill(o, obj[o].kind)
  BY <1>2, FillStep DEF Fill
<1>3. ASSUME obj[o].kind \in Owning \cup {"node"}, NEW n \in NodesOf(o),
             NEW kind \in {"data", "subnodes"}, NEW b \in New, Ensure(n, kind, b)
      PROVE  Inv'
  BY <1>3, NodesAreNodes, EnsureStep
<1>4. ASSUME obj[o].kind \in Owning \cup {"node"}, NEW n \in NodesOf(o),
             NEW kind \in {"data", "subnodes"}, Has(n, kind), Fill(Ref(n, kind), obj[o].kind)
      PROVE  Inv'
  <2>1. Is(n, "node") /\ Ref(n, kind) \in obj[n].refs
    BY <1>4, NodesAreNodes, RefIs
  <2>2. Ref(n, kind) \in Existing /\ obj[Ref(n, kind)].db # Expired
    BY <1>4, <2>1, MemberNotExpired DEF Fill
  <2> QED
    BY <1>4, <2>2, FillStep
<1> QED
  BY <1>1, <1>2, <1>3, <1>4

LEMMA UseIteratorStep ==
  ASSUME Inv, NEW v \in Vars, UseIterator(v)
  PROVE  Inv'
<1> DEFINE x == val[v]
<1>1. /\ x # None /\ x.raw \in Existing
      /\ \/ x.what \in OwningIterators /\ Fill(x.raw, x.what)
         \/ x.what \in BareIterators /\ Fill(x.raw, obj[x.raw].kind)
  BY DEF UseIterator
<1>2. Sound(obj, x)
  BY <1>1 DEF Inv, AllSound
<1> HIDE DEF x
<1>3. CASE x.what = "folder_iterator" /\ Fill(x.raw, x.what)
  <2>1. PICK d \in x.refs : IsA(obj, d, "db") /\ x.raw \in obj[d].refs
    BY <1>2, <1>3 DEF Sound
  <2>2. obj[x.raw].db = d /\ d \in Ids
    BY <2>1 DEF Inv, AllGood, IsA, Live, OwnPages
  <2> QED
    BY <1>1, <1>3, <2>2, FillStep, NamesAssumption
<1>4. CASE x.what = "subnode_iterator" /\ Fill(x.raw, x.what)
  <2>1. PICK n \in x.refs : IsA(obj, n, "node") /\ x.raw \in obj[n].refs
    BY <1>2, <1>4 DEF Sound
  <2>2. Is(n, "node")
    BY <2>1 DEF Is, IsA, Live, Existing
  <2>3. obj[x.raw].db # Expired
    BY <1>4, <2>1, <2>2, MemberNotExpired DEF Fill
  <2> QED
    BY <1>1, <1>4, <2>3, FillStep
<1>5. CASE Fill(x.raw, obj[x.raw].kind)
  BY <1>1, <1>5, FillStep DEF Fill
<1> QED
  BY <1>1, <1>3, <1>4, <1>5 DEF OwningIterators

-----------------------------------------------------------------------------
(***************************************************************************)
(* Destruction: nothing that is left has a shared pointer to the object.   *)
(***************************************************************************)

LEMMA DestroyStep ==
  ASSUME Inv, NEW o \in Existing, Destroy(o)
  PROVE  Inv'
<1> DEFINE Left(p) == [obj[p] EXCEPT !.db = IF @ = o THEN Expired ELSE @]
           Seen(v) == [val[v] EXCEPT !.raw = IF @ = o THEN Dangling ELSE @,
                                     !.home = IF @ = o THEN Expired ELSE @]
<1>1. /\ obj' = [p \in Ids |-> IF p = o \/ obj[p] = None THEN None ELSE Left(p)]
      /\ val' = [v \in Vars |-> IF val[v] = None THEN None ELSE Seen(v)]
      /\ blame' = blame
  BY DEF Destroy
<1>2. /\ o \in Ids /\ o \notin {None, Expired, Dangling}
      /\ \A v \in Vars : val[v] # None => o \notin val[v].refs
      /\ \A p \in Ids : obj[p] # None => o \notin obj[p].refs
  BY Known, NamesAssumption DEF Destroy, Kept, Existing
<1>3. ASSUME NEW p \in Ids, p # o, obj[p] # None
      PROVE  /\ obj'[p] \in Objects /\ obj'[p] # None
             /\ obj'[p].kind = obj[p].kind /\ obj'[p].refs = obj[p].refs
             /\ obj'[p].db = IF obj[p].db = o THEN Expired ELSE obj[p].db
  <2>1. obj[p] \in Objects
    BY <1>3 DEF Inv, AllGood
  <2>2. /\ Left(p) \in Objects
        /\ Left(p).kind = obj[p].kind /\ Left(p).refs = obj[p].refs
        /\ Left(p).db = IF obj[p].db = o THEN Expired ELSE obj[p].db
    BY <2>1 DEF Objects
  <2>3. obj'[p] = Left(p)
    BY <1>1, <1>3
  <2> HIDE DEF Left
  <2> QED
    BY <2>2, <2>3, NotNone
<1>4. ASSUME NEW v \in Vars, val[v] # None
      PROVE  /\ val'[v] \in Values /\ val'[v] # None
             /\ val'[v].what = val[v].what /\ val'[v].refs = val[v].refs
             /\ val'[v].raw = IF val[v].raw = o THEN Dangling ELSE val[v].raw
             /\ val'[v].home = IF val[v].home = o THEN Expired ELSE val[v].home
  <2>1. val[v] \in Values
    BY <1>4 DEF Inv, AllSound
  <2>2. /\ Seen(v) \in Values
        /\ Seen(v).what = val[v].what /\ Seen(v).refs = val[v].refs
        /\ Seen(v).raw = IF val[v].raw = o THEN Dangling ELSE val[v].raw
        /\ Seen(v).home = IF val[v].home = o THEN Expired ELSE val[v].home
    BY <2>1 DEF Values
  <2>3. val'[v] = Seen(v)
    BY <1>1, <1>4
  <2> HIDE DEF Seen
  <2> QED
    BY <2>2, <2>3, NotNone
<1>5. /\ obj' \in [Ids -> Objects \cup {None}] /\ obj'[o] = None
      /\ \A p \in Ids : obj'[p] # None => p # o /\ obj[p] # None
  <2>1. \A p \in Ids : obj'[p] = None \/ (p # o /\ obj[p] # None)
    BY <1>1
  <2>2. obj'[o] = None
    BY <1>1, <1>2
  <2>3. obj' = [p \in Ids |-> obj'[p]]
    BY <1>1
  <2> QED
    BY <1>3, <2>1, <2>2, <2>3
<1>6. val' \in [Vars -> Values \cup {None}] /\ \A v \in Vars : val'[v] # None => val[v] # None
  <2>1. \A v \in Vars : val'[v] = None \/ val[v] # None
    BY <1>1
  <2>2. val' = [v \in Vars |-> val'[v]]
    BY <1>1
  <2> QED
    BY <1>4, <2>1, <2>2
<1> HIDE DEF Left, Seen
<1>7. \A r : Live(obj, r) /\ r # o =>
        /\ Live(obj', r) /\ obj'[r].kind = obj[r].kind /\ obj'[r].refs = obj[r].refs
        /\ obj'[r].db = IF obj[r].db = o THEN Expired ELSE obj[r].db
  BY <1>3 DEF Live
<1>8. ASSUME NEW p \in Ids, obj'[p] # None
      PROVE  Good(obj', obj'[p]) /\ (obj'[p].kind = "db" => OwnPages(obj', p))
  <2> DEFINE x == obj[p]
             y == obj'[p]
  <2>1. /\ p # o /\ x # None /\ Good(obj, x) /\ (x.kind = "db" => OwnPages(obj, p))
        /\ \A r \in x.refs : Live(obj, r) /\ r # o
        /\ y.kind = x.kind /\ y.refs = x.refs
        /\ y.db = IF x.db = o THEN Expired ELSE x.db
    BY <1>2, <1>3, <1>5, <1>8 DEF Inv, AllGood, Good
  <2>2. y.kind = "db" => OwnPages(obj', p)
    BY <1>7, <2>1 DEF OwnPages
  <2> HIDE DEF x, y
  <2>3. \A kind : Over(obj, x, kind) => Over(obj', y, kind)
    BY <1>7, <2>1 DEF Over, IsA
  <2>4. GoodDependant(obj, x) => GoodDependant(obj', y)
    BY <1>7, <2>1 DEF GoodDependant, IsA
  <2>5. GoodNode(obj, x) => GoodNode(obj', y)
    BY <1>7, <2>1 DEF GoodNode, IsA
  <2>6. Good(obj', y)
    BY <1>7, <2>1, <2>3, <2>4, <2>5 DEF Good
  <2> QED
    BY <2>2, <2>6 DEF y
<1>9. ASSUME NEW v \in Vars, val'[v] # None
      PROVE  Sound(obj', val'[v]) /\ OwnerIs(obj', val'[v])
  <2> DEFINE x == val[v]
             y == val'[v]
  <2>1. /\ x # None /\ Sound(obj, x) /\ OwnerIs(obj, x)
        /\ \A r \in x.refs : Live(obj, r) /\ r # o
        /\ y.what = x.what /\ y.refs = x.refs
        /\ y.raw = IF x.raw = o THEN Dangling ELSE x.raw
        /\ y.home = IF x.home = o THEN Expired ELSE x.home
    BY <1>2, <1>4, <1>6, <1>9 DEF Inv, AllSound, Sound
  <2> HIDE DEF x, y
  <2>2. \A r : Live(obj, r) => o \notin obj[r].refs
    BY <1>2 DEF Live
  <2>3. \A r \in y.refs : Live(obj', r)
    BY <1>7, <2>1
  <2>4. y.what = "pointer" => y.raw = None
    BY <1>2, <2>1 DEF Sound
  <2>5. y.what = "folder_iterator" =>
          \E d \in y.refs : IsA(obj', d, "db") /\ y.raw \in obj'[d].refs
    BY <1>7, <2>1, <2>2 DEF Sound, IsA
  <2>6. y.what = "subnode_iterator" =>
          \E n \in y.refs : IsA(obj', n, "node") /\ y.raw \in obj'[n].refs
    BY <1>7, <2>1, <2>2 DEF Sound, IsA
  <2>7. y.what \in BareIterators =>
          y.home = Expired \/ (Live(obj', y.home) /\ y.raw \in obj'[y.home].refs)
    BY <1>7, <2>1, <2>2 DEF Sound
  <2>8. OwnerIs(obj', y)
    BY <1>7, <2>1 DEF OwnerIs, IsA
  <2>9. Sound(obj', y)
    BY <2>3, <2>4, <2>5, <2>6, <2>7 DEF Sound
  <2> QED
    BY <2>8, <2>9 DEF y
<1>10. Acyclic(obj')
  <2> SUFFICES ASSUME NEW S \in SUBSET {p \in Ids : obj'[p] # None}, S # {}
               PROVE  \E p \in S : \A q \in S : p \notin obj'[q].refs
    BY DEF Acyclic
  <2>1. \A q \in S : obj[q] # None /\ obj'[q].refs = obj[q].refs
    BY <1>3, <1>5
  <2>2. S \in SUBSET {p \in Ids : obj[p] # None}
    BY <2>1
  <2>3. PICK p \in S : \A q \in S : p \notin obj[q].refs
    BY <2>2 DEF Inv, AllGood, Acyclic
  <2> QED
    BY <2>1, <2>3
<1> QED
  BY <1>1, <1>5, <1>6, <1>8, <1>9, <1>10 DEF Inv, AllGood, AllSound, BlameOK, IndependantObjectsWork

-----------------------------------------------------------------------------
(***************************************************************************)
(* The theorems.                                                           *)
(***************************************************************************)

LEMMA Start ==
  ASSUME Init
  PROVE  Inv
<1>1. Acyclic(obj)
  BY DEF Init, Acyclic
<1> QED
  BY <1>1 DEF Init, Inv, AllGood, AllSound, BlameOK, IndependantObjectsWork

LEMMA Step ==
  ASSUME Inv, [Next]_vars
  PROVE  Inv'
<1>1. CASE UNCHANGED vars
  BY <1>1 DEF vars, Inv, BlameOK, IndependantObjectsWork
<1>2. ASSUME NEW o \in Existing, Destroy(o)
      PROVE  Inv'
  BY <1>2, DestroyStep
<1>3. CASE Ndb
  <2>1. PICK v \in Vars :
          \/ Open(v)
          \/ \E o \in Existing :
               \/ ReadRoot(v, o) \/ LookupNode(v, o) \/ LookupSubnode(v, o)
               \/ \E kind \in Dependants : ReadAlone(v, o, kind)
               \/ \E kind \in {"data", "subnodes"} : GetBlock(v, o, kind)
               \/ FolderIterator(v, o) \/ SubnodeIterator(v, o)
               \/ NodeinfoIterator(v, o) \/ SubnodeinfoIterator(v, o)
    BY <1>3 DEF Ndb
  <2> QED
    BY <2>1, OpenStep, ReadRootStep, LookupNodeStep, LookupSubnodeStep, ReadAloneStep,
       GetBlockStep, FolderIteratorStep, SubnodeIteratorStep, NodeinfoIteratorStep,
       SubnodeinfoIteratorStep
<1>4. CASE Ltp
  BY <1>4, OpenHeapStep, OpenBthStep, OpenBagStep, OpenTableStep DEF Ltp
<1>5. CASE Use
  BY <1>5, UsePointerStep, UseIteratorStep, DropStep, CopyStep, DereferenceStep DEF Use
<1> QED
  BY <1>1, <1>2, <1>3, <1>4, <1>5 DEF Next

\* Pointers of every kind lead to where their kind says, or to nothing.
THEOREM Typed == Spec => []TypeOK
<1>1. Inv => TypeOK
  BY DEF Inv, AllGood, AllSound, BlameOK, TypeOK, Objects, Values
<1> QED
  BY <1>1, Start, Step, PTL DEF Spec

\* A node, a heap, a property bag, a table and an iterator that owns what it
\* walks over never find their database gone (node.h:48, page.h:45).
THEOREM IndependantWork == Spec => []IndependantObjectsWork
<1>1. Inv => IndependantObjectsWork
  BY DEF Inv
<1> QED
  BY <1>1, Start, Step, PTL DEF Spec

\* An iterator over folders, messages or subnodes is good for as long as it is
\* there, one over node infos for as long as its database or node is.
THEOREM IteratorsValid == Spec => []IteratorsStayValid
<1>1. ASSUME Inv
      PROVE  IteratorsStayValid
  <2> SUFFICES ASSUME NEW v \in Vars, val[v] # None, val[v].raw = Dangling
               PROVE  val[v].what \in BareIterators /\ val[v].home = Expired
    BY DEF IteratorsStayValid
  <2>1. Sound(obj, val[v]) /\ val[v] \in Values
    BY <1>1 DEF Inv, AllSound
  <2>2. \A r : Live(obj, r) => Dangling \notin obj[r].refs
    BY <1>1, NamesAssumption DEF Inv, AllGood, Good, Live
  <2>3. val[v].what \notin {"pointer", "folder_iterator", "subnode_iterator"}
    BY <2>1, <2>2, NamesAssumption DEF Sound, IsA
  <2>4. val[v].what \in BareIterators
    BY <2>1, <2>3 DEF Values, OwningIterators
  <2> QED
    BY <2>1, <2>2, <2>4 DEF Sound
<1> QED
  BY <1>1, Start, Step, PTL DEF Spec

-----------------------------------------------------------------------------
(***************************************************************************)
(* What can be reached.  The pointers that the program holds lead to a set *)
(* that grows by one object at least with every pointer that is followed,  *)
(* until nothing in it points outside: after as many as there are objects  *)
(* it is all that can be reached.                                          *)
(***************************************************************************)

Held == UNION {val[v].refs : v \in {u \in Vars : val[u] # None}}

\* What is reached from the objects of W, and by one pointer more.
Follow(W) == W \cup UNION {obj[o].refs : o \in W}

Steps(w, n) == w = [i \in 0..n |-> IF i = 0 THEN Held ELSE Follow(w[i - 1])]

Closed(W) == \A o \in W : obj[o].refs \subseteq W

LEMMA LeastNumber ==
  ASSUME NEW S \in SUBSET Nat, S # {}
  PROVE  \E k \in S : \A j \in S : ~ j < k
<1>1. PICK k \in S : \A j \in S : ~(<<j, k>> \in OpToRel(<, Nat))
  BY NatLessThanWellFounded, WFMin
<1> QED
  BY <1>1 DEF OpToRel

LEMMA StepsExist ==
  ASSUME NEW n \in Nat
  PROVE  \E w : Steps(w, n)
<1> DEFINE S == {m \in Nat : ~\E w : Steps(w, m)}
<1>1. SUFFICES ASSUME S # {}
               PROVE  FALSE
  OBVIOUS
<1>2. PICK k \in S : \A j \in S : ~ j < k
  BY <1>1, LeastNumber
<1>3. k \in Nat /\ ~\E w : Steps(w, k)
  BY <1>2
<1>4. CASE k = 0
  <2> DEFINE w == [i \in 0..0 |-> Held]
  <2>1. w = [i \in 0..0 |-> IF i = 0 THEN Held ELSE Follow(w[i - 1])]
    OBVIOUS
  <2> QED
    BY <1>3, <1>4, <2>1 DEF Steps
<1>5. CASE k # 0
  <2>1. k - 1 \in Nat /\ k - 1 < k
    BY <1>3, <1>5
  <2>2. PICK x : Steps(x, k - 1)
    BY <1>2, <2>1
  <2>3. \A i \in 0..(k - 1) : x[i] = IF i = 0 THEN Held ELSE Follow(x[i - 1])
    BY <2>2 DEF Steps
  <2> DEFINE w == [i \in 0..k |-> IF i = k THEN Follow(x[k - 1]) ELSE x[i]]
  <2>4. w[k] = Follow(w[k - 1])
    BY <1>3, <1>5
  <2>5. \A i \in 0..k : w[i] = IF i = 0 THEN Held ELSE Follow(w[i - 1])
    <3> SUFFICES ASSUME NEW i \in 0..k
                 PROVE  w[i] = IF i = 0 THEN Held ELSE Follow(w[i - 1])
      OBVIOUS
    <3>1. CASE i = k
      BY <1>5, <2>4, <3>1
    <3>2. CASE i # k
      <4>1. i \in 0..(k - 1) /\ i \in Int
        BY <1>3, <3>2
      <4>2. w[i] = x[i]
        BY <3>2
      <4>3. CASE i = 0
        BY <2>3, <4>1, <4>2, <4>3
      <4>4. CASE i # 0
        <5>1. i - 1 \in 0..k /\ i - 1 # k
          BY <1>3, <4>1, <4>4
        <5>2. w[i - 1] = x[i - 1]
          BY <5>1
        <5> QED
          BY <2>3, <4>1, <4>2, <4>4, <5>2
      <4> QED
        BY <4>3, <4>4
    <3> QED
      BY <3>1, <3>2
  <2>6. w = [i \in 0..k |-> w[i]]
    OBVIOUS
  <2> HIDE DEF w
  <2>7. Steps(w, k)
    BY <2>5, <2>6 DEF Steps
  <2> QED
    BY <1>3, <2>7
<1> QED
  BY <1>4, <1>5

LEMMA ReachedIs ==
  ASSUME NEW n \in Nat
  PROVE  \E w : Steps(w, n) /\ Reached(n) = w[n]
<1> DEFINE w == CHOOSE x : Steps(x, n)
<1>1. Steps(w, n)
  BY StepsExist
<1>2. Reached(n) = w[n]
  BY DEF Reached, Steps, Held, Follow
<1> QED
  BY <1>1, <1>2

LEMMA FollowGrows ==
  ASSUME Inv, NEW W \in SUBSET Existing, NEW i \in Nat,
         Closed(W) \/ Cardinality(W) >= i
  PROVE  /\ Follow(W) \in SUBSET Existing /\ W \subseteq Follow(W)
         /\ Closed(Follow(W)) \/ Cardinality(Follow(W)) >= i + 1
<1>1. \A o \in W : obj[o].refs \subseteq Existing
  BY Known
<1>2. Follow(W) \in SUBSET Existing /\ W \subseteq Follow(W)
  BY <1>1 DEF Follow
<1>3. Follow(W) = W => Closed(W)
  BY DEF Follow, Closed
<1>4. CASE Closed(W)
  <2>1. Follow(W) = W
    BY <1>4 DEF Follow, Closed
  <2> QED
    BY <1>2, <1>4, <2>1
<1>5. CASE ~Closed(W)
  <2>1. W # Follow(W) /\ Cardinality(W) >= i
    BY <1>3, <1>5
  <2>2. IsFiniteSet(Follow(W))
    <3>1. Follow(W) \in SUBSET Ids
      BY <1>2 DEF Existing
    <3> QED
      BY <3>1, MemoryAssumption, FS_Subset
  <2>3. IsFiniteSet(W) /\ Cardinality(W) <= Cardinality(Follow(W))
        /\ Cardinality(W) # Cardinality(Follow(W))
    BY <1>2, <2>1, <2>2, FS_Subset
  <2>4. Cardinality(W) \in Nat /\ Cardinality(Follow(W)) \in Nat
    BY <2>2, <2>3, FS_CardinalityType
  <2> QED
    BY <1>2, <2>1, <2>3, <2>4
<1> QED
  BY <1>4, <1>5

LEMMA StepsGrow ==
  ASSUME Inv, NEW n \in Nat, NEW w, Steps(w, n)
  PROVE  \A i \in 0..n : /\ w[i] \in SUBSET Existing /\ Held \subseteq w[i]
                         /\ Closed(w[i]) \/ Cardinality(w[i]) >= i
<1> DEFINE Grows(i) == /\ w[i] \in SUBSET Existing /\ Held \subseteq w[i]
                       /\ Closed(w[i]) \/ Cardinality(w[i]) >= i
           S == {i \in 0..n : ~Grows(i)}
<1>1. SUFFICES ASSUME S # {}
               PROVE  FALSE
  OBVIOUS
<1>2. S \in SUBSET Nat
  OBVIOUS
<1>3. PICK k \in S : \A j \in S : ~ j < k
  BY <1>1, <1>2, LeastNumber
<1>4. k \in 0..n /\ ~Grows(k) /\ k \in Nat
  BY <1>3
<1>5. \A i \in 0..n : w[i] = IF i = 0 THEN Held ELSE Follow(w[i - 1])
  BY DEF Steps
<1>6. CASE k = 0
  <2>1. w[0] = Held
    BY <1>4, <1>5, <1>6
  <2>2. Held \in SUBSET Existing
    <3>1. \A v \in Vars : val[v] # None => \A r \in val[v].refs : Live(obj, r)
      BY DEF Inv, AllSound, Sound
    <3> QED
      BY <3>1 DEF Held, Live, Existing
  <2>3. Cardinality(Held) \in Nat
    <3>1. Held \in SUBSET Ids
      BY <2>2 DEF Existing
    <3> QED
      BY <3>1, MemoryAssumption, FS_Subset, FS_CardinalityType
  <2>4. Grows(0)
    BY <2>1, <2>2, <2>3
  <2> QED
    BY <1>4, <1>6, <2>4
<1>7. CASE k # 0
  <2>1. k - 1 \in Nat /\ k - 1 \in 0..n /\ k - 1 < k /\ (k - 1) + 1 = k
    BY <1>4, <1>7
  <2>2. Grows(k - 1)
    BY <1>3, <2>1
  <2>3. w[k] = Follow(w[k - 1])
    BY <1>4, <1>5, <1>7
  <2> DEFINE W == w[k - 1]
  <2>4. W \in SUBSET Existing /\ Held \subseteq W /\ (Closed(W) \/ Cardinality(W) >= k - 1)
    BY <2>2
  <2> HIDE DEF W
  <2>5. /\ Follow(W) \in SUBSET Existing /\ W \subseteq Follow(W)
        /\ Closed(Follow(W)) \/ Cardinality(Follow(W)) >= (k - 1) + 1
    BY <2>1, <2>4, FollowGrows
  <2>6. w[k] = Follow(W)
    BY <2>3 DEF W
  <2>7. Grows(k)
    BY <2>1, <2>4, <2>5, <2>6
  <2> QED
    BY <1>4, <2>7
<1> QED
  BY <1>6, <1>7

\* Nothing points out of what is reached after so many steps.
LEMMA ReachedClosed ==
  ASSUME Inv
  PROVE  LET R == Reached(Cardinality(Ids)) IN Held \subseteq R /\ Closed(R)
<1> DEFINE N == Cardinality(Ids)
<1>1. N \in Nat
  BY MemoryAssumption, FS_CardinalityType
<1>2. PICK w : Steps(w, N) /\ Reached(N) = w[N]
  BY <1>1, ReachedIs
<1>3. N \in 0..N
  BY <1>1
<1>4. /\ w[N] \in SUBSET Existing /\ Held \subseteq w[N]
      /\ Closed(w[N]) \/ Cardinality(w[N]) >= N
  BY <1>1, <1>2, <1>3, StepsGrow
<1>5. CASE Cardinality(w[N]) >= N
  <2>1. w[N] \in SUBSET Ids
    BY <1>4 DEF Existing
  <2>2. /\ Cardinality(w[N]) <= N
        /\ N = Cardinality(w[N]) => Ids = w[N]
        /\ Cardinality(w[N]) \in Nat
    BY <2>1, MemoryAssumption, FS_Subset, FS_CardinalityType
  <2>3. Ids = w[N]
    BY <1>1, <1>5, <2>2
  <2>4. Closed(w[N])
    BY <1>4, <2>3, Known DEF Closed, Existing
  <2> QED
    BY <1>2, <1>4, <2>4
<1> QED
  BY <1>2, <1>4, <1>5

\* When the destructors have run, the program can reach all that is left: the
\* pointers that ndb, ltp and pst keep never make a circle, and the database that
\* nobody uses is closed.  Among objects that are not reached there would be one
\* that none of them keeps: nothing keeps it, and its destructor has run.
THEOREM NoLeaks == Spec => []NothingLeaks
<1>1. ASSUME Inv
      PROVE  NothingLeaks
  <2> DEFINE R == Reached(Cardinality(Ids))
             S == Existing \ R
  <2>1. Held \subseteq R /\ Closed(R)
    BY <1>1, ReachedClosed
  <2> HIDE DEF R
  <2>2. SUFFICES ASSUME Ready, S # {}
                 PROVE  FALSE
    BY DEF NothingLeaks, R
  <2>3. S \in SUBSET {o \in Ids : obj[o] # None}
    BY DEF Existing
  <2>4. PICK o \in S : \A p \in S : o \notin obj[p].refs
    BY <1>1, <2>2, <2>3 DEF Inv, AllGood, Acyclic
  <2>5. Kept(o)
    BY <2>2, <2>4 DEF Ready
  <2>6. \A v \in Vars : val[v] # None => o \notin val[v].refs
    BY <2>1, <2>4 DEF Held
  <2>7. \A p \in Existing : o \notin obj[p].refs
    BY <2>1, <2>4 DEF Closed
  <2> QED
    BY <2>5, <2>6, <2>7 DEF Kept
<1> QED
  BY <1>1, Start, Step, PTL DEF Spec
=============================================================================
