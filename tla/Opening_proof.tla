--------------------------- MODULE Opening_proof ---------------------------
(***************************************************************************)
(* Opening, for any well-formed store: heaps of any size, BTHs of any      *)
(* height, whatever was opened before and whichever reads fail.            *)
(***************************************************************************)
EXTENDS Opening, WellFoundedInduction, TLAPS

-----------------------------------------------------------------------------
(***************************************************************************)
(* Tests.                                                                  *)
(***************************************************************************)

Errors == {"out_of_range", "sig_mismatch", "logic_error", "not_implemented", "key_not_found"}

\* r is v if it is what a program wants, and an error if not.
Gives(r, right, v) ==
  /\ right => r.throws = None /\ r.value = v
  /\ ~right => r.throws \in Errors

LEMMA OneTest ==
  ASSUME NEW a \in BOOLEAN, NEW e \in Errors, NEW v
  PROVE  Gives(Unless(<<Test(a, e)>>, v), ~a, v)
BY DEF Gives, Unless, Test, Value, Throws

LEMMA TwoTests ==
  ASSUME NEW a \in BOOLEAN, NEW b \in BOOLEAN, NEW e \in Errors, NEW f \in Errors, NEW v
  PROVE  Gives(Unless(<<Test(a, e), Test(b, f)>>, v), ~a /\ ~b, v)
BY DEF Gives, Unless, Test, Value, Throws

LEMMA ThreeTests ==
  ASSUME NEW a \in BOOLEAN, NEW b \in BOOLEAN, NEW c \in BOOLEAN,
         NEW e \in Errors, NEW f \in Errors, NEW g \in Errors, NEW v
  PROVE  Gives(Unless(<<Test(a, e), Test(b, f), Test(c, g)>>, v), ~a /\ ~b /\ ~c, v)
BY DEF Gives, Unless, Test, Value, Throws

LEMMA HeapOnGives ==
  ASSUME NEW n \in Nodes, MayOpen(n, IsHeap(n))
  PROVE  Gives(HeapOn(n), IsHeap(n), Heap(n))
BY TwoTests, FormatAssumption DEF HeapOn, Errors, IsHeap, MayOpen

LEMMA HeapAsGives ==
  ASSUME NEW n \in Nodes, NEW client, MayOpen(n, IsHeap(n))
  PROVE  Gives(HeapAs(n, client), IsHeap(n) /\ Store[n].client = client, Heap(n))
<1> DEFINE right == IsHeap(n)
           F(h) == Unless(<<Test(Store[n].client # client, "sig_mismatch")>>, h)
<1>1. Gives(HeapOn(n), right, Heap(n))
  BY HeapOnGives
<1>2. Gives(F(Heap(n)), Store[n].client = client, Heap(n))
  <2>1. Gives(F(Heap(n)), ~(Store[n].client # client), Heap(n))
    BY OneTest DEF Errors
  <2> QED
    BY <2>1 DEF Gives
<1>3. HeapAs(n, client) = IF HeapOn(n).throws # None THEN HeapOn(n) ELSE F(HeapOn(n).value)
  BY DEF HeapAs, Then
<1> HIDE DEF right, F
<1>4. None \notin Errors
  BY NamesAssumption DEF Errors
<1>5. Gives(HeapAs(n, client), right /\ Store[n].client = client, Heap(n))
  BY <1>1, <1>2, <1>3, <1>4 DEF Gives
<1> QED
  BY <1>5 DEF right

\* What open_root makes of the header in an allocation.
Opened(n, at) == Bth(n, Alloc(n, at).root, At(Alloc(n, at).root, Alloc(n, at).levels))

LEMMA OpenBthGives ==
  ASSUME NEW n \in Nodes, NEW at, NEW sizes, MayOpen(n, IsBth(n, at, sizes))
  PROVE  Gives(OpenBth(n, at, sizes), IsBth(n, at, sizes), Opened(n, at))
<1> DEFINE a == Weak /\ ~IsHeader(n, at)
           b == Weak /\ IsHeader(n, at) /\ Alloc(n, at).key # sizes[1]
           c == Weak /\ IsHeader(n, at) /\ Alloc(n, at).entry # sizes[2]
           r == Unless(<<Test(a, "sig_mismatch"), Test(b, "logic_error"), Test(c, "logic_error")>>, at)
<1>1. OpenBth(n, at, sizes) = IF r.throws # None THEN r ELSE Value(Opened(n, at))
  BY DEF OpenBth, Then, Opened
<1>2. Gives(r, ~a /\ ~b /\ ~c, at)
  <2>1. "sig_mismatch" \in Errors /\ "logic_error" \in Errors
    BY DEF Errors
  <2>2. a \in BOOLEAN /\ b \in BOOLEAN /\ c \in BOOLEAN
    OBVIOUS
  <2> HIDE DEF a, b, c
  <2> QED
    BY <2>1, <2>2, ThreeTests
<1>3. IsBth(n, at, sizes) <=> ~a /\ ~b /\ ~c
  BY DEF MayOpen, IsBth
<1> HIDE DEF a, b, c, r
<1>4. None \notin Errors
  BY NamesAssumption DEF Errors
<1> QED
  BY <1>1, <1>2, <1>3, <1>4 DEF Gives, Value

LEMMA BagOnGives ==
  ASSUME NEW n \in Nodes, MayOpen(n, IsHeap(n) /\ (Store[n].client = "pc" => IsBag(n)))
  PROVE  Gives(BagOn(n), IsBag(n), Bag(Opened(n, Store[n].root)))
<1> DEFINE bth == OpenBth(n, Store[n].root, BagSizes)
           isHeap == IsHeap(n) /\ Store[n].client = "pc"
           isBth == IsBth(n, Store[n].root, BagSizes)
           x == IF bth.throws # None THEN bth ELSE Value(Bag(bth.value))
<1>1. BagOn(n) = IF HeapAs(n, "pc").throws # None THEN HeapAs(n, "pc") ELSE x
  BY DEF BagOn, Then
<1>2. Gives(HeapAs(n, "pc"), isHeap, Heap(n))
  BY HeapAsGives DEF MayOpen
<1>3. isHeap => Gives(bth, isBth, Opened(n, Store[n].root))
  BY OpenBthGives DEF MayOpen, IsBag
<1>4. IsBag(n) <=> isHeap /\ isBth
  BY DEF IsBag
<1> HIDE DEF bth, isHeap, isBth
<1>5. None \notin Errors
  BY NamesAssumption DEF Errors
<1> QED
  BY <1>1, <1>2, <1>3, <1>4, <1>5 DEF Gives, Value

\* A bag of a heap, and a bag of a bag.
LEMMA BagOfHeapGives ==
  ASSUME NEW n \in Nodes, IsHeap(n), MayOpen(n, IsBag(n))
  PROVE  Gives(BagOfHeap(Heap(n)), IsBag(n), Bag(Opened(n, Store[n].root)))
<1> DEFINE bth == OpenBth(n, Store[n].root, BagSizes)
           wrong == Weak /\ Store[n].client # "pc"
           r == Unless(<<Test(wrong, "sig_mismatch")>>, Heap(n))
           isBth == IsBth(n, Store[n].root, BagSizes)
           x == IF bth.throws # None THEN bth ELSE Value(Bag(bth.value))
<1>1. Heap(n).node = n
  BY DEF Heap
<1>2. BagOfHeap(Heap(n)) = IF r.throws # None THEN r ELSE x
  BY <1>1 DEF BagOfHeap, Then
<1>3. Gives(r, ~wrong, Heap(n))
  <2>1. "sig_mismatch" \in Errors
    BY DEF Errors
  <2> QED
    BY <2>1, OneTest
<1>4. Gives(bth, isBth, Opened(n, Store[n].root))
  BY OpenBthGives DEF MayOpen, IsBag
<1>5. IsBag(n) <=> ~wrong /\ isBth
  BY DEF IsBag, MayOpen
<1> HIDE DEF bth, wrong, r, isBth
<1>6. None \notin Errors
  BY NamesAssumption DEF Errors
<1> QED
  BY <1>2, <1>3, <1>4, <1>5, <1>6 DEF Gives, Value

LEMMA BagOfBagGives ==
  ASSUME NEW n \in Nodes, IsBag(n), NEW b, b.node = n
  PROVE  Gives(BagOfBag(b), IsBag(n), Bag(Opened(n, Store[n].root)))
<1> DEFINE bth == OpenBth(n, Store[n].root, BagSizes)
           x == IF bth.throws # None THEN bth ELSE Value(Bag(bth.value))
<1>1. BagOfBag(b) = IF HeapOn(n).throws # None THEN HeapOn(n) ELSE x
  BY DEF BagOfBag, Then
<1>2. HeapOn(n).throws = None
  BY HeapOnGives DEF MayOpen, IsBag, Gives
<1>3. bth.throws = None /\ bth.value = Opened(n, Store[n].root)
  BY OpenBthGives DEF MayOpen, IsBag, Gives
<1> HIDE DEF bth
<1> QED
  BY <1>1, <1>2, <1>3 DEF Gives, Value

\* A table, with rows whose numbers have the size that the header of its B-tree
\* says.
Columns(n) == Alloc(n, Store[n].root)

SizeIn(n) == RowSize(Alloc(n, Columns(n).rows))

Place(n) ==
  IF Columns(n).matrix = 0 THEN "none"
  ELSE IF IsSubnodeId(Columns(n).matrix) THEN "subnode" ELSE "heap"

Table(n, size, bth) ==
  [kind |-> "table", node |-> n, root |-> bth.root, nodes |-> bth.nodes,
   size |-> size, columns |-> Columns(n).columns, place |-> Place(n)]

LEMMA BasicTableGives ==
  ASSUME NEW n \in Nodes, ~Store[n].gust, IsHeap(n), IsTc(n, Store[n].root),
         IsHeader(n, Columns(n).rows), MayOpen(n, IsTable(n))
  PROVE  Gives(BasicTable(n, SizeIn(n)), IsTable(n),
               Table(n, SizeIn(n), Opened(n, Columns(n).rows)))
<1> DEFINE size == SizeIn(n)
           tc == Columns(n)
           wrong == Weak /\ tc.signature # "tc"
           missing == Place(n) = "subnode" /\ tc.matrix \notin Store[n].subnodes
           r == Unless(<<Test(wrong, "sig_mismatch")>>, tc)
           bth == OpenBth(n, tc.rows, <<4, size>>)
           F(b) == Unless(<<Test(missing, "key_not_found")>>, Table(n, size, b))
           isBth == IsBth(n, tc.rows, <<4, size>>)
           x == IF bth.throws # None THEN bth ELSE F(bth.value)
           y == IF r.throws # None THEN r ELSE x
           isHeap == IsHeap(n) /\ Store[n].client = "tc"
<1>1. BasicTable(n, size) = IF HeapAs(n, "tc").throws # None THEN HeapAs(n, "tc") ELSE y
  BY DEF BasicTable, Then, Columns, Table, Place
<1>2. Gives(HeapAs(n, "tc"), isHeap, Heap(n))
  BY HeapAsGives DEF MayOpen, IsTable
<1>3. Gives(r, ~wrong, tc)
  <2>1. "sig_mismatch" \in Errors
    BY DEF Errors
  <2> QED
    BY <2>1, OneTest
<1>4. IsBth(n, tc.rows, <<4, 2>>) \/ IsBth(n, tc.rows, <<4, 4>>) <=> isBth
  BY DEF IsBth, SizeIn, RowSize
<1>5. missing <=> IsSubnodeId(tc.matrix) /\ tc.matrix \notin Store[n].subnodes
  BY DEF Place, IsSubnodeId
<1>6. /\ IsTable(n) <=> isHeap /\ tc.signature = "tc" /\ isBth /\ ~missing
      /\ IsTable(n) <=> isHeap /\ ~wrong /\ isBth /\ ~missing
  <2> HIDE DEF isBth, missing
  <2>1. IsTable(n) <=> isHeap /\ tc.signature = "tc" /\ isBth /\ ~missing
    BY <1>4, <1>5 DEF IsTable, Columns
  <2> QED
    BY <2>1 DEF MayOpen
<1>7. Gives(bth, isBth, Opened(n, tc.rows))
  <2>1. MayOpen(n, isBth)
    BY <1>6 DEF MayOpen
  <2> QED
    BY <2>1, OpenBthGives
<1>8. \A b : Gives(F(b), ~missing, Table(n, size, b))
  <2>1. "key_not_found" \in Errors
    BY DEF Errors
  <2>2. missing \in BOOLEAN
    OBVIOUS
  <2> HIDE DEF missing
  <2> QED
    BY <2>1, <2>2, OneTest
<1> HIDE DEF size, tc, wrong, missing, r, bth, F, isBth, isHeap
<1>9. None \notin Errors
  BY NamesAssumption DEF Errors
<1>10. Gives(x, isBth /\ ~missing, Table(n, size, Opened(n, tc.rows)))
  BY <1>7, <1>8, <1>9 DEF Gives
<1> HIDE DEF x
<1>11. Gives(y, ~wrong /\ isBth /\ ~missing, Table(n, size, Opened(n, tc.rows)))
  BY <1>3, <1>9, <1>10 DEF Gives
<1> HIDE DEF y
<1>12. Gives(BasicTable(n, size), IsTable(n), Table(n, size, Opened(n, tc.rows)))
  BY <1>1, <1>2, <1>6, <1>9, <1>11 DEF Gives
<1> QED
  BY <1>12 DEF size, tc

LEMMA OpenTableGives ==
  ASSUME NEW n \in Nodes, MayOpenTable(n)
  PROVE  Gives(OpenTable(n), IsTable(n), Table(n, SizeIn(n), Opened(n, Columns(n).rows)))
<1> DEFINE r == Unless(<<Test(Store[n].gust, "not_implemented")>>, n)
           t == BasicTable(n, SizeIn(n))
           x == IF HeapOn(n).throws # None THEN HeapOn(n) ELSE t
<1>1. OpenTable(n) = IF r.throws # None THEN r ELSE x
  BY DEF OpenTable, Then, SizeIn, Columns
<1>2. /\ IsHeap(n) => IsTc(n, Store[n].root) /\ IsHeader(n, Columns(n).rows)
      /\ MayOpen(n, IsTable(n) \/ Store[n].gust)
  BY DEF MayOpenTable, Columns
<1>3. Gives(r, ~Store[n].gust, n)
  <2>1. "not_implemented" \in Errors /\ Store[n].gust \in BOOLEAN
    BY FormatAssumption DEF Errors
  <2> QED
    BY <2>1, OneTest
<1>4. ~Store[n].gust => Gives(HeapOn(n), IsHeap(n), Heap(n))
  BY <1>2, HeapOnGives DEF MayOpen, IsTable
<1>5. ~Store[n].gust /\ IsHeap(n) =>
        Gives(t, IsTable(n), Table(n, SizeIn(n), Opened(n, Columns(n).rows)))
  BY <1>2, BasicTableGives DEF MayOpen
<1>6. IsTable(n) => ~Store[n].gust /\ IsHeap(n)
  BY DEF IsTable
<1>7. None \notin Errors
  BY NamesAssumption DEF Errors
<1> HIDE DEF r, t
<1> QED
  BY <1>1, <1>3, <1>4, <1>5, <1>6, <1>7 DEF Gives

-----------------------------------------------------------------------------
(***************************************************************************)
(* The nodes of a BTH: each is held at the height that it has.             *)
(***************************************************************************)

Levels(n, root, nodes) ==
  /\ root \in DOMAIN nodes
  /\ \A h \in DOMAIN nodes : h \in TreeNodes(n) /\ nodes[h] = Height(n, h)

LEMMA Heights ==
  ASSUME NEW n \in Nodes, NEW h \in TreeNodes(n)
  PROVE  /\ Height(n, h) \in Nat
         /\ Height(n, h) = 0 <=> IsLeaf(n, h)
         /\ Height(n, h) > 0 => LET children == Alloc(n, h).children
              IN \A i \in DOMAIN children : /\ children[i] \in TreeNodes(n)
                                            /\ Height(n, children[i]) = Height(n, h) - 1
                                            /\ ChildLevel(Height(n, h)) = Height(n, children[i])
<1>1. CASE IsLeaf(n, h)
  BY <1>1 DEF Height
<1>2. CASE ~IsLeaf(n, h)
  <2> DEFINE children == Alloc(n, h).children
  <2>1. Height(n, h) \in Nat \ {0}
    BY <1>2, FormatAssumption
  <2>2. ASSUME NEW i \in DOMAIN children
        PROVE  children[i] \in TreeNodes(n) /\ Height(n, children[i]) = Height(n, h) - 1
    BY <1>2, FormatAssumption
  <2>3. ChildLevel(Height(n, h)) = Height(n, h) - 1
    BY <2>1 DEF ChildLevel
  <2> HIDE DEF children
  <2>4. \A i \in DOMAIN children : /\ children[i] \in TreeNodes(n)
                                   /\ Height(n, children[i]) = Height(n, h) - 1
                                   /\ ChildLevel(Height(n, h)) = Height(n, children[i])
    BY <2>2, <2>3
  <2> QED
    BY <1>2, <2>1, <2>4 DEF children
<1> QED
  BY <1>1, <1>2

LEMMA OpenedLevels ==
  ASSUME NEW n \in Nodes, NEW at, IsHeader(n, at)
  PROVE  Levels(n, Alloc(n, at).root, At(Alloc(n, at).root, Alloc(n, at).levels))
<1>1. Alloc(n, at).root \in TreeNodes(n) /\ Alloc(n, at).levels = Height(n, Alloc(n, at).root)
  BY FormatAssumption DEF IsHeader
<1> QED
  BY <1>1 DEF Levels, At

\* A child that is reached.
LEMMA WithLevels ==
  ASSUME NEW n \in Nodes, NEW root, NEW nodes, Levels(n, root, nodes),
         NEW h \in DOMAIN nodes, nodes[h] > 0, NEW i \in DOMAIN Alloc(n, h).children
  PROVE  LET c == Alloc(n, h).children[i]
         IN Levels(n, root, [x \in DOMAIN nodes \cup {c} |->
                               IF x = c THEN ChildLevel(nodes[h]) ELSE nodes[x]])
<1> DEFINE c == Alloc(n, h).children[i]
<1>1. h \in TreeNodes(n) /\ nodes[h] = Height(n, h)
  BY DEF Levels
<1>2. c \in TreeNodes(n) /\ ChildLevel(nodes[h]) = Height(n, c)
  BY <1>1, Heights
<1> HIDE DEF c
<1>3. Levels(n, root, [x \in DOMAIN nodes \cup {c} |->
                         IF x = c THEN ChildLevel(nodes[h]) ELSE nodes[x]])
  BY <1>2 DEF Levels
<1> QED
  BY <1>3 DEF c

\* Pairs of a level and a node.
RightPairs(n, root, all) ==
  /\ \E p \in all : p[2] = root
  /\ \A p \in all : p[2] \in TreeNodes(n) /\ p[1] = Height(n, p[2])

LEMMA DeeperRight ==
  ASSUME NEW n \in Nodes, NEW root, NEW all, RightPairs(n, root, all)
  PROVE  RightPairs(n, root, Deeper(n, all))
<1>1. all \subseteq Deeper(n, all)
  BY DEF Deeper
<1>2. ASSUME NEW p \in Deeper(n, all)
      PROVE  p[2] \in TreeNodes(n) /\ p[1] = Height(n, p[2])
  <2>1. CASE p \in all
    BY <2>1 DEF RightPairs
  <2>2. CASE p \notin all
    <3>1. PICK q \in all : /\ q[1] > 0
                           /\ \E i \in DOMAIN Alloc(n, q[2]).children :
                                p = <<ChildLevel(q[1]), Alloc(n, q[2]).children[i]>>
      BY <1>2, <2>2, Zenon DEF Deeper
    <3>2. PICK i \in DOMAIN Alloc(n, q[2]).children :
            p = <<ChildLevel(q[1]), Alloc(n, q[2]).children[i]>>
      BY <3>1
    <3>3. q[2] \in TreeNodes(n) /\ q[1] = Height(n, q[2])
      BY DEF RightPairs
    <3>4. p[1] = ChildLevel(q[1]) /\ p[2] = Alloc(n, q[2]).children[i]
      BY <3>2
    <3> QED
      BY <3>1, <3>3, <3>4, Heights
  <2> QED
    BY <2>1, <2>2
<1> QED
  BY <1>1, <1>2 DEF RightPairs

Within(n, level, root, w) ==
  w = [k \in 0..level |-> IF k = 0 THEN {<<level, root>>} ELSE Deeper(n, w[k - 1])]

LEMMA LeastNumber ==
  ASSUME NEW S \in SUBSET Nat, S # {}
  PROVE  \E k \in S : \A j \in S : ~ j < k
<1> DEFINE R == OpToRel(<, Nat)
<1>1. IsWellFoundedOn(R, Nat)
  BY NatLessThanWellFounded
<1>2. \A i, j \in Nat : i < j => <<i, j>> \in R
  BY DEF OpToRel
<1> HIDE DEF R
<1>3. PICK k \in S : \A j \in S : ~(<<j, k>> \in R)
  BY <1>1, WFMin
<1> QED
  BY <1>2, <1>3

LEMMA WithinExists ==
  ASSUME NEW n, NEW level \in Nat, NEW root
  PROVE  \E w : Within(n, level, root, w)
<1> DEFINE First == {<<level, root>>}
           Upto(w, m) == w = [k \in 0..m |-> IF k = 0 THEN First ELSE Deeper(n, w[k - 1])]
           S == {m \in Nat : ~\E w : Upto(w, m)}
<1>1. SUFFICES ASSUME S # {}
               PROVE  FALSE
  <2>1. CASE S = {}
    <3>1. \E w : Upto(w, level)
      BY <2>1
    <3> QED
      BY <3>1 DEF Within
  <2> QED
    BY <2>1
<1> HIDE DEF First
<1>2. PICK m \in S : \A j \in S : ~ j < m
  BY <1>1, LeastNumber
<1>3. m \in Nat /\ ~\E w : Upto(w, m)
  BY <1>2
<1>4. CASE m = 0
  <2> DEFINE w == [k \in 0..0 |-> First]
  <2>1. w = [k \in 0..0 |-> IF k = 0 THEN First ELSE Deeper(n, w[k - 1])]
    OBVIOUS
  <2> QED
    BY <1>3, <1>4, <2>1
<1>5. CASE m # 0
  <2>1. m - 1 \in Nat /\ m - 1 < m
    BY <1>3, <1>5
  <2>2. PICK x : Upto(x, m - 1)
    BY <1>2, <2>1
  <2>3. \A k \in 0..(m - 1) : x[k] = IF k = 0 THEN First ELSE Deeper(n, x[k - 1])
    BY <2>2
  <2> DEFINE w == [k \in 0..m |-> IF k = m THEN Deeper(n, x[m - 1]) ELSE x[k]]
  <2>4. w[m] = Deeper(n, w[m - 1])
    BY <1>3, <1>5
  <2>5. ASSUME NEW k \in 0..m
        PROVE  w[k] = IF k = 0 THEN First ELSE Deeper(n, w[k - 1])
    <3>1. CASE k = m
      BY <1>5, <2>4, <3>1
    <3>2. CASE k # m
      <4>1. k \in 0..(m - 1) /\ k \in Int
        BY <1>3, <3>2
      <4>2. w[k] = x[k]
        BY <3>2
      <4>3. CASE k = 0
        BY <2>3, <4>1, <4>2, <4>3
      <4>4. CASE k # 0
        <5>1. k - 1 \in 0..m /\ k - 1 # m
          BY <1>3, <4>1, <4>4
        <5>2. w[k - 1] = x[k - 1]
          BY <5>1
        <5> QED
          BY <2>3, <4>1, <4>2, <4>4, <5>2
      <4> QED
        BY <4>3, <4>4
    <3> QED
      BY <3>1, <3>2
  <2>6. w = [k \in 0..m |-> w[k]]
    OBVIOUS
  <2> HIDE DEF w
  <2>7. Upto(w, m)
    BY <2>5, <2>6
  <2> QED
    BY <1>3, <2>7
<1> QED
  BY <1>4, <1>5

LEMMA WithinRight ==
  ASSUME NEW n \in Nodes, NEW root \in TreeNodes(n), NEW level, level = Height(n, root),
         NEW w, Within(n, level, root, w)
  PROVE  RightPairs(n, root, w[level])
<1>1. level \in Nat
  BY Heights
<1> DEFINE S == {k \in 0..level : ~RightPairs(n, root, w[k])}
<1>2. SUFFICES ASSUME S # {}
               PROVE  FALSE
  BY <1>1
<1>3. S \in SUBSET Nat
  BY <1>1
<1>4. PICK m \in S : \A j \in S : ~ j < m
  BY <1>2, <1>3, LeastNumber
<1>5. m \in 0..level /\ m \in Nat /\ ~RightPairs(n, root, w[m])
  BY <1>1, <1>4
<1>6. w[m] = IF m = 0 THEN {<<level, root>>} ELSE Deeper(n, w[m - 1])
  BY <1>5 DEF Within
<1>7. CASE m = 0
  BY <1>5, <1>6, <1>7 DEF RightPairs
<1>8. CASE m # 0
  <2>1. m - 1 \in 0..level /\ m - 1 < m
    BY <1>1, <1>5, <1>8
  <2>2. RightPairs(n, root, w[m - 1])
    BY <1>4, <2>1
  <2> QED
    BY <1>5, <1>6, <1>8, <2>2, DeeperRight
<1> QED
  BY <1>7, <1>8

LEMMA AllUnderRight ==
  ASSUME NEW n \in Nodes, NEW root \in TreeNodes(n), NEW level, level = Height(n, root)
  PROVE  RightPairs(n, root, AllUnder(n, level, root))
<1>1. level \in Nat
  BY Heights
<1> DEFINE w == CHOOSE x : Within(n, level, root, x)
<1>2. Within(n, level, root, w)
  BY <1>1, WithinExists
<1>3. AllUnder(n, level, root) = w[level]
  BY DEF AllUnder, Within
<1> HIDE DEF w
<1> QED
  BY <1>2, <1>3, WithinRight

\* The list of the keys, by the level that a node is reached at and the node.
FirstKeys(n) ==
  [h \in {0} \cup DOMAIN Store[n].allocs |-> IF h = 0 THEN <<>> ELSE Alloc(n, h).keys]

NextKeys(n, keys) ==
  [h \in {0} \cup DOMAIN Store[n].allocs |->
     IF h = 0 THEN <<>>
     ELSE LET children == Alloc(n, h).children
          IN Sequence!FlattenSeq([i \in DOMAIN children |-> keys[children[i]]])]

KeysTo(n, level, w) ==
  w = [k \in 0..level |->
         [h \in {0} \cup DOMAIN Store[n].allocs |->
            IF h = 0 THEN <<>>
            ELSE IF k = 0 THEN Alloc(n, h).keys
            ELSE LET children == Alloc(n, h).children
                 IN Sequence!FlattenSeq([i \in DOMAIN children |-> w[ChildLevel(k)][children[i]]])]]

LEMMA KeysToStep ==
  ASSUME NEW n, NEW level \in Nat, NEW w
  PROVE  KeysTo(n, level, w) <=>
           w = [k \in 0..level |-> IF k = 0 THEN FirstKeys(n) ELSE NextKeys(n, w[k - 1])]
<1> DEFINE Row(k) == [h \in {0} \cup DOMAIN Store[n].allocs |->
            IF h = 0 THEN <<>>
            ELSE IF k = 0 THEN Alloc(n, h).keys
            ELSE LET children == Alloc(n, h).children
                 IN Sequence!FlattenSeq([i \in DOMAIN children |-> w[ChildLevel(k)][children[i]]])]
           Short(k) == IF k = 0 THEN FirstKeys(n) ELSE NextKeys(n, w[k - 1])
<1>1. ASSUME NEW k \in 0..level
      PROVE  Row(k) = Short(k)
  <2>1. CASE k = 0
    BY <2>1 DEF FirstKeys
  <2>2. CASE k # 0
    <3>1. ChildLevel(k) = k - 1
      BY <2>2 DEF ChildLevel
    <3> QED
      BY <2>2, <3>1, Zenon DEF NextKeys
  <2> QED
    BY <2>1, <2>2
<1>2. [k \in 0..level |-> Row(k)] = [k \in 0..level |-> Short(k)]
  <2> HIDE DEF Row, Short
  <2> QED
    BY <1>1
<1>3. KeysTo(n, level, w) <=> w = [k \in 0..level |-> Row(k)]
  BY Zenon DEF KeysTo
<1> HIDE DEF Row
<1> QED
  BY <1>2, <1>3

LEMMA KeysExist ==
  ASSUME NEW n, NEW level \in Nat
  PROVE  \E w : KeysTo(n, level, w)
<1> DEFINE First == FirstKeys(n)
           More(x) == NextKeys(n, x)
           Upto(w, m) == w = [k \in 0..m |-> IF k = 0 THEN First ELSE More(w[k - 1])]
           S == {m \in Nat : ~\E w : Upto(w, m)}
<1>1. SUFFICES ASSUME S # {}
               PROVE  FALSE
  <2>1. CASE S = {}
    <3>1. PICK w : Upto(w, level)
      BY <2>1
    <3> QED
      BY <3>1, KeysToStep
  <2> QED
    BY <2>1
<1> HIDE DEF First, More
<1>2. PICK m \in S : \A j \in S : ~ j < m
  BY <1>1, LeastNumber
<1>3. m \in Nat /\ ~\E w : Upto(w, m)
  BY <1>2
<1>4. CASE m = 0
  <2> DEFINE w == [k \in 0..0 |-> First]
  <2>1. w = [k \in 0..0 |-> IF k = 0 THEN First ELSE More(w[k - 1])]
    OBVIOUS
  <2> QED
    BY <1>3, <1>4, <2>1
<1>5. CASE m # 0
  <2>1. m - 1 \in Nat /\ m - 1 < m
    BY <1>3, <1>5
  <2>2. PICK x : Upto(x, m - 1)
    BY <1>2, <2>1
  <2>3. \A k \in 0..(m - 1) : x[k] = IF k = 0 THEN First ELSE More(x[k - 1])
    BY <2>2
  <2> DEFINE w == [k \in 0..m |-> IF k = m THEN More(x[m - 1]) ELSE x[k]]
  <2>4. w[m] = More(w[m - 1])
    BY <1>3, <1>5
  <2>5. ASSUME NEW k \in 0..m
        PROVE  w[k] = IF k = 0 THEN First ELSE More(w[k - 1])
    <3>1. CASE k = m
      BY <1>5, <2>4, <3>1
    <3>2. CASE k # m
      <4>1. k \in 0..(m - 1) /\ k \in Int
        BY <1>3, <3>2
      <4>2. w[k] = x[k]
        BY <3>2
      <4>3. CASE k = 0
        BY <2>3, <4>1, <4>2, <4>3
      <4>4. CASE k # 0
        <5>1. k - 1 \in 0..m /\ k - 1 # m
          BY <1>3, <4>1, <4>4
        <5>2. w[k - 1] = x[k - 1]
          BY <5>1
        <5> QED
          BY <2>3, <4>1, <4>2, <4>4, <5>2
      <4> QED
        BY <4>3, <4>4
    <3> QED
      BY <3>1, <3>2
  <2>6. w = [k \in 0..m |-> w[k]]
    OBVIOUS
  <2> HIDE DEF w
  <2>7. Upto(w, m)
    BY <2>5, <2>6
  <2> QED
    BY <1>3, <2>7
<1> QED
  BY <1>4, <1>5

\* A node that is reached at its height gives the keys under it.
LEMMA KeysToRight ==
  ASSUME NEW n \in Nodes, NEW level \in Nat, NEW w, KeysTo(n, level, w),
         NEW m \in 0..level, NEW h \in TreeNodes(n), Height(n, h) = m
  PROVE  w[m][h] = InOrder(n, h)
<1> DEFINE S == {k \in 0..level : \E x \in TreeNodes(n) : Height(n, x) = k /\ w[k][x] # InOrder(n, x)}
<1>1. SUFFICES ASSUME S # {}
               PROVE  FALSE
  OBVIOUS
<1>2. S \in SUBSET Nat
  OBVIOUS
<1>3. PICK k \in S : \A j \in S : ~ j < k
  BY <1>1, <1>2, LeastNumber
<1>4. k \in 0..level /\ k \in Nat
  BY <1>3
<1>5. PICK x \in TreeNodes(n) : Height(n, x) = k /\ w[k][x] # InOrder(n, x)
  BY <1>3
<1>6. \A j \in 0..level : j < k =>
        \A y \in TreeNodes(n) : Height(n, y) = j => w[j][y] = InOrder(n, y)
  BY <1>3
<1> HIDE DEF S
<1>7. w[k] = IF k = 0 THEN FirstKeys(n) ELSE NextKeys(n, w[k - 1])
  <2>1. KeysTo(n, level, w)
    OBVIOUS
  <2>2. w = [j \in 0..level |-> IF j = 0 THEN FirstKeys(n) ELSE NextKeys(n, w[j - 1])]
    <3>1. \A v : KeysTo(n, level, v) <=>
            v = [j \in 0..level |-> IF j = 0 THEN FirstKeys(n) ELSE NextKeys(n, v[j - 1])]
      BY KeysToStep
    <3> QED
      BY <2>1, <3>1, Zenon
  <2> QED
    BY <1>4, <2>2
<1>8. x \in {0} \cup DOMAIN Store[n].allocs
  BY DEF TreeNodes
<1>9. CASE k = 0
  <2>1. IsLeaf(n, x)
    BY <1>5, <1>9, Heights
  <2>2. w[k][x] = IF x = 0 THEN <<>> ELSE Alloc(n, x).keys
    BY <1>7, <1>8, <1>9 DEF FirstKeys
  <2> QED
    BY <1>5, <2>1, <2>2 DEF InOrder
<1>10. CASE k # 0
  <2> DEFINE children == Alloc(n, x).children
  <2>1. ~IsLeaf(n, x) /\ x # 0
    BY <1>5, <1>10, Heights DEF IsLeaf
  <2>2. InOrder(n, x) = Sequence!FlattenSeq([i \in DOMAIN children |-> InOrder(n, children[i])])
    BY <2>1, FormatAssumption
  <2>3. ASSUME NEW i \in DOMAIN children
        PROVE  w[k - 1][children[i]] = InOrder(n, children[i])
    <3>1. children[i] \in TreeNodes(n) /\ Height(n, children[i]) = k - 1
      BY <1>4, <1>5, <1>10, Heights
    <3>2. k - 1 \in 0..level /\ k - 1 < k
      BY <1>4, <1>10
    <3> QED
      BY <1>6, <3>1, <3>2
  <2>4. w[k][x] = Sequence!FlattenSeq([i \in DOMAIN children |-> w[k - 1][children[i]]])
    BY <1>7, <1>8, <1>10, <2>1 DEF NextKeys
  <2> HIDE DEF children
  <2>5. [i \in DOMAIN children |-> w[k - 1][children[i]]]
          = [i \in DOMAIN children |-> InOrder(n, children[i])]
    BY <2>3
  <2> QED
    BY <1>5, <2>2, <2>4, <2>5
<1> QED
  BY <1>9, <1>10

LEMMA KeysUnderRight ==
  ASSUME NEW n \in Nodes, NEW root \in TreeNodes(n), NEW level, level = Height(n, root)
  PROVE  KeysUnder(n, level, root) = InOrder(n, root)
<1>1. level \in Nat /\ level \in 0..level
  BY Heights
<1> DEFINE w == CHOOSE x : KeysTo(n, level, x)
<1>2. KeysTo(n, level, w)
  BY <1>1, KeysExist
<1>3. KeysUnder(n, level, root) = w[level][root]
  BY Zenon DEF KeysUnder, KeysTo
<1> HIDE DEF w
<1> QED
  BY <1>1, <1>2, <1>3, KeysToRight

\* What is held when all has been read.
LEMMA ListLevels ==
  ASSUME NEW n \in Nodes, NEW root, NEW all, RightPairs(n, root, all)
  PROVE  Levels(n, root, [h \in {p[2] : p \in all} |-> (CHOOSE p \in all : p[2] = h)[1]])
<1> DEFINE nodes == [h \in {p[2] : p \in all} |-> (CHOOSE p \in all : p[2] = h)[1]]
<1>1. DOMAIN nodes = {p[2] : p \in all}
  OBVIOUS
<1>2. root \in DOMAIN nodes
  BY <1>1 DEF RightPairs
<1>3. ASSUME NEW h \in DOMAIN nodes
      PROVE  h \in TreeNodes(n) /\ nodes[h] = Height(n, h)
  <2> DEFINE q == CHOOSE p \in all : p[2] = h
  <2>1. \E p \in all : p[2] = h
    BY <1>1
  <2>2. q \in all /\ q[2] = h
    BY <2>1
  <2>3. nodes[h] = q[1]
    BY <1>1
  <2> HIDE DEF q, nodes
  <2> QED
    BY <2>2, <2>3 DEF RightPairs
<1> QED
  BY <1>2, <1>3 DEF Levels

-----------------------------------------------------------------------------
(***************************************************************************)
(* What a program holds.                                                   *)
(***************************************************************************)

\* The objects on a BTH, which differ in what they have found their node to be.
OnBth(o, n, root, nodes) ==
  \/ o = Bth(n, root, nodes)
  \/ /\ IsBag(n) /\ root = Alloc(n, Store[n].root).root
     /\ o = Bag(Bth(n, root, nodes))
  \/ IsTable(n) /\ o = Table(n, SizeIn(n), Bth(n, root, nodes))

Right(o) ==
  \E n \in Nodes :
    /\ IsHeap(n)
    /\ \/ o = Heap(n)
       \/ \E root, nodes : Levels(n, root, nodes) /\ OnBth(o, n, root, nodes)

AllRight(objs) ==
  /\ objs = [s \in Slots |-> objs[s]]
  /\ \A s \in Slots : objs[s] # None => Right(objs[s])

Inv == AllRight(obj) /\ AnswersRight

LEMMA Fields ==
  ASSUME NEW o, NEW n, NEW root, NEW nodes, OnBth(o, n, root, nodes)
  PROVE  /\ o.node = n /\ o.root = root /\ o.nodes = nodes
         /\ o.kind \in {"bth", "bag", "table"}
         /\ o.kind = "bag" => IsBag(n) /\ root = Alloc(n, Store[n].root).root
         /\ o.kind = "table" => IsTable(n) /\ o = Table(n, SizeIn(n), Bth(n, root, nodes))
BY DEF OnBth, Bth, Bag, Table

LEMMA HeapFields ==
  ASSUME NEW n
  PROVE  Heap(n).kind = "heap" /\ Heap(n).node = n
BY DEF Heap

\* Of what is held, only the nodes that have been read change.
LEMMA Replaced ==
  ASSUME NEW o, NEW n, NEW root, NEW nodes, OnBth(o, n, root, nodes), NEW more
  PROVE  OnBth([o EXCEPT !.nodes = more], n, root, more)
<1>1. CASE o = Bth(n, root, nodes)
  BY <1>1 DEF OnBth, Bth
<1>2. CASE IsBag(n) /\ root = Alloc(n, Store[n].root).root /\ o = Bag(Bth(n, root, nodes))
  <2>1. [o EXCEPT !.nodes = more] = Bag(Bth(n, root, more))
    BY <1>2 DEF Bth, Bag
  <2> QED
    BY <1>2, <2>1 DEF OnBth
<1>3. CASE IsTable(n) /\ o = Table(n, SizeIn(n), Bth(n, root, nodes))
  <2>1. [o EXCEPT !.nodes = more] = Table(n, SizeIn(n), Bth(n, root, more))
    BY <1>3 DEF Bth, Table
  <2> QED
    BY <1>3, <2>1 DEF OnBth
<1> QED
  BY <1>1, <1>2, <1>3 DEF OnBth

LEMMA HeldHeap ==
  ASSUME Inv, NEW s \in Slots, Holds(s, {"heap"})
  PROVE  obj[s].node \in Nodes /\ IsHeap(obj[s].node) /\ obj[s] = Heap(obj[s].node)
<1>1. Right(obj[s]) /\ obj[s].kind = "heap"
  BY DEF Inv, AllRight, Holds
<1>2. PICK n \in Nodes :
        /\ IsHeap(n)
        /\ \/ obj[s] = Heap(n)
           \/ \E root, nodes : Levels(n, root, nodes) /\ OnBth(obj[s], n, root, nodes)
  BY <1>1 DEF Right
<1>3. obj[s] = Heap(n)
  BY <1>1, <1>2, Fields
<1> QED
  BY <1>2, <1>3, HeapFields

LEMMA HeldBth ==
  ASSUME Inv, NEW s \in Slots, HasBth(s)
  PROVE  LET o == obj[s] IN
         /\ o.node \in Nodes /\ IsHeap(o.node) /\ Levels(o.node, o.root, o.nodes)
         /\ OnBth(o, o.node, o.root, o.nodes)
<1>1. Right(obj[s]) /\ obj[s].kind \in {"bth", "bag", "table"}
  BY DEF Inv, AllRight, Holds, HasBth
<1>2. PICK n \in Nodes :
        /\ IsHeap(n)
        /\ \/ obj[s] = Heap(n)
           \/ \E root, nodes : Levels(n, root, nodes) /\ OnBth(obj[s], n, root, nodes)
  BY <1>1 DEF Right
<1>3. PICK root, nodes : Levels(n, root, nodes) /\ OnBth(obj[s], n, root, nodes)
  BY <1>1, <1>2, HeapFields
<1> QED
  BY <1>2, <1>3, Fields

\* The result of an operation goes to s.
LEMMA OpensRight ==
  ASSUME Inv, NEW s \in Slots, NEW op, NEW as, NEW n, NEW r, NEW right, NEW v,
         Gives(r, right, v), right => Right(v), Opens(s, op, as, n, r)
  PROVE  AllRight(obj')
<1>1. CASE obj' = obj
  BY <1>1 DEF Inv, AllRight
<1>2. CASE obj' # obj
  <2>1. r.throws = None /\ obj' = [obj EXCEPT ![s] = r.value]
    BY <1>2 DEF Opens
  <2>2. right /\ r.value = v
    <3>1. None \notin Errors
      BY NamesAssumption DEF Errors
    <3> QED
      BY <2>1, <3>1 DEF Gives
  <2> QED
    BY <2>1, <2>2 DEF Inv, AllRight
<1> QED
  BY <1>1, <1>2

LEMMA OpensAnswer ==
  ASSUME NEW s \in Slots, NEW op, NEW as, NEW n, NEW r, NEW right \in BOOLEAN, NEW v,
         Gives(r, right, v), Opens(s, op, as, n, r)
  PROVE  /\ answer'.op = op /\ answer'.as = as /\ answer'.node = n
         /\ answer'.throws # "failed" => ((answer'.throws = None) = right)
<1>1. None \notin Errors
  BY NamesAssumption DEF Errors
<1>2. \E e : /\ e \in {r.throws, "failed"}
             /\ answer' = [op |-> op, as |-> as, node |-> n, throws |-> e, keys |-> <<>>]
  BY DEF Opens
<1>3. (r.throws = None) = right
  BY <1>1 DEF Gives
<1> QED
  BY <1>2, <1>3

\* Objects as they are made.
LEMMA OpenedRightBth ==
  ASSUME NEW n \in Nodes, IsHeap(n), NEW at, NEW sizes, IsBth(n, at, sizes)
  PROVE  /\ Right(Opened(n, at))
         /\ IsBag(n) /\ at = Store[n].root => Right(Bag(Opened(n, at)))
         /\ IsTable(n) => Right(Table(n, SizeIn(n), Opened(n, at)))
<1> DEFINE root == Alloc(n, at).root
           nodes == At(root, Alloc(n, at).levels)
<1>1. Levels(n, root, nodes)
  BY OpenedLevels DEF IsBth
<1>2. Opened(n, at) = Bth(n, root, nodes)
  BY DEF Opened
<1>3. at = Store[n].root => root = Alloc(n, Store[n].root).root
  OBVIOUS
<1> HIDE DEF root, nodes
<1> QED
  BY <1>1, <1>2, <1>3 DEF Right, OnBth

-----------------------------------------------------------------------------
(***************************************************************************)
(* The steps of a program.                                                 *)
(***************************************************************************)

LEMMA OpenHeapStep ==
  ASSUME Inv, NEW s \in Slots, NEW n \in Nodes, OpenHeap(s, n)
  PROVE  Inv'
<1>1. MayOpen(n, IsHeap(n)) /\ Opens(s, "heap", Whatever, n, HeapOn(n))
  BY DEF OpenHeap
<1>2. Gives(HeapOn(n), IsHeap(n), Heap(n)) /\ IsHeap(n) \in BOOLEAN
  BY <1>1, HeapOnGives DEF IsHeap
<1>3. IsHeap(n) => Right(Heap(n))
  BY DEF Right
<1>4. AllRight(obj')
  BY <1>1, <1>2, <1>3, OpensRight
<1>5. /\ answer'.op = "heap" /\ answer'.as = Whatever /\ answer'.node = n
      /\ answer'.throws # "failed" => ((answer'.throws = None) = IsHeap(n))
  BY <1>1, <1>2, OpensAnswer
<1>6. Whatever.client = None
  BY DEF Whatever, As
<1>7. AnswersRight'
  BY <1>5, <1>6 DEF AnswersRight
<1> QED
  BY <1>4, <1>7 DEF Inv

LEMMA OpenHeapAsStep ==
  ASSUME Inv, NEW s \in Slots, NEW n \in Nodes, NEW client \in {"pc", "tc", "bth"},
         OpenHeapAs(s, n, client)
  PROVE  Inv'
<1> DEFINE right == IsHeap(n) /\ Store[n].client = client
<1>1. MayOpen(n, IsHeap(n)) /\ Opens(s, "heap", As(client), n, HeapAs(n, client))
  BY DEF OpenHeapAs
<1>2. Gives(HeapAs(n, client), right, Heap(n)) /\ right \in BOOLEAN
  BY <1>1, HeapAsGives
<1>3. right => Right(Heap(n))
  BY DEF Right
<1> HIDE DEF right
<1>4. AllRight(obj')
  BY <1>1, <1>2, <1>3, OpensRight
<1>5. /\ answer'.op = "heap" /\ answer'.as = As(client) /\ answer'.node = n
      /\ answer'.throws # "failed" => ((answer'.throws = None) = right)
  BY <1>1, <1>2, OpensAnswer
<1>6. As(client).client = client /\ client # None
  BY NamesAssumption DEF As
<1>7. right = (IsHeap(n) /\ As(client).client \in {None, Store[n].client})
  BY <1>6 DEF right
<1>8. AnswersRight'
  BY <1>5, <1>7 DEF AnswersRight
<1> QED
  BY <1>4, <1>8 DEF Inv

LEMMA OpenBthOfStep ==
  ASSUME Inv, NEW s \in Slots, NEW t \in Slots, NEW sizes, OpenBthOf(s, t, sizes)
  PROVE  Inv'
<1> DEFINE n == obj[t].node
           right == IsBth(n, Store[n].root, sizes)
<1>1. /\ MayOpen(n, right) /\ Holds(t, {"heap"})
      /\ Opens(s, "bth", Of(sizes), n, OpenBth(n, Store[n].root, sizes))
  BY DEF OpenBthOf
<1>2. n \in Nodes /\ IsHeap(n)
  BY <1>1, HeldHeap
<1> HIDE DEF n
<1>3. /\ Gives(OpenBth(n, Store[n].root, sizes), right, Opened(n, Store[n].root))
      /\ right \in BOOLEAN
  BY <1>1, <1>2, OpenBthGives DEF IsBth, IsHeader
<1>4. right => Right(Opened(n, Store[n].root))
  BY <1>2, OpenedRightBth
<1> HIDE DEF right
<1>5. AllRight(obj')
  BY <1>1, <1>3, <1>4, OpensRight
<1>6. /\ answer'.op = "bth" /\ answer'.as = Of(sizes) /\ answer'.node = n
      /\ answer'.throws # "failed" => ((answer'.throws = None) = right)
  BY <1>1, <1>3, OpensAnswer
<1>7. Of(sizes).sizes = sizes
  BY DEF Of
<1>8. AnswersRight'
  BY <1>6, <1>7 DEF AnswersRight, right
<1> QED
  BY <1>5, <1>8 DEF Inv

\* A bag that is opened, by any of the ways to it.
LEMMA BagStep ==
  ASSUME Inv, NEW s \in Slots, NEW n \in Nodes, NEW r,
         Gives(r, IsBag(n), Bag(Opened(n, Store[n].root))), Opens(s, "bag", Whatever, n, r)
  PROVE  Inv'
<1>1. IsBag(n) => Right(Bag(Opened(n, Store[n].root)))
  BY OpenedRightBth DEF IsBag
<1>2. IsBag(n) \in BOOLEAN
  BY DEF IsBag
<1>3. AllRight(obj')
  BY <1>1, OpensRight
<1>4. /\ answer'.op = "bag" /\ answer'.node = n
      /\ answer'.throws # "failed" => ((answer'.throws = None) = IsBag(n))
  BY <1>2, OpensAnswer
<1>5. AnswersRight'
  BY <1>4 DEF AnswersRight
<1> QED
  BY <1>3, <1>5 DEF Inv

LEMMA OpenBagStep ==
  ASSUME Inv, NEW s \in Slots, NEW n \in Nodes, OpenBag(s, n)
  PROVE  Inv'
BY BagOnGives, BagStep DEF OpenBag

LEMMA OpenBagOfHeapStep ==
  ASSUME Inv, NEW s \in Slots, NEW t \in Slots, OpenBagOfHeap(s, t)
  PROVE  Inv'
<1> DEFINE n == obj[t].node
<1>1. /\ MayOpen(n, IsBag(n)) /\ Holds(t, {"heap"})
      /\ Opens(s, "bag", Whatever, n, BagOfHeap(obj[t]))
  BY DEF OpenBagOfHeap
<1>2. n \in Nodes /\ IsHeap(n) /\ obj[t] = Heap(n)
  BY <1>1, HeldHeap
<1> HIDE DEF n
<1>3. Gives(BagOfHeap(Heap(n)), IsBag(n), Bag(Opened(n, Store[n].root)))
  BY <1>1, <1>2, BagOfHeapGives
<1> QED
  BY <1>1, <1>2, <1>3, BagStep

LEMMA CopyBagStep ==
  ASSUME Inv, NEW s \in Slots, NEW t \in Slots, CopyBag(s, t)
  PROVE  Inv'
<1> DEFINE n == obj[t].node
<1>1. Holds(t, {"bag"}) /\ Opens(s, "bag", Whatever, n, BagOfBag(obj[t]))
  BY DEF CopyBag
<1>2. HasBth(t) /\ obj[t].kind = "bag"
  BY <1>1 DEF HasBth, Holds
<1>3. n \in Nodes /\ IsBag(n)
  BY <1>2, HeldBth, Fields
<1>4. Gives(BagOfBag(obj[t]), IsBag(n), Bag(Opened(n, Store[n].root)))
  BY <1>3, BagOfBagGives
<1> HIDE DEF n
<1> QED
  BY <1>1, <1>3, <1>4, BagStep

LEMMA OpenTableStep ==
  ASSUME Inv, NEW s \in Slots, NEW n \in Nodes, OpenTableOn(s, n)
  PROVE  Inv'
<1> DEFINE v == Table(n, SizeIn(n), Opened(n, Columns(n).rows))
<1>1. MayOpenTable(n) /\ Opens(s, "table", Whatever, n, OpenTable(n))
  BY DEF OpenTableOn
<1>2. Gives(OpenTable(n), IsTable(n), v)
  BY <1>1, OpenTableGives
<1>3. IsTable(n) => Right(v)
  <2>1. IsTable(n) => IsHeap(n) /\ \E sizes : IsBth(n, Columns(n).rows, sizes)
    BY DEF IsTable, Columns
  <2> QED
    BY <2>1, OpenedRightBth
<1>4. IsTable(n) \in BOOLEAN
  BY DEF IsTable
<1> HIDE DEF v
<1>5. AllRight(obj')
  BY <1>1, <1>2, <1>3, OpensRight
<1>6. /\ answer'.op = "table" /\ answer'.node = n
      /\ answer'.throws # "failed" => ((answer'.throws = None) = IsTable(n))
  BY <1>1, <1>2, <1>4, OpensAnswer
<1>7. AnswersRight'
  BY <1>6 DEF AnswersRight
<1> QED
  BY <1>5, <1>7 DEF Inv

LEMMA GetChildStep ==
  ASSUME Inv, NEW s \in Slots, NEW h \in DOMAIN obj[s].nodes, GetChild(s, h)
  PROVE  Inv'
<1> DEFINE o == obj[s]
           n == o.node
<1>1. HasBth(s) /\ o.nodes[h] > 0 /\ answer' = answer
  BY DEF GetChild
<1>2. PICK i \in DOMAIN Alloc(n, h).children :
        obj' = [obj EXCEPT ![s] = With(o, Alloc(n, h).children[i], ChildLevel(o.nodes[h]))]
  BY DEF GetChild
<1>3. /\ n \in Nodes /\ IsHeap(n) /\ Levels(n, o.root, o.nodes)
      /\ OnBth(o, n, o.root, o.nodes)
  BY <1>1, HeldBth
<1> DEFINE c == Alloc(n, h).children[i]
           more == [x \in DOMAIN o.nodes \cup {c} |-> IF x = c THEN ChildLevel(o.nodes[h]) ELSE o.nodes[x]]
<1>4. Levels(n, o.root, more)
  BY <1>1, <1>3, WithLevels
<1>5. With(o, c, ChildLevel(o.nodes[h])) = [o EXCEPT !.nodes = more]
  BY DEF With
<1> HIDE DEF more
<1>6. OnBth([o EXCEPT !.nodes = more], n, o.root, more)
  BY <1>3, Replaced
<1>7. Right([o EXCEPT !.nodes = more])
  BY <1>3, <1>4, <1>6 DEF Right
<1>8. AllRight(obj')
  BY <1>2, <1>5, <1>7 DEF Inv, AllRight
<1> QED
  BY <1>1, <1>8 DEF Inv, AnswersRight

LEMMA ListStep ==
  ASSUME Inv, NEW s \in Slots, List(s)
  PROVE  Inv'
<1> DEFINE o == obj[s]
           n == o.node
           level == o.nodes[o.root]
           all == AllUnder(n, level, o.root)
           more == [h \in {p[2] : p \in all} |-> (CHOOSE p \in all : p[2] = h)[1]]
<1>1. /\ HasBth(s) /\ o.kind = "bag"
      /\ answer' = [op |-> "list", as |-> Whatever, node |-> n, throws |-> None,
                    keys |-> KeysUnder(n, level, o.root)]
      /\ obj' = [obj EXCEPT ![s].nodes = more]
  BY DEF List, HasBth, Holds
<1>2. /\ n \in Nodes /\ IsHeap(n) /\ Levels(n, o.root, o.nodes)
      /\ OnBth(o, n, o.root, o.nodes)
  BY <1>1, HeldBth
<1>3. IsBag(n) /\ o.root = Alloc(n, Store[n].root).root
  BY <1>1, <1>2, Fields
<1>4. o.root \in TreeNodes(n) /\ level = Height(n, o.root)
  BY <1>2 DEF Levels
<1>5. Levels(n, o.root, more)
  BY <1>2, <1>4, AllUnderRight, ListLevels
<1>6. KeysUnder(n, level, o.root) = InOrder(n, o.root)
  BY <1>2, <1>4, KeysUnderRight
<1>7. KeysUnder(n, level, o.root) = InOrder(n, Alloc(n, Store[n].root).root)
  BY <1>3, <1>6
<1>8. obj' = [obj EXCEPT ![s] = [o EXCEPT !.nodes = more]]
  BY <1>1
<1> HIDE DEF more, all
<1>9. OnBth([o EXCEPT !.nodes = more], n, o.root, more)
  BY <1>2, Replaced
<1>10. Right([o EXCEPT !.nodes = more])
  BY <1>2, <1>5, <1>9 DEF Right
<1>11. AllRight(obj')
  BY <1>8, <1>10 DEF Inv, AllRight
<1>12. AnswersRight'
  BY <1>1, <1>7 DEF AnswersRight
<1> QED
  BY <1>11, <1>12 DEF Inv

LEMMA Start ==
  ASSUME Init
  PROVE  Inv
BY DEF Init, Inv, AllRight, AnswersRight

LEMMA Step ==
  ASSUME Inv, [Next]_vars
  PROVE  Inv'
<1>1. CASE UNCHANGED vars
  BY <1>1 DEF vars, Inv, AnswersRight
<1>2. ASSUME NEW s \in Slots, Drop(s)
      PROVE  Inv'
  BY <1>2 DEF Drop, Inv, AllRight, AnswersRight
<1>3. CASE GoOn
  BY <1>3 DEF GoOn, Inv, AnswersRight
<1> QED
  BY <1>1, <1>2, <1>3, OpenHeapStep, OpenHeapAsStep, OpenBagStep, OpenTableStep,
     OpenBthOfStep, OpenBagOfHeapStep, CopyBagStep, GetChildStep, ListStep DEF Next

\* The level at which a node of a BTH is held is its height in the heap, by
\* whatever way it was come to: the casts of propbag.h:132 and heap.h:512 are
\* right, for BTHs of any height.
THEOREM LevelsAreRight == Spec => []LevelsRight
<1>1. ASSUME Inv
      PROVE  LevelsRight
  <2> SUFFICES ASSUME NEW s \in Slots, HasBth(s)
               PROVE  LET o == obj[s]
                      IN /\ o.root \in DOMAIN o.nodes
                         /\ \A h \in DOMAIN o.nodes :
                              /\ (o.nodes[h] = 0) = IsLeaf(o.node, h)
                              /\ o.nodes[h] > 0 =>
                                   LET children == Alloc(o.node, h).children
                                   IN \A i \in DOMAIN children :
                                        children[i] \in DOMAIN o.nodes =>
                                          o.nodes[children[i]] = o.nodes[h] - 1
    BY DEF LevelsRight
  <2> DEFINE n == obj[s].node
             nodes == obj[s].nodes
  <2>1. n \in Nodes /\ Levels(n, obj[s].root, nodes)
    BY <1>1, HeldBth
  <2>2. ASSUME NEW h \in DOMAIN nodes
        PROVE  /\ (nodes[h] = 0) = IsLeaf(n, h)
               /\ nodes[h] > 0 =>
                    LET children == Alloc(n, h).children
                    IN \A i \in DOMAIN children :
                         children[i] \in DOMAIN nodes => nodes[children[i]] = nodes[h] - 1
    <3>1. h \in TreeNodes(n) /\ nodes[h] = Height(n, h)
      BY <2>1 DEF Levels
    <3>2. IsLeaf(n, h) \in BOOLEAN
      BY DEF IsLeaf
    <3> QED
      BY <2>1, <3>1, <3>2, Heights DEF Levels
  <2> QED
    BY <2>1, <2>2 DEF Levels
<1> QED
  BY <1>1, Start, Step, PTL DEF Spec

\* What a program holds is what its node is: a copy of a bag, and a bag of a
\* heap, too, which test less than a bag of a node does (propbag.h:92-115).
THEOREM OpenedAreRight == Spec => []OpenedRight
<1>1. ASSUME Inv
      PROVE  OpenedRight
  <2> SUFFICES ASSUME NEW s \in Slots, obj[s] # None
               PROVE  LET o == obj[s]
                          tc == Alloc(o.node, Store[o.node].root)
                      IN /\ o.kind \in {"heap", "bth", "bag", "table"} /\ IsHeap(o.node)
                         /\ o.kind = "bag" => IsBag(o.node) /\ o.root = tc.root
                         /\ o.kind = "table" =>
                              /\ IsTable(o.node) /\ IsBth(o.node, tc.rows, <<4, o.size>>)
                              /\ o.columns = tc.columns
                              /\ o.place = "subnode" => tc.matrix \in Store[o.node].subnodes
                              /\ o.place = "heap" => tc.matrix \in DOMAIN Store[o.node].allocs
                              /\ o.place = "none" => tc.matrix = 0
    BY DEF OpenedRight
  <2> DEFINE o == obj[s]
             n == o.node
             tc == Columns(n)
  <2>1. Right(o)
    BY <1>1 DEF Inv, AllRight
  <2>2. o.kind \in {"heap", "bth", "bag", "table"}
    BY <2>1, Fields, HeapFields DEF Right
  <2>3. CASE o.kind = "heap"
    BY <1>1, <2>3, HeldHeap DEF Holds
  <2>4. CASE o.kind # "heap"
    <3>1. /\ n \in Nodes /\ IsHeap(n) /\ Levels(n, o.root, o.nodes)
          /\ OnBth(o, n, o.root, o.nodes)
      BY <1>1, <2>2, <2>4, HeldBth DEF HasBth, Holds
    <3>2. o.kind = "bag" => IsBag(n) /\ o.root = Alloc(n, Store[n].root).root
      BY <3>1, Fields
    <3>3. ASSUME o.kind = "table"
          PROVE  /\ IsTable(n) /\ IsBth(n, tc.rows, <<4, o.size>>)
                 /\ o.columns = tc.columns
                 /\ o.place = "subnode" => tc.matrix \in Store[n].subnodes
                 /\ o.place = "heap" => tc.matrix \in DOMAIN Store[n].allocs
                 /\ o.place = "none" => tc.matrix = 0
      <4>1. IsTable(n) /\ o = Table(n, SizeIn(n), Bth(n, o.root, o.nodes))
        BY <3>1, <3>3, Fields
      <4>2. o.size = SizeIn(n) /\ o.columns = tc.columns /\ o.place = Place(n)
        BY <4>1 DEF Table
      <4> HIDE DEF o, n
      <4>3. IsBth(n, tc.rows, <<4, SizeIn(n)>>)
        BY <4>1 DEF IsTable, IsBth, SizeIn, RowSize, Columns
      <4>4. tc.matrix = 0 \/ IsSubnodeId(tc.matrix) \/ tc.matrix \in DOMAIN Store[n].allocs
        <5>1. IsTc(n, Store[n].root) /\ Store[n].root \in DOMAIN Store[n].allocs
          BY <4>1 DEF IsTable, IsTc
        <5> QED
          BY <3>1, <5>1, FormatAssumption DEF Columns
      <4>5. IsSubnodeId(tc.matrix) => tc.matrix \in Store[n].subnodes
        BY <4>1 DEF IsTable, Columns
      <4> QED
        BY <4>1, <4>2, <4>3, <4>4, <4>5 DEF Place
    <3> QED
      BY <2>2, <3>1, <3>2, <3>3 DEF Columns
  <2> QED
    BY <2>3, <2>4
<1> QED
  BY <1>1, Start, Step, PTL DEF Spec

\* What can be opened is and what cannot is refused, by every way and at either
\* level of validation, and a list of properties does not depend on what was
\* read before.
THEOREM AnswersAreRight == Spec => []AnswersRight
<1>1. Inv => AnswersRight
  BY DEF Inv
<1> QED
  BY <1>1, Start, Step, PTL DEF Spec
=============================================================================
