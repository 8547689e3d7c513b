---------------------------- MODULE PstItems_proof ----------------------------
(***************************************************************************)
(* For every store, every number of objects and loops and every pattern of *)
(* failing reads: what the objects keep is what the store has, and end()   *)
(* has the table of begin().                                               *)
(***************************************************************************)
EXTENDS PstItems, SequenceTheorems, WellFoundedInduction, TLAPS

USE DEF CanFail, Failures

-----------------------------------------------------------------------------
(***************************************************************************)
(* One object, and one loop with the objects it can be ended with.         *)
(***************************************************************************)

GoodMember(as, path, m, member) ==
  /\ member.at = Truth(as, path, m)
  /\ member.at = None => as = "message"

GoodObject(o) ==
  o.as # "none" =>
    /\ Item(o.as, o.path) \in work.items
    /\ DOMAIN o.cache \subseteq Members(o.as)
    /\ \A m \in DOMAIN o.cache : GoodMember(o.as, o.path, m, o.cache[m])

\* The object o can end the loop c.
Ends(o, c) ==
  LET m == Views[c.view].member
  IN /\ o.as = c.as /\ o.path = c.path
     /\ m # "nbt" => m \in DOMAIN o.cache /\ o.cache[m] = c.table

IsLoop(c) ==
  DOMAIN c = {"view", "as", "path", "with", "table", "pos", "pc", "seen", "skipped"}

GoodTable(c) ==
  LET m == Views[c.view].member
  IN /\ Item(c.as, c.path) \in work.items
     /\ c.view \in ViewsOf(c.as)
     /\ m = "nbt" => c.table = Nbt
     /\ c.table.at = IF m = "nbt" THEN <<>> ELSE Truth(c.as, c.path, m)

Placed(c) ==
  LET size == Len(RowsAt(c.table.at))
  IN /\ c.pos \in 0..size
     /\ c.pc \in {"test", "body", "next", "done"}
     /\ c.pc \in {"body", "next"} => c.pos < size

GoodLoop(c, objs) ==
  c # None =>
    /\ IsLoop(c) /\ GoodTable(c)
    /\ Placed(c)
    /\ c.with \subseteq Slots
    /\ \A s \in c.with : Ends(objs[s], c)

\* The loop d is somewhere in the same table as c.
Moved(d, c) ==
  /\ IsLoop(d) /\ d.with = c.with
  /\ d.as = c.as /\ d.path = c.path /\ d.view = c.view /\ d.table = c.table

\* The loop d is at the same place of the same table as c.
UsedBy(d, c, S) ==
  /\ IsLoop(d) /\ d.with = S
  /\ d.as = c.as /\ d.path = c.path /\ d.view = c.view /\ d.table = c.table
  /\ d.pos = c.pos /\ d.pc = c.pc

\* The objects are good, and end the loops that those of this state end.
Stay(objs) ==
  /\ DOMAIN objs = Slots
  /\ \A s \in Slots : GoodObject(objs[s])
  /\ \A s \in Slots : \A c : Ends(obj[s], c) => Ends(objs[s], c)

IInv ==
  /\ work \in Works /\ faults \in 0..MaxFaults
  /\ DOMAIN obj = Slots /\ DOMAIN loop = Loops
  /\ \A s \in Slots : GoodObject(obj[s])
  /\ \A l \in Loops : GoodLoop(loop[l], obj)

-----------------------------------------------------------------------------

\* A set of naturals has a least element.
LEMMA LeastIsOne ==
  ASSUME NEW S \in SUBSET Nat, S # {}
  PROVE  Least(S) \in S /\ \A i \in S : Least(S) <= i
<1>1. PICK x \in S : \A y \in S : ~ (<<y, x>> \in OpToRel(<, Nat))
  BY NatLessThanWellFounded, WFMin, Zenon
<1>2. \A y \in S : x <= y
  <2> SUFFICES ASSUME NEW y \in S, y < x PROVE FALSE
    OBVIOUS
  <2>1. <<y, x>> \in OpToRel(<, Nat)
    BY Zenon DEF OpToRel
  <2> QED
    BY <1>1, <2>1, Zenon
<1> QED
  BY <1>2 DEF Least

\* Views are of members of the objects they are taken of, or of the NBT.
LEMMA ViewMember ==
  ASSUME NEW as, NEW view \in ViewsOf(as)
  PROVE  /\ Views[view].member # "nbt" => /\ Views[view].member \in Members(as)
                                          /\ Views[view].member \in Tables
<1>1. as \in {"message", "folder", "search_folder", "pst"}
  BY DEF ViewsOf
<1>2. CASE as = "message"
  BY <1>2 DEF ViewsOf, Views, View, Members, Tables
<1>3. CASE as = "folder"
  BY <1>3 DEF ViewsOf, Views, View, Members, Tables
<1>4. CASE as = "search_folder"
  BY <1>4 DEF ViewsOf, Views, View, Members, Tables
<1>5. CASE as = "pst"
  BY <1>5 DEF ViewsOf, Views, View, Members, Tables
<1> QED
  BY <1>1, <1>2, <1>3, <1>4, <1>5

\* The table of a view has its rows, as many as a ulong can count.
LEMMA RowsOfTable ==
  ASSUME work \in Works, NEW c, GoodTable(c)
  PROVE  Len(RowsAt(c.table.at)) \in 0..UlongMax
<1> DEFINE m == Views[c.view].member
           at == Place(c.as, c.path, m)
<1>1. CASE m = "nbt"
  BY <1>1, StoreAssumption DEF GoodTable, RowsAt, Nodes
<1>2. CASE m # "nbt" /\ at \in Nodes
  <2>1. m \in Members(c.as) \cap Tables
    BY <1>2, ViewMember DEF GoodTable
  <2>2. at \in DOMAIN Rows
    <3>1. Item(c.as, c.path).as = c.as /\ Item(c.as, c.path).path = c.path
      BY DEF Item
    <3> QED
      BY <1>2, <2>1, <3>1, TablesAssumption DEF GoodTable
  <2>3. c.table.at = at
    BY <1>2, <2>1 DEF GoodTable, Truth, Tables
  <2> QED
    BY <2>2, <2>3, StoreAssumption DEF RowsAt, Nodes
<1>3. CASE m # "nbt" /\ at \notin Nodes
  <2>1. m \in Tables
    BY <1>3, ViewMember DEF GoodTable
  <2>2. c.table.at = None
    BY <1>3, <2>1 DEF GoodTable, Truth, Tables
  <2> QED
    BY <2>2, StoreAssumption DEF RowsAt
<1> QED
  BY <1>1, <1>2, <1>3

\* ++ and begin() stop between where they start and the end, and if they throw
\* before the end.
LEMMA ScanStops ==
  ASSUME NEW v, NEW rows, Len(rows) \in Nat, NEW p \in 0..Len(rows), NEW at \in Scan(v, rows, p)
  PROVE  /\ at.pos \in p..Len(rows)
         /\ at.kind # "ok" => at.pos < Len(rows)
<1> DEFINE q == Stop(v, rows, p)
<1>1. q \in p..Len(rows)
  <2> DEFINE S == {j \in p..Len(rows) :
                     j < Len(rows) => Untestable(v, rows[j + 1]) \/ Passes(v, rows[j + 1])}
  <2>1. S \in SUBSET Nat /\ Len(rows) \in S
    OBVIOUS
  <2>2. Least(S) \in S
    BY <2>1, LeastIsOne
  <2> QED
    BY <2>2 DEF Stop
<1> HIDE DEF q
<1> QED
  BY <1>1 DEF Scan, q

\* The search finds the photo that there is.
LEMMA PhotoIsFound ==
  ASSUME NEW path, NEW a, IsPhoto(path, a)
  PROVE  PhotoOf(path) = Found(a)
<1> DEFINE table == Append(path, NidAttachmentTable)
           Attachment(k) == Append(path, Rows[table][k].id)
           Has(k) == "photo" \in DOMAIN Props[Attachment(k)]
           marked == {k \in DOMAIN Rows[table] : Has(k) => Props[Attachment(k)].photo}
           first == Least(marked)
<1>1. table \in DOMAIN Rows /\ DOMAIN Rows[table] \in SUBSET Nat
  BY FormatAssumption DEF IsPhoto
<1>2. PICK i \in DOMAIN Rows[table] :
        /\ a = Attachment(i) /\ Has(i) /\ Props[a].photo
        /\ \A j \in DOMAIN Rows[table] : j < i => Has(j) /\ ~Props[Attachment(j)].photo
  BY DEF IsPhoto
<1>3. marked \in SUBSET Nat /\ i \in marked
  BY <1>1, <1>2
<1>4. first \in marked /\ first <= i
  BY <1>3, LeastIsOne
<1>5. ~(first < i)
  <2> SUFFICES ASSUME first < i
               PROVE  FALSE
    OBVIOUS
  <2>1. Has(first) /\ ~Props[Attachment(first)].photo
    BY <1>2, <1>4
  <2> HIDE DEF first
  <2> QED
    BY <1>4, <2>1
<1>6. first = i
  <2>1. first \in Nat /\ i \in Nat
    BY <1>3, <1>4
  <2> HIDE DEF first, marked
  <2> QED
    BY <1>4, <1>5, <2>1
<1>7. marked # {} /\ Has(first) /\ Attachment(first) = a
  BY <1>2, <1>3, <1>6
<1> QED
  BY <1>1, <1>7 DEF PhotoOf

\* and none if there is none.
LEMMA NoPhoto ==
  ASSUME NEW as, NEW path, WellFormed(Item(as, path)), ~\E a \in Nodes : IsPhoto(path, a)
  PROVE  PhotoOf(path) = Threw("key_not_found")
<1> DEFINE table == Append(path, NidAttachmentTable)
           Attachment(k) == Append(path, Rows[table][k].id)
           Has(k) == "photo" \in DOMAIN Props[Attachment(k)]
           marked == {k \in DOMAIN Rows[table] : Has(k) => Props[Attachment(k)].photo}
           first == Least(marked)
<1>1. CASE table \notin DOMAIN Rows \/ marked = {}
  BY <1>1 DEF PhotoOf
<1>2. CASE table \in DOMAIN Rows /\ marked # {} /\ ~Has(first)
  BY <1>2 DEF PhotoOf
<1>3. CASE table \in DOMAIN Rows /\ marked # {} /\ Has(first)
  <2>1. DOMAIN Rows[table] \in SUBSET Nat
    BY <1>3, FormatAssumption
  <2>2. marked \in SUBSET Nat
    BY <2>1
  <2>3. first \in marked /\ \A j \in marked : first <= j
    BY <1>3, <2>2, LeastIsOne
  <2>4. first \in DOMAIN Rows[table] /\ Props[Attachment(first)].photo
    BY <1>3, <2>3
  <2>5. ASSUME NEW j \in DOMAIN Rows[table], j < first
        PROVE  Has(j) /\ ~Props[Attachment(j)].photo
    <3>1. j \notin marked
      <4>1. j \in Nat /\ first \in Nat
        BY <2>1, <2>4
      <4> HIDE DEF first, marked
      <4> QED
        BY <2>3, <2>5, <4>1
    <3> HIDE DEF first
    <3> QED
      BY <2>5, <3>1
  <2>6. Attachment(first) \in Nodes
    BY <1>3, <2>4 DEF WellFormed, Item, Nodes
  <2>7. IsPhoto(path, Attachment(first))
    BY <1>3, <2>4, <2>5 DEF IsPhoto
  <2> QED
    BY <2>6, <2>7
<1> QED
  BY <1>1, <1>2, <1>3

\* Only a message has tables that are not there.
LEMMA OpenedIsThere ==
  ASSUME NEW as, NEW path, WellFormed(Item(as, path)), NEW m \in Members(as)
  PROVE  LET r == OpenMember(as, path, m)
         IN IF Truth(as, path, m) = None /\ as # "message" THEN r.kind = "key_not_found"
            ELSE r.kind = "ok" /\ r.at = Truth(as, path, m)
<1> DEFINE r == OpenMember(as, path, m)
<1>1. CASE m # "photo"
  <2>1. CASE Place(as, path, m) \in Nodes
    BY <1>1, <2>1, StoreAssumption DEF OpenMember, Truth, Found
  <2>2. CASE Place(as, path, m) \notin Nodes
    BY <1>1, <2>2 DEF OpenMember, Truth, Found, Threw
  <2> QED
    BY <2>1, <2>2
<1>2. CASE m = "photo"
  <2>1. as # "message" /\ r = PhotoOf(path)
    BY <1>2 DEF Members, OpenMember
  <2>2. CASE \E a \in Nodes : IsPhoto(path, a)
    <3> PICK a \in Nodes : IsPhoto(path, a)
      BY <2>2
    <3>1. PhotoOf(path) = Found(a) /\ a # None
      BY PhotoIsFound, StoreAssumption
    <3>2. \A b \in Nodes : IsPhoto(path, b) => b = a
      BY <3>1, PhotoIsFound DEF Found
    <3>3. Truth(as, path, m) = a
      BY <1>2, <3>2 DEF Truth
    <3> QED
      BY <2>1, <3>1, <3>3 DEF Found
  <2>3. CASE ~\E a \in Nodes : IsPhoto(path, a)
    <3>1. Truth(as, path, m) = None
      BY <1>2, <2>3 DEF Truth
    <3>2. PhotoOf(path) = Threw("key_not_found")
      BY <2>3, NoPhoto
    <3> QED
      BY <2>1, <3>1, <3>2 DEF Threw
  <2> QED
    BY <2>2, <2>3
<1> QED
  BY <1>1, <1>2

\* What is asked for is what the store has, and what is kept is given again.
LEMMA GetGives ==
  ASSUME work \in Works, NEW o, o.as # "none", GoodObject(o), NEW m \in Members(o.as), m # "nbt",
         NEW r \in Get(o, m), r.kind = "ok"
  PROVE  /\ GoodMember(o.as, o.path, m, r.member)
         /\ m \in DOMAIN o.cache => r.member = o.cache[m]
<1>1. CASE m \in DOMAIN o.cache
  BY <1>1 DEF Get, GoodObject
<1>2. CASE m \notin DOMAIN o.cache
  <2> DEFINE found == OpenMember(o.as, o.path, m)
  <2>1. found.kind = "ok" /\ r.member.at = found.at
    BY <1>2 DEF Get
  <2>2. WellFormed(Item(o.as, o.path))
    BY FormatAssumption DEF GoodObject
  <2>3. IF Truth(o.as, o.path, m) = None /\ o.as # "message" THEN found.kind = "key_not_found"
        ELSE found.kind = "ok" /\ found.at = Truth(o.as, o.path, m)
    BY <2>2, OpenedIsThere
  <2> QED
    BY <1>2, <2>1, <2>3 DEF GoodMember
<1> QED
  BY <1>1, <1>2

\* An object that has read one member more is good, and ends the loops it ended.
LEMMA ReadingIsGood ==
  ASSUME work \in Works, NEW o, o.as # "none", GoodObject(o), NEW m \in Members(o.as), m # "nbt",
         NEW r \in Get(o, m), r.kind = "ok"
  PROVE  LET n == Reading(o, m, r.member)
         IN /\ GoodObject(n) /\ n.as = o.as /\ n.path = o.path
            /\ m \in DOMAIN n.cache /\ n.cache[m] = r.member
            /\ \A k \in DOMAIN o.cache : k \in DOMAIN n.cache /\ n.cache[k] = o.cache[k]
<1> DEFINE n == Reading(o, m, r.member)
<1>1. /\ GoodMember(o.as, o.path, m, r.member)
      /\ m \in DOMAIN o.cache => r.member = o.cache[m]
  BY GetGives
<1>2. DOMAIN n.cache = DOMAIN o.cache \cup {m} /\ n.as = o.as /\ n.path = o.path
  BY DEF Reading
<1>3. \A k \in DOMAIN n.cache : n.cache[k] = IF k = m THEN r.member ELSE o.cache[k]
  BY DEF Reading
<1> HIDE DEF n
<1>4. GoodObject(n) /\ n.as = o.as /\ n.path = o.path
        /\ m \in DOMAIN n.cache /\ n.cache[m] = r.member
        /\ \A k \in DOMAIN o.cache : k \in DOMAIN n.cache /\ n.cache[k] = o.cache[k]
  BY <1>1, <1>2, <1>3 DEF GoodObject
<1> QED
  BY <1>4 DEF n

-----------------------------------------------------------------------------
(***************************************************************************)
(* The steps.                                                              *)
(***************************************************************************)

\* What a call reads is kept.
LEMMA ReadStays ==
  ASSUME IInv, NEW s \in Slots, Holds(s), NEW m,
         m = "nbt" \/ m \in Members(obj[s].as), NEW r \in Get(obj[s], m)
  PROVE  /\ Stay(Kept(s, m, r))
         /\ Kept(s, m, r)[s].as = obj[s].as /\ Kept(s, m, r)[s].path = obj[s].path
         /\ m # "nbt" /\ r.kind = "ok" =>
              m \in DOMAIN Kept(s, m, r)[s].cache /\ Kept(s, m, r)[s].cache[m] = r.member
<1>1. CASE m = "nbt" \/ r.kind # "ok"
  BY <1>1 DEF Kept, IInv, GoodObject, Stay
<1>2. CASE m # "nbt" /\ r.kind = "ok"
  <2> DEFINE n == Reading(obj[s], m, r.member)
             objs == Kept(s, m, r)
  <2>1. objs = [obj EXCEPT ![s] = n]
    BY <1>2 DEF Kept
  <2>2. /\ GoodObject(n) /\ n.as = obj[s].as /\ n.path = obj[s].path
        /\ m \in DOMAIN n.cache /\ n.cache[m] = r.member
        /\ \A k \in DOMAIN obj[s].cache : k \in DOMAIN n.cache /\ n.cache[k] = obj[s].cache[k]
    BY <1>2, ReadingIsGood DEF IInv, Holds
  <2> HIDE DEF n, objs
  <2>3. DOMAIN objs = Slots /\ \A u \in Slots : objs[u] = IF u = s THEN n ELSE obj[u]
    BY <2>1 DEF IInv
  <2>4. \A u \in Slots : GoodObject(objs[u])
    BY <2>2, <2>3 DEF IInv
  <2>5. \A u \in Slots : \A c : Ends(obj[u], c) => Ends(objs[u], c)
    BY <2>2, <2>3 DEF Ends
  <2>6. /\ Stay(objs)
        /\ objs[s].as = obj[s].as /\ objs[s].path = obj[s].path
        /\ m \in DOMAIN objs[s].cache /\ objs[s].cache[m] = r.member
    BY <2>2, <2>3, <2>4, <2>5 DEF Stay
  <2> QED
    BY <2>6 DEF objs
<1> QED
  BY <1>1, <1>2

\* The objects of the next state are good.
LEMMA StayGood ==
  ASSUME Stay(obj'), UNCHANGED work
  PROVE  DOMAIN obj' = Slots /\ \A s \in Slots : GoodObject(obj[s])'
  BY DEF Stay, GoodObject

\* A program puts an object in t that has read nothing, or none.
LEMMA PutKeepsIInv ==
  ASSUME IInv, NEW objs, Stay(objs), NEW t \in Slots, NEW o, GoodObject(o),
         obj' = [objs EXCEPT ![t] = o], loop' = Without(t),
         UNCHANGED work, faults' \in 0..MaxFaults
  PROVE  IInv'
<1>1. DOMAIN obj' = Slots /\ DOMAIN loop' = Loops
  BY DEF Stay, Without
<1>2. ASSUME NEW s \in Slots PROVE GoodObject(obj[s])'
  <2>1. obj'[s] = IF s = t THEN o ELSE objs[s]
    BY DEF Stay
  <2> QED
    BY <2>1 DEF Stay, GoodObject
<1>3. ASSUME NEW l \in Loops PROVE GoodLoop(loop[l], obj)'
  <2> SUFFICES ASSUME loop'[l] # None PROVE GoodLoop(loop[l], obj)'
    BY DEF GoodLoop
  <2>1. loop[l] # None /\ loop'[l] = Using(loop[l], loop[l].with \ {t})
    BY DEF Without
  <2>2. GoodLoop(loop[l], obj)
    BY DEF IInv
  <2>3. UsedBy(loop'[l], loop[l], loop[l].with \ {t})
    BY <2>1 DEF Using, UsedBy, IsLoop
  <2>4. \A s \in loop[l].with \ {t} : Ends(obj'[s], loop[l])
    BY <2>1, <2>2 DEF Stay, GoodLoop
  <2> QED
    BY <2>1, <2>2, <2>3, <2>4 DEF GoodLoop, GoodTable, Placed, Ends, UsedBy
<1> QED
  BY <1>1, <1>2, <1>3 DEF IInv

\* A step of the loop l leaves it in its table.
LEMMA MoveKeepsIInv ==
  ASSUME IInv, NEW l \in Loops, loop[l] # None, Stay(obj'), UNCHANGED work,
         faults' \in 0..MaxFaults, NEW c, Moved(c, loop[l]), Placed(c),
         loop' = [loop EXCEPT ![l] = c]
  PROVE  IInv'
<1>1. ASSUME NEW k \in Loops PROVE GoodLoop(loop[k], obj)'
  <2>1. GoodLoop(loop[k], obj)
    BY DEF IInv
  <2>2. CASE k = l
    <3>1. loop'[k] = c
      BY <2>2 DEF IInv
    <3>2. GoodTable(c) /\ GoodTable(c)' /\ IsLoop(c)
      BY <2>1, <2>2 DEF GoodLoop, GoodTable, Moved
    <3>3. c.with = loop[k].with /\ \A s \in c.with : Ends(obj[s], c)
      BY <2>1, <2>2 DEF GoodLoop, Moved, Ends
    <3> QED
      BY <2>1, <2>2, <3>1, <3>2, <3>3 DEF GoodLoop, Stay, Placed
  <2>3. CASE k # l
    <3>1. loop'[k] = loop[k]
      BY <2>3 DEF IInv
    <3> QED
      BY <2>1, <3>1 DEF GoodLoop, GoodTable, Stay, Placed
  <2> QED
    BY <2>2, <2>3
<1> QED
  BY <1>1, StayGood DEF IInv

\* A loop that is left.
LEMMA LeaveKeepsIInv ==
  ASSUME IInv, NEW l \in Loops, Stay(obj'), UNCHANGED work, faults' \in 0..MaxFaults,
         loop' = [loop EXCEPT ![l] = None]
  PROVE  IInv'
<1>1. ASSUME NEW k \in Loops PROVE GoodLoop(loop[k], obj)'
  <2>1. loop'[k] = loop[k] \/ loop'[k] = None
    BY DEF IInv
  <2> QED
    BY <2>1 DEF IInv, GoodLoop, GoodTable, Stay, Placed
<1> QED
  BY <1>1, StayGood DEF IInv

\* A call that only reads.
LEMMA ReadKeepsIInv ==
  ASSUME IInv, Stay(obj'), UNCHANGED <<work, loop>>, faults' \in 0..MaxFaults
  PROVE  IInv'
<1>1. ASSUME NEW k \in Loops PROVE GoodLoop(loop[k], obj)'
  BY DEF IInv, GoodLoop, GoodTable, Stay, Placed
<1> QED
  BY <1>1, StayGood DEF IInv

\* The reads that fail are counted.
LEMMA GetCounts ==
  ASSUME faults \in 0..MaxFaults, NEW o, NEW m, NEW r \in Get(o, m), Counted(r.kind)
  PROVE  faults' \in 0..MaxFaults
<1>1. PhotoOf(o.path).kind # "failed"
  BY DEF PhotoOf, Found, Threw
<1>2. OpenMember(o.as, o.path, m).kind # "failed"
  BY <1>1 DEF OpenMember, Found, Threw
<1>3. r.kind = "failed" => CanFail
  <2>1. CASE m = "nbt" \/ m \in DOMAIN o.cache
    BY <2>1 DEF Get, Failures
  <2>2. CASE ~(m = "nbt" \/ m \in DOMAIN o.cache)
    BY <1>2, <2>2 DEF Get
  <2> QED
    BY <2>1, <2>2
<1> QED
  BY <1>3, StoreAssumption DEF Counted

LEMMA ScanCounts ==
  ASSUME faults \in 0..MaxFaults, NEW v, NEW rows, NEW p, NEW at \in Scan(v, rows, p),
         Counted(at.kind)
  PROVE  faults' \in 0..MaxFaults
<1>1. at.kind = "failed" => CanFail
  BY DEF Scan
<1> QED
  BY <1>1, StoreAssumption DEF Counted

-----------------------------------------------------------------------------

LEMMA InitIInv == Init => IInv
<1> SUFFICES ASSUME Init PROVE IInv
  OBVIOUS
<1>1. \A s \in Slots : obj[s].as = "none"
  BY DEF Init, Nothing, Object
<1> QED
  BY <1>1, StoreAssumption DEF Init, IInv, GoodObject, GoodLoop

\* An object that has read nothing is good if it is one the program works with.
LEMMA NewIsGood ==
  ASSUME NEW as, NEW path, Item(as, path) \in work.items \/ as = "none"
  PROVE  GoodObject(Object(as, path))
<1>1. Object(as, path).as = as /\ Object(as, path).path = path
        /\ DOMAIN Object(as, path).cache = {}
  BY DEF Object
<1> QED
  BY <1>1 DEF GoodObject

LEMMA StayHere == ASSUME IInv PROVE Stay(obj)
  BY DEF IInv, Stay

LEMMA OpenKeepsIInv ==
  ASSUME IInv, UNCHANGED work, NEW s \in Slots, NEW item \in work.items, Open(s, item)
  PROVE  IInv'
<1>1. item = Item(item.as, item.path)
  BY TablesAssumption DEF IInv
<1>2. GoodObject(Object(item.as, item.path))
  BY <1>1, NewIsGood
<1> QED
  BY <1>2, PutKeepsIInv, StayHere DEF Open, Put, IInv

LEMMA DropKeepsIInv ==
  ASSUME IInv, UNCHANGED work, NEW s \in Slots, Drop(s)
  PROVE  IInv'
  BY NewIsGood, PutKeepsIInv, StayHere DEF Drop, Nothing, Put, IInv

LEMMA OpenAsMessageKeepsIInv ==
  ASSUME IInv, UNCHANGED work, NEW s \in Slots, NEW t \in Slots, OpenAsMessage(s, t)
  PROVE  IInv'
  BY NewIsGood, PutKeepsIInv, StayHere DEF OpenAsMessage, Put, IInv

LEMMA KeepKeepsIInv ==
  ASSUME IInv, UNCHANGED work, NEW l \in Loops, NEW t \in Slots, Keep(l, t)
  PROVE  IInv'
  BY NewIsGood, PutKeepsIInv, StayHere DEF Keep, Put, IInv

LEMMA AskKeepsIInv ==
  ASSUME IInv, UNCHANGED work, NEW s \in Slots, NEW m, Ask(s, m)
  PROVE  IInv'
<1>1. PICK r \in Get(obj[s], m) : obj' = Kept(s, m, r) /\ Counted(r.kind)
  BY DEF Ask
<1>2. Stay(obj')
  BY <1>1, ReadStays DEF Ask
<1>3. faults' \in 0..MaxFaults
  BY <1>1, GetCounts DEF IInv
<1> QED
  BY <1>2, <1>3, ReadKeepsIInv DEF Ask

LEMMA OpenByNameKeepsIInv ==
  ASSUME IInv, UNCHANGED work, NEW s \in Slots, NEW name, NEW t \in Slots, OpenByName(s, name, t)
  PROVE  IInv'
<1> DEFINE m == Folders(obj[s])
<1>1. PICK r \in Get(obj[s], m) :
        LET found == IF r.kind = "ok" THEN FindByName(RowsAt(r.member.at), name) ELSE Threw(r.kind)
            item == Item("folder", found.at)
        IN /\ Counted(r.kind)
           /\ IF found.kind = "ok" /\ item \in work.items
                THEN /\ obj' = [Kept(s, m, r) EXCEPT ![t] = Object("folder", found.at)]
                     /\ loop' = Without(t)
                ELSE obj' = Kept(s, m, r) /\ UNCHANGED loop
  BY DEF OpenByName
<1>2. Holds(s) /\ (m = "nbt" \/ m \in Members(obj[s].as))
  BY DEF OpenByName, Folders, Members
<1>3. Stay(Kept(s, m, r))
  BY <1>2, ReadStays
<1>4. faults' \in 0..MaxFaults
  BY <1>1, GetCounts DEF IInv
<1> DEFINE found == IF r.kind = "ok" THEN FindByName(RowsAt(r.member.at), name) ELSE Threw(r.kind)
<1>5. CASE found.kind = "ok" /\ Item("folder", found.at) \in work.items
  <2>1. /\ obj' = [Kept(s, m, r) EXCEPT ![t] = Object("folder", found.at)]
        /\ loop' = Without(t)
    BY <1>1, <1>5
  <2>2. GoodObject(Object("folder", found.at))
    BY <1>5, NewIsGood
  <2> QED
    BY <1>3, <1>4, <2>1, <2>2, PutKeepsIInv
<1>6. CASE ~(found.kind = "ok" /\ Item("folder", found.at) \in work.items)
  <2>1. obj' = Kept(s, m, r) /\ UNCHANGED loop
    BY <1>1, <1>6
  <2> QED
    BY <1>3, <1>4, <2>1, ReadKeepsIInv
<1> QED
  BY <1>5, <1>6

\* A copy ends the loops that the original ends.
LEMMA CopyKeepsIInv ==
  ASSUME IInv, UNCHANGED work, NEW s \in Slots, NEW t \in Slots, Copy(s, t)
  PROVE  IInv'
<1>1. obj' = [obj EXCEPT ![t] = obj[s]] /\ UNCHANGED faults
  BY DEF Copy, Copied
<1>2. DOMAIN obj' = Slots /\ DOMAIN loop' = Loops
  BY DEF IInv, Copy
<1>3. \A u \in Slots : obj'[u] = IF u = t THEN obj[s] ELSE obj[u]
  BY <1>1 DEF IInv
<1>4. \A u \in Slots : GoodObject(obj[u])'
  BY <1>3 DEF IInv, GoodObject
<1>5. ASSUME NEW l \in Loops PROVE GoodLoop(loop[l], obj)'
  <2> SUFFICES ASSUME loop'[l] # None PROVE GoodLoop(loop[l], obj)'
    BY DEF GoodLoop
  <2>1. PICK S : /\ loop[l] # None /\ loop'[l] = Using(loop[l], S)
                 /\ \/ s \in loop[l].with /\ S = loop[l].with \cup {t}
                    \/ S = loop[l].with \ {t}
    <3>1. CASE loop[l] # None /\ s \in loop[l].with
      BY <3>1 DEF Copy
    <3>2. CASE ~(loop[l] # None /\ s \in loop[l].with)
      BY <3>2 DEF Copy, Without
    <3> QED
      BY <3>1, <3>2
  <2>2. GoodLoop(loop[l], obj)
    BY DEF IInv
  <2>3. UsedBy(loop'[l], loop[l], S)
    BY <2>1 DEF Using, UsedBy, IsLoop
  <2>4. \A u \in S : u \in Slots /\ Ends(obj'[u], loop[l])
    BY <1>3, <2>1, <2>2 DEF GoodLoop
  <2> QED
    BY <2>1, <2>2, <2>3, <2>4 DEF GoodLoop, GoodTable, Placed, Ends, UsedBy
<1> QED
  BY <1>1, <1>2, <1>4, <1>5 DEF IInv

\* begin() and end() ask for a table, or for the NBT.
LEMMA MemberOfView ==
  ASSUME NEW o, NEW view \in ViewsOf(o.as)
  PROVE  Views[view].member = "nbt" \/ Views[view].member \in Members(o.as)
  BY ViewMember

LEMMA BeginKeepsIInv ==
  ASSUME IInv, UNCHANGED work, NEW l \in Loops, NEW s \in Slots, NEW view, Begin(l, s, view)
  PROVE  IInv'
<1> DEFINE v == Views[view]
           m == v.member
<1>1. PICK r \in Get(obj[s], m) :
        /\ obj' = Kept(s, m, r)
        /\ \/ r.kind # "ok" /\ Counted(r.kind) /\ UNCHANGED loop
           \/ /\ r.kind = "ok"
              /\ \E at \in Scan(v, RowsAt(r.member.at), 0) :
                   /\ Counted(at.kind)
                   /\ loop' = IF at.kind # "ok" THEN loop ELSE
                        [loop EXCEPT ![l] =
                           [view |-> view, as |-> obj[s].as, path |-> obj[s].path,
                            with |-> {s}, table |-> r.member, pos |-> at.pos, pc |-> "test",
                            seen |-> <<>>, skipped |-> FALSE]]
  BY DEF Begin
<1>2. Holds(s) /\ view \in ViewsOf(obj[s].as) /\ (m = "nbt" \/ m \in Members(obj[s].as))
  BY MemberOfView DEF Begin
<1>3. /\ Stay(obj')
      /\ obj'[s].as = obj[s].as /\ obj'[s].path = obj[s].path
      /\ m # "nbt" /\ r.kind = "ok" => m \in DOMAIN obj'[s].cache /\ obj'[s].cache[m] = r.member
  BY <1>1, <1>2, ReadStays
<1>4. CASE r.kind # "ok"
  BY <1>1, <1>3, <1>4, GetCounts, ReadKeepsIInv DEF IInv
<1>5. CASE r.kind = "ok"
  <2>1. PICK at \in Scan(v, RowsAt(r.member.at), 0) :
          /\ Counted(at.kind)
          /\ loop' = IF at.kind # "ok" THEN loop ELSE
               [loop EXCEPT ![l] =
                  [view |-> view, as |-> obj[s].as, path |-> obj[s].path,
                   with |-> {s}, table |-> r.member, pos |-> at.pos, pc |-> "test",
                   seen |-> <<>>, skipped |-> FALSE]]
    BY <1>1, <1>5
  <2>2. faults' \in 0..MaxFaults
    BY <2>1, ScanCounts DEF IInv
  <2>3. CASE at.kind # "ok"
    BY <1>3, <2>1, <2>2, <2>3, ReadKeepsIInv
  <2>4. CASE at.kind = "ok"
    <3> DEFINE c == [view |-> view, as |-> obj[s].as, path |-> obj[s].path,
                     with |-> {s}, table |-> r.member, pos |-> at.pos, pc |-> "test",
                     seen |-> <<>>, skipped |-> FALSE]
    <3>1. /\ c.view = view /\ c.as = obj[s].as /\ c.path = obj[s].path /\ c.with = {s}
          /\ c.table = r.member /\ c.pos = at.pos /\ c.pc = "test" /\ IsLoop(c)
      BY DEF IsLoop
    <3>2. loop' = [loop EXCEPT ![l] = c]
      BY <2>1, <2>4
    <3> HIDE DEF c
    <3>3. GoodTable(c)
      <4>1. Item(c.as, c.path) \in work.items /\ GoodObject(obj[s])
        BY <1>2, <3>1 DEF IInv, GoodObject, Holds
      <4>2. CASE m = "nbt"
        BY <1>1, <1>2, <1>5, <3>1, <4>1, <4>2 DEF GoodTable, Get, Nbt
      <4>3. CASE m # "nbt"
        <5>1. GoodMember(obj[s].as, obj[s].path, m, r.member)
          BY <1>2, <1>5, <4>1, <4>3, GetGives DEF Holds, IInv
        <5> QED
          BY <1>2, <3>1, <4>1, <4>3, <5>1 DEF GoodTable, GoodMember
      <4> QED
        BY <4>2, <4>3
    <3>4. Placed(c)
      <4>1. Len(RowsAt(c.table.at)) \in 0..UlongMax
        BY <3>3, RowsOfTable DEF IInv
      <4>2. at.pos \in 0..Len(RowsAt(r.member.at))
        BY <3>1, <4>1, StoreAssumption, ScanStops
      <4> QED
        BY <3>1, <4>2 DEF Placed
    <3>5. Ends(obj'[s], c)
      BY <1>3, <1>5, <3>1 DEF Ends
    <3>6. \A k \in Loops : loop'[k] = IF k = l THEN c ELSE loop[k]
      BY <3>2 DEF IInv
    <3>7. ASSUME NEW k \in Loops PROVE GoodLoop(loop[k], obj)'
      <4>1. CASE k = l
        BY <3>1, <3>3, <3>4, <3>5, <3>6, <4>1 DEF GoodLoop, GoodTable, Placed
      <4>2. CASE k # l
        BY <1>3, <3>6, <4>2 DEF IInv, GoodLoop, GoodTable, Stay, Placed
      <4> QED
        BY <4>1, <4>2
    <3> QED
      BY <1>3, <2>2, <3>2, <3>7, StayGood DEF IInv
  <2> QED
    BY <2>3, <2>4
<1> QED
  BY <1>4, <1>5

\* What the invariant says of a loop.
LEMMA LoopNow ==
  ASSUME IInv, NEW l \in Loops, loop[l] # None
  PROVE  /\ IsLoop(loop[l]) /\ GoodTable(loop[l]) /\ Placed(loop[l])
         /\ Len(Here(l)) \in 0..UlongMax
         /\ \A s \in loop[l].with : s \in Slots /\ Ends(obj[s], loop[l])
<1>1. GoodLoop(loop[l], obj)
  BY DEF IInv
<1> QED
  BY <1>1, RowsOfTable DEF IInv, GoodLoop, Here

LEMMA TestKeepsIInv ==
  ASSUME IInv, UNCHANGED work, NEW l \in Loops, NEW s \in Slots, Test(l, s)
  PROVE  IInv'
<1> DEFINE m == ViewAt(l).member
           c == loop[l]
<1>1. /\ c # None /\ c.pc = "test" /\ s \in c.with
      /\ IsLoop(c) /\ GoodTable(c) /\ Placed(c) /\ Ends(obj[s], c)
      /\ Len(Here(l)) \in 0..UlongMax
  BY LoopNow DEF Test
<1>2. PICK r \in Get(obj[s], m) :
        /\ obj' = Kept(s, m, r)
        /\ Counted(r.kind)
        /\ LET equal == r.member = loop[l].table /\ loop[l].pos = Len(RowsAt(r.member.at))
           IN loop' = IF r.kind # "ok" THEN loop
                      ELSE [loop EXCEPT ![l].pc = IF equal THEN "done" ELSE "body"]
  BY DEF Test
<1>3. Holds(s) /\ (m = "nbt" \/ m \in Members(obj[s].as))
  <2>1. ViewsOf("none") = {}
    BY DEF ViewsOf
  <2> QED
    BY <1>1, <2>1, MemberOfView DEF ViewAt, GoodTable, Ends, Holds
<1>4. Stay(obj')
  BY <1>2, <1>3, ReadStays
<1>5. faults' \in 0..MaxFaults
  BY <1>2, GetCounts DEF IInv
<1>6. CASE r.kind # "ok"
  BY <1>2, <1>4, <1>5, <1>6, ReadKeepsIInv
<1>7. CASE r.kind = "ok"
  <2>1. r.member = c.table
    <3>1. CASE m = "nbt"
      BY <1>1, <1>7, <3>1 DEF Get, GoodTable, ViewAt, Nbt
    <3>2. CASE m # "nbt"
      BY <1>1, <1>7, <3>2 DEF Get, Ends, ViewAt
    <3> QED
      BY <3>1, <3>2
  <2> DEFINE pc == IF c.pos = Len(Here(l)) THEN "done" ELSE "body"
  <2>2. loop' = [loop EXCEPT ![l] = [c EXCEPT !.pc = pc]]
    BY <1>2, <1>7, <2>1 DEF Here
  <2>3. Moved([c EXCEPT !.pc = pc], c) /\ [c EXCEPT !.pc = pc].pc = pc
          /\ [c EXCEPT !.pc = pc].pos = c.pos
    BY <1>1 DEF IsLoop, Moved
  <2> DEFINE d == [c EXCEPT !.pc = pc]
  <2> HIDE DEF d
  <2>4. Placed(d)
    BY <1>1, <2>3 DEF Placed, Moved, Here, d
  <2> QED
    BY <1>1, <1>4, <1>5, <2>2, <2>3, <2>4, MoveKeepsIInv DEF d
<1> QED
  BY <1>6, <1>7

LEMMA BodyKeepsIInv ==
  ASSUME IInv, UNCHANGED work, NEW l \in Loops, Body(l)
  PROVE  IInv'
<1>1. loop[l] # None /\ loop[l].pc = "body" /\ loop[l].pos < Len(Here(l)) /\ UNCHANGED obj
  BY DEF Body
<1>2. IsLoop(loop[l]) /\ Placed(loop[l]) /\ Len(Here(l)) \in 0..UlongMax
  BY <1>1, LoopNow
<1>3. Stay(obj')
  BY <1>1, StayHere DEF Stay
<1>4. CASE UNCHANGED faults /\ loop' = [loop EXCEPT ![l].pc = "next", ![l].seen = Append(@, loop[l].pos)]
  <2> DEFINE d == [loop[l] EXCEPT !.pc = "next", !.seen = Append(@, loop[l].pos)]
  <2>1. Moved(d, loop[l]) /\ d.pc = "next" /\ d.pos = loop[l].pos
    BY <1>2 DEF IsLoop, Moved
  <2>2. loop' = [loop EXCEPT ![l] = d]
    BY <1>4
  <2> HIDE DEF d
  <2>3. Placed(d)
    BY <1>1, <1>2, <2>1 DEF Placed, Moved, Here
  <2> QED
    BY <1>1, <1>3, <1>4, <2>1, <2>2, <2>3, MoveKeepsIInv DEF IInv
<1>5. CASE CanFail /\ faults' = faults + 1 /\ UNCHANGED loop
  BY <1>3, <1>5, ReadKeepsIInv, StoreAssumption DEF IInv
<1> QED
  BY <1>4, <1>5 DEF Body

LEMMA NextRowKeepsIInv ==
  ASSUME IInv, UNCHANGED work, NEW l \in Loops, NextRow(l)
  PROVE  IInv'
<1>1. loop[l] # None /\ loop[l].pos < Len(Here(l)) /\ UNCHANGED obj
  BY DEF NextRow
<1>2. IsLoop(loop[l]) /\ Placed(loop[l]) /\ Len(Here(l)) \in 0..UlongMax
  BY <1>1, LoopNow
<1>3. Stay(obj')
  BY <1>1, StayHere DEF Stay
<1>4. PICK at \in Scan(ViewAt(l), Here(l), loop[l].pos + 1) :
        /\ Counted(at.kind)
        /\ IF at.kind = "ok"
             THEN loop' = [loop EXCEPT ![l].pos = at.pos, ![l].pc = "test"]
             ELSE IF ViewAt(l).member = "nbt" THEN loop' = [loop EXCEPT ![l] = None]
             ELSE \E pc \in {"next", "test"} :
                    loop' = [loop EXCEPT ![l].pos = at.pos, ![l].pc = pc, ![l].skipped = TRUE]
  BY DEF NextRow
<1>5. faults' \in 0..MaxFaults
  BY <1>4, ScanCounts DEF IInv
<1>6. at.pos \in 0..Len(Here(l)) /\ (at.kind # "ok" => at.pos < Len(Here(l)))
  <2>1. loop[l].pos + 1 \in 0..Len(Here(l)) /\ Len(Here(l)) \in Nat
    BY <1>1, <1>2, StoreAssumption DEF Placed, Here
  <2>2. /\ at.pos \in (loop[l].pos + 1)..Len(Here(l))
        /\ at.kind # "ok" => at.pos < Len(Here(l))
    BY <2>1, ScanStops
  <2> QED
    BY <2>1, <2>2
<1>7. CASE at.kind = "ok"
  <2> DEFINE d == [loop[l] EXCEPT !.pos = at.pos, !.pc = "test"]
  <2>1. Moved(d, loop[l]) /\ d.pc = "test" /\ d.pos = at.pos
    BY <1>2 DEF IsLoop, Moved
  <2>2. loop' = [loop EXCEPT ![l] = d]
    BY <1>4, <1>7
  <2> HIDE DEF d
  <2>3. Placed(d)
    BY <1>6, <2>1 DEF Placed, Moved, Here
  <2> QED
    BY <1>1, <1>3, <1>5, <2>1, <2>2, <2>3, MoveKeepsIInv
<1>8. CASE at.kind # "ok" /\ ViewAt(l).member = "nbt"
  BY <1>3, <1>4, <1>5, <1>8, LeaveKeepsIInv
<1>9. CASE at.kind # "ok" /\ ViewAt(l).member # "nbt"
  <2>1. PICK pc \in {"next", "test"} :
          loop' = [loop EXCEPT ![l].pos = at.pos, ![l].pc = pc, ![l].skipped = TRUE]
    BY <1>4, <1>9
  <2> DEFINE d == [loop[l] EXCEPT !.pos = at.pos, !.pc = pc, !.skipped = TRUE]
  <2>2. Moved(d, loop[l]) /\ d.pc = pc /\ d.pos = at.pos
    BY <1>2 DEF IsLoop, Moved
  <2>3. loop' = [loop EXCEPT ![l] = d]
    BY <2>1
  <2> HIDE DEF d
  <2>4. Placed(d)
    BY <1>6, <1>9, <2>2 DEF Placed, Moved, Here
  <2> QED
    BY <1>1, <1>3, <1>5, <2>2, <2>3, <2>4, MoveKeepsIInv
<1> QED
  BY <1>7, <1>8, <1>9

\* The difference of two ulongs, added to the second, is the first.
LEMMA JumpLands ==
  ASSUME NEW a \in 0..UlongMax, NEW b \in 0..UlongMax
  PROVE  Advance(a, DistanceTo(a, b)) = b
<1>1. UlongMax \in Nat
  BY StoreAssumption
<1>2. CASE a <= b
  <2>1. DistanceTo(a, b) = b - a
    BY <1>1, <1>2, SMT DEF DistanceTo
  <2> QED
    BY <1>1, <2>1, SMT DEF Advance
<1>3. CASE a > b
  <2>1. DistanceTo(a, b) = b - a + UlongMax + 1
    BY <1>1, <1>3, SMT DEF DistanceTo
  <2>2. a + (b - a + UlongMax + 1) = b + (UlongMax + 1)
    BY <1>1
  <2>3. (b + (UlongMax + 1)) % (UlongMax + 1) = b
    BY <1>1, SMT
  <2> QED
    BY <2>1, <2>2, <2>3 DEF Advance
<1> QED
  BY <1>2, <1>3, <1>1

LEMMA JumpKeepsIInv ==
  ASSUME IInv, UNCHANGED work, NEW l \in Loops, NEW back \in BOOLEAN, Jump(l, back)
  PROVE  IInv'
<1> DEFINE to == IF back THEN 0 ELSE Len(Here(l))
           pos == Advance(loop[l].pos, DistanceTo(loop[l].pos, to))
           d == [loop[l] EXCEPT !.pos = pos, !.pc = "test", !.seen = <<>>, !.skipped = ~back]
<1>1. loop[l] # None /\ UNCHANGED <<obj, faults>>
  BY DEF Jump
<1>2. loop' = [loop EXCEPT ![l] = d]
  BY DEF Jump
<1>3. IsLoop(loop[l]) /\ Placed(loop[l]) /\ Len(Here(l)) \in 0..UlongMax
  BY <1>1, LoopNow
<1>4. Stay(obj')
  BY <1>1, StayHere DEF Stay
<1>5. pos = to
  BY <1>3, JumpLands, StoreAssumption DEF Placed, Here
<1>6. Moved(d, loop[l]) /\ d.pc = "test" /\ d.pos = pos
  BY <1>3 DEF IsLoop, Moved
<1> HIDE DEF d
<1>7. Placed(d)
  BY <1>3, <1>5, <1>6, StoreAssumption DEF Placed, Moved, Here
<1> QED
  BY <1>1, <1>2, <1>4, <1>6, <1>7, MoveKeepsIInv DEF IInv

LEMMA LeaveStepKeepsIInv ==
  ASSUME IInv, UNCHANGED work, NEW l \in Loops, Leave(l)
  PROVE  IInv'
<1>1. Stay(obj')
  BY StayHere DEF Stay, Leave
<1> QED
  BY <1>1, LeaveKeepsIInv DEF Leave, IInv

LEMMA StepKeepsIInv ==
  ASSUME IInv, [Next]_vars
  PROVE  IInv'
<1>1. CASE UNCHANGED vars
  <2>1. \A l \in Loops : GoodLoop(loop[l], obj)'
    BY <1>1 DEF vars, IInv, GoodLoop, GoodTable, Placed
  <2>2. \A s \in Slots : GoodObject(obj[s])'
    BY <1>1 DEF vars, IInv, GoodObject
  <2> QED
    BY <1>1, <2>1, <2>2 DEF vars, IInv
<1>2. CASE Next
  <2>1. UNCHANGED work
    BY <1>2 DEF Next
  <2>2. ASSUME NEW s \in Slots, NEW item \in work.items, Open(s, item) PROVE IInv'
    BY <2>1, <2>2, OpenKeepsIInv
  <2>3. ASSUME NEW s \in Slots, Drop(s) PROVE IInv'
    BY <2>1, <2>3, DropKeepsIInv
  <2>4. ASSUME NEW s \in Slots, NEW t \in Slots, Copy(s, t) PROVE IInv'
    BY <2>1, <2>4, CopyKeepsIInv
  <2>5. ASSUME NEW s \in Slots, NEW t \in Slots, OpenAsMessage(s, t) PROVE IInv'
    BY <2>1, <2>5, OpenAsMessageKeepsIInv
  <2>6. ASSUME NEW s \in Slots, NEW m \in Asked, Ask(s, m) PROVE IInv'
    BY <2>1, <2>6, AskKeepsIInv
  <2>7. ASSUME NEW s \in Slots, NEW name \in Names, NEW t \in Slots, OpenByName(s, name, t) PROVE IInv'
    BY <2>1, <2>7, OpenByNameKeepsIInv
  <2>8. ASSUME NEW l \in Loops, NEW s \in Slots, NEW view \in work.views, Begin(l, s, view) PROVE IInv'
    BY <2>1, <2>8, BeginKeepsIInv
  <2>9. ASSUME NEW l \in Loops, LoopStep(l) PROVE IInv'
    BY <2>1, <2>9, TestKeepsIInv, BodyKeepsIInv, NextRowKeepsIInv DEF LoopStep
  <2>10. ASSUME NEW l \in Loops, NEW t \in Slots, Keep(l, t) PROVE IInv'
    BY <2>1, <2>10, KeepKeepsIInv
  <2>11. ASSUME NEW l \in Loops, NEW back \in BOOLEAN, Jump(l, back) PROVE IInv'
    BY <2>1, <2>11, JumpKeepsIInv
  <2>12. ASSUME NEW l \in Loops, Leave(l) PROVE IInv'
    BY <2>1, <2>12, LeaveStepKeepsIInv
  <2>13. NextCall
    BY <1>2 DEF Next
  <2> QED
    BY <2>2, <2>3, <2>4, <2>5, <2>6, <2>7, <2>8, <2>9, <2>10, <2>11, <2>12, <2>13 DEF NextCall
<1> QED
  BY <1>1, <1>2

LEMMA AlwaysIInv == Spec => []IInv
<1>1. IInv /\ [Next]_vars => IInv'
  BY StepKeepsIInv
<1> QED
  BY <1>1, InitIInv, PTL DEF Spec

-----------------------------------------------------------------------------
(***************************************************************************)
(* What a loop has visited: the rows that it was to stop at, up to where   *)
(* it is.                                                                  *)
(***************************************************************************)

\* How far a loop has come: the row it is at counts when it has been visited.
Reached(c) == IF c.pc = "next" THEN c.pos + 1 ELSE c.pos

Rises(seen, n) ==
  /\ seen \in Seq(Nat)
  /\ \A i, j \in DOMAIN seen : i < j => seen[i] < seen[j]
  /\ \A i \in DOMAIN seen : seen[i] < n

\* The view v is to stop at the row at p.
Stops(v, rows, p) == p \in 0..(Len(rows) - 1) /\ Passes(v, rows[p + 1])

\* Of the positions below n, seen has those where v stops.
Collects(seen, v, rows, n) ==
  \A p : (\E i \in DOMAIN seen : seen[i] = p) <=> Stops(v, rows, p) /\ p < n

Tracks(c) ==
  LET v == Views[c.view]
      rows == RowsAt(c.table.at)
  IN /\ Rises(c.seen, Reached(c))
     /\ ~c.skipped => Collects(c.seen, v, rows, Reached(c))
     /\ ~c.skipped /\ c.pc \in {"test", "body"} /\ c.pos < Len(rows) => Stops(v, rows, c.pos)
     /\ c.pc = "done" => c.pos = Len(rows)

CInv == \A l \in Loops : loop[l] # None => Tracks(loop[l])

\* A search that does not throw stops at the next row that passes.
LEMMA ScanFinds ==
  ASSUME NEW v, NEW rows, Len(rows) \in Nat, NEW p \in 0..Len(rows), NEW at \in Scan(v, rows, p),
         at.kind = "ok"
  PROVE  /\ at.pos \in p..Len(rows)
         /\ at.pos < Len(rows) => Stops(v, rows, at.pos)
         /\ \A q \in p..(at.pos - 1) : ~Stops(v, rows, q)
<1> DEFINE S == {j \in p..Len(rows) :
                   j < Len(rows) => Untestable(v, rows[j + 1]) \/ Passes(v, rows[j + 1])}
           q == Stop(v, rows, p)
<1>1. S \in SUBSET Nat /\ Len(rows) \in S
  OBVIOUS
<1>2. q = Least(S)
  BY DEF Stop
<1>3. q \in S /\ \A j \in S : q <= j
  BY <1>1, <1>2, LeastIsOne
<1>4. at.pos = q /\ ~(q < Len(rows) /\ Untestable(v, rows[q + 1]))
  BY DEF Scan
<1> HIDE DEF q
<1>5. ASSUME NEW k \in p..(q - 1) PROVE ~Stops(v, rows, k)
  <2>1. k \notin S /\ k \in p..Len(rows) /\ k < Len(rows)
    BY <1>3
  <2> QED
    BY <2>1 DEF Stops
<1> QED
  BY <1>3, <1>4, <1>5 DEF Stops

\* A view of all of the rows stops at each of them and never throws.
LEMMA AllStops ==
  ASSUME NEW v, v.by = "all", NEW rows
  PROVE  /\ \A p \in 0..(Len(rows) - 1) : Stops(v, rows, p)
         /\ \A p : \A at \in Scan(v, rows, p) : at.kind = "ok"
  BY DEF Stops, Passes, Scan, Untestable

LEMMA RisesNone == ASSUME NEW n PROVE Rises(<<>>, n)
  BY DEF Rises

LEMMA RisesFurther ==
  ASSUME NEW seen, NEW n \in Nat, NEW m \in Nat, n <= m, Rises(seen, n)
  PROVE  Rises(seen, m)
<1>1. \A i \in DOMAIN seen : seen[i] \in Nat
  BY DEF Rises
<1> QED
  BY <1>1 DEF Rises

\* The row that a loop is at comes after those it has visited.
LEMMA AppendRises ==
  ASSUME NEW seen, NEW n \in Nat, Rises(seen, n)
  PROVE  /\ Rises(Append(seen, n), n + 1)
         /\ \A p : (\E i \in DOMAIN Append(seen, n) : Append(seen, n)[i] = p)
                     <=> (\E i \in DOMAIN seen : seen[i] = p) \/ p = n
<1> DEFINE more == Append(seen, n)
<1>1. seen \in Seq(Nat) /\ Len(seen) \in Nat /\ DOMAIN seen = 1..Len(seen)
  BY DEF Rises
<1>2. /\ more \in Seq(Nat) /\ DOMAIN more = 1..(Len(seen) + 1)
      /\ \A i \in DOMAIN seen : more[i] = seen[i]
      /\ more[Len(seen) + 1] = n
  BY <1>1
<1> HIDE DEF more
<1>3. \A i \in DOMAIN seen : seen[i] \in Nat /\ seen[i] < n
  BY DEF Rises
<1>4. ASSUME NEW i \in DOMAIN more, NEW j \in DOMAIN more, i < j PROVE more[i] < more[j]
  <2>1. i \in DOMAIN seen /\ more[i] = seen[i] /\ seen[i] < n
    BY <1>1, <1>2, <1>3, <1>4
  <2>2. CASE j \in DOMAIN seen
    BY <1>2, <1>4, <2>1, <2>2 DEF Rises
  <2>3. CASE j \notin DOMAIN seen
    BY <1>1, <1>2, <2>1, <2>3
  <2> QED
    BY <2>2, <2>3
<1>5. \A i \in DOMAIN more : more[i] < n + 1
  BY <1>1, <1>2, <1>3
<1>6. Rises(more, n + 1)
  BY <1>2, <1>4, <1>5 DEF Rises
<1>7. \A p : (\E i \in DOMAIN more : more[i] = p) <=> (\E i \in DOMAIN seen : seen[i] = p) \/ p = n
  BY <1>1, <1>2
<1> QED
  BY <1>6, <1>7 DEF more

\* Nothing is collected on the way to the next stop.
LEMMA CollectsTo ==
  ASSUME NEW seen, NEW v, NEW rows, NEW n \in Nat, NEW m \in Nat, n <= m,
         Collects(seen, v, rows, n), \A q \in n..(m - 1) : ~Stops(v, rows, q)
  PROVE  Collects(seen, v, rows, m)
<1> SUFFICES ASSUME NEW p
             PROVE  (\E i \in DOMAIN seen : seen[i] = p) <=> Stops(v, rows, p) /\ p < m
  BY DEF Collects
<1>1. Stops(v, rows, p) => p \in Int
  BY DEF Stops
<1> QED
  BY <1>1 DEF Collects

\* A step of the loop l, seen from what it tracks.
LEMMA OneKeepsCInv ==
  ASSUME IInv, CInv, NEW l \in Loops, NEW c, c # None => Tracks(c), loop' = [loop EXCEPT ![l] = c]
  PROVE  CInv'
<1>1. \A k \in Loops : loop'[k] = IF k = l THEN c ELSE loop[k]
  BY DEF IInv
<1> QED
  BY <1>1 DEF CInv, Tracks

\* What the program does with its objects moves no loop.
LEMMA OthersKeepCInv ==
  ASSUME CInv, \A l \in Loops : \/ loop'[l] = None \/ loop'[l] = loop[l]
                                \/ loop[l] # None /\ \E S : loop'[l] = Using(loop[l], S)
  PROVE  CInv'
<1> SUFFICES ASSUME NEW l \in Loops, loop'[l] # None PROVE Tracks(loop'[l])
  BY DEF CInv, Tracks
<1>1. CASE loop'[l] = loop[l]
  BY <1>1 DEF CInv
<1>2. CASE loop[l] # None /\ \E S : loop'[l] = Using(loop[l], S)
  <2>1. loop'[l].view = loop[l].view /\ loop'[l].table = loop[l].table /\ loop'[l].pos = loop[l].pos
          /\ loop'[l].pc = loop[l].pc /\ loop'[l].seen = loop[l].seen
          /\ loop'[l].skipped = loop[l].skipped
    BY <1>2 DEF Using
  <2>2. Tracks(loop[l])
    BY <1>2 DEF CInv
  <2> QED
    BY <2>1, <2>2 DEF Tracks, Reached
<1> QED
  BY <1>1, <1>2

LEMMA WithoutIsUsing ==
  ASSUME NEW t, loop' = Without(t), DOMAIN loop = Loops
  PROVE  \A l \in Loops : loop'[l] = None \/ (loop[l] # None /\ \E S : loop'[l] = Using(loop[l], S))
  BY DEF Without

LEMMA CopyKeepsCInv ==
  ASSUME IInv, CInv, NEW s \in Slots, NEW t \in Slots, Copy(s, t)
  PROVE  CInv'
<1>1. \A l \in Loops : loop'[l] = None \/ (loop[l] # None /\ \E S : loop'[l] = Using(loop[l], S))
  BY DEF Copy, Without
<1> QED
  BY <1>1, OthersKeepCInv

LEMMA OpenByNameKeepsCInv ==
  ASSUME IInv, CInv, NEW s \in Slots, NEW t \in Slots, NEW name, OpenByName(s, name, t)
  PROVE  CInv'
<1>1. loop' = Without(t) \/ UNCHANGED loop
  BY DEF OpenByName
<1> QED
  BY <1>1, WithoutIsUsing, OthersKeepCInv DEF IInv

LEMMA BeginKeepsCInv ==
  ASSUME IInv, IInv', UNCHANGED work, CInv, NEW l \in Loops, NEW s \in Slots, NEW view,
         Begin(l, s, view)
  PROVE  CInv'
<1> DEFINE v == Views[view]
<1>1. PICK r \in Get(obj[s], v.member) :
        \/ UNCHANGED loop
        \/ \E at \in Scan(v, RowsAt(r.member.at), 0) :
             loop' = IF at.kind # "ok" THEN loop ELSE
               [loop EXCEPT ![l] =
                  [view |-> view, as |-> obj[s].as, path |-> obj[s].path,
                   with |-> {s}, table |-> r.member, pos |-> at.pos, pc |-> "test",
                   seen |-> <<>>, skipped |-> FALSE]]
  BY DEF Begin
<1>2. CASE UNCHANGED loop
  BY <1>2, OthersKeepCInv
<1>3. ASSUME NEW at \in Scan(v, RowsAt(r.member.at), 0), at.kind = "ok",
             loop' = [loop EXCEPT ![l] =
                  [view |-> view, as |-> obj[s].as, path |-> obj[s].path,
                   with |-> {s}, table |-> r.member, pos |-> at.pos, pc |-> "test",
                   seen |-> <<>>, skipped |-> FALSE]]
      PROVE  CInv'
  <2> DEFINE c == [view |-> view, as |-> obj[s].as, path |-> obj[s].path,
                   with |-> {s}, table |-> r.member, pos |-> at.pos, pc |-> "test",
                   seen |-> <<>>, skipped |-> FALSE]
             rows == RowsAt(r.member.at)
  <2>1. c.view = view /\ c.table = r.member /\ c.pos = at.pos /\ c.pc = "test" /\ c.seen = <<>>
          /\ c.skipped = FALSE
    OBVIOUS
  <2>2. loop' = [loop EXCEPT ![l] = c]
    BY <1>3
  <2> HIDE DEF c
  <2>3. c # None => Tracks(c)
    <3> SUFFICES ASSUME c # None PROVE Tracks(c)
      OBVIOUS
    <3>1. loop'[l] = c
      BY <2>2 DEF IInv
    <3>2. GoodLoop(loop[l], obj)'
      BY DEF IInv
    <3>3. GoodTable(c)
      BY <3>1, <3>2 DEF GoodLoop, GoodTable
    <3>4. Len(rows) \in Nat /\ 0 \in 0..Len(rows)
      BY <2>1, <3>3, RowsOfTable, StoreAssumption DEF IInv
    <3>5. /\ at.pos \in 0..Len(rows)
          /\ at.pos < Len(rows) => Stops(v, rows, at.pos)
          /\ \A q \in 0..(at.pos - 1) : ~Stops(v, rows, q)
      BY <1>3, <3>4, ScanFinds
    <3>6. Rises(<<>>, at.pos)
      BY RisesNone
    <3>7. Collects(<<>>, v, rows, at.pos)
      <4>1. \A p : Stops(v, rows, p) /\ p < at.pos => FALSE
        BY <3>5, <3>4 DEF Stops
      <4> QED
        BY <4>1 DEF Collects
    <3> QED
      BY <2>1, <3>5, <3>6, <3>7 DEF Tracks, Reached
  <2> QED
    BY <2>2, <2>3, OneKeepsCInv
<1> QED
  BY <1>1, <1>2, <1>3

LEMMA TestKeepsCInv ==
  ASSUME IInv, CInv, NEW l \in Loops, NEW s \in Slots, Test(l, s)
  PROVE  CInv'
<1> DEFINE c == loop[l]
           d(pc) == [c EXCEPT !.pc = pc]
<1>1. /\ c # None /\ c.pc = "test" /\ s \in c.with /\ Tracks(c)
      /\ IsLoop(c) /\ Placed(c) /\ Len(Here(l)) \in 0..UlongMax
  BY LoopNow DEF Test, CInv
<1>2. \/ UNCHANGED loop
      \/ c.pos = Len(Here(l)) /\ loop' = [loop EXCEPT ![l] = d("done")]
      \/ loop' = [loop EXCEPT ![l] = d("body")]
  BY DEF Test, Here
<1>3. ASSUME NEW pc \in {"body", "done"} PROVE d(pc).view = c.view /\ d(pc).table = c.table
          /\ d(pc).pos = c.pos /\ d(pc).pc = pc /\ d(pc).seen = c.seen /\ d(pc).skipped = c.skipped
  BY <1>1 DEF IsLoop
<1> HIDE DEF d
<1>4. CASE UNCHANGED loop
  BY <1>4, OthersKeepCInv
<1>5. CASE c.pos = Len(Here(l)) /\ loop' = [loop EXCEPT ![l] = d("done")]
  <2>1. Tracks(d("done"))
    BY <1>1, <1>3, <1>5 DEF Tracks, Reached, Here
  <2> QED
    BY <1>5, <2>1, OneKeepsCInv
<1>6. CASE loop' = [loop EXCEPT ![l] = d("body")]
  <2>1. Tracks(d("body"))
    BY <1>1, <1>3 DEF Tracks, Reached
  <2> QED
    BY <1>6, <2>1, OneKeepsCInv
<1> QED
  BY <1>2, <1>4, <1>5, <1>6 DEF Here

LEMMA BodyKeepsCInv ==
  ASSUME IInv, CInv, NEW l \in Loops, Body(l)
  PROVE  CInv'
<1> DEFINE c == loop[l]
           d == [c EXCEPT !.pc = "next", !.seen = Append(c.seen, c.pos)]
           v == Views[c.view]
           rows == RowsAt(c.table.at)
<1>1. /\ c # None /\ c.pc = "body" /\ c.pos < Len(rows) /\ Tracks(c)
      /\ IsLoop(c) /\ Placed(c) /\ Len(rows) \in 0..UlongMax
  BY LoopNow DEF Body, CInv, Here
<1>2. UNCHANGED loop \/ loop' = [loop EXCEPT ![l] = d]
  BY DEF Body
<1>3. d.view = c.view /\ d.table = c.table /\ d.pos = c.pos /\ d.pc = "next"
          /\ d.seen = Append(c.seen, c.pos) /\ d.skipped = c.skipped
  BY <1>1 DEF IsLoop
<1> HIDE DEF d
<1>4. c.pos \in Nat /\ Rises(c.seen, c.pos)
  BY <1>1, StoreAssumption DEF Placed, Tracks, Reached
<1> DEFINE more == Append(c.seen, c.pos)
<1>5. /\ Rises(more, c.pos + 1)
      /\ \A p : (\E i \in DOMAIN more : more[i] = p)
                  <=> (\E i \in DOMAIN c.seen : c.seen[i] = p) \/ p = c.pos
  BY <1>4, AppendRises
<1> HIDE DEF more
<1>6. ASSUME ~c.skipped PROVE Collects(more, v, rows, c.pos + 1)
  <2>1. Collects(c.seen, v, rows, c.pos) /\ Stops(v, rows, c.pos)
    BY <1>1, <1>6 DEF Tracks, Reached
  <2>2. \A p : Stops(v, rows, p) => p \in Int
    BY DEF Stops
  <2>3. \A p : Stops(v, rows, p) /\ p < c.pos + 1 <=> (Stops(v, rows, p) /\ p < c.pos) \/ p = c.pos
    BY <1>4, <2>1, <2>2
  <2> QED
    BY <1>5, <2>1, <2>3 DEF Collects
<1>7. Tracks(d)
  BY <1>3, <1>5, <1>6 DEF Tracks, Reached, more
<1> QED
  BY <1>2, <1>7, OneKeepsCInv, OthersKeepCInv

LEMMA NextRowKeepsCInv ==
  ASSUME IInv, CInv, NEW l \in Loops, NextRow(l)
  PROVE  CInv'
<1> DEFINE c == loop[l]
           v == Views[c.view]
           rows == RowsAt(c.table.at)
<1>1. /\ c # None /\ c.pc = "next" /\ c.pos < Len(rows) /\ Tracks(c)
      /\ IsLoop(c) /\ Placed(c) /\ Len(rows) \in 0..UlongMax
  BY LoopNow DEF NextRow, CInv, Here
<1>2. PICK at \in Scan(v, rows, c.pos + 1) :
        IF at.kind = "ok"
          THEN loop' = [loop EXCEPT ![l].pos = at.pos, ![l].pc = "test"]
          ELSE IF v.member = "nbt" THEN loop' = [loop EXCEPT ![l] = None]
          ELSE \E pc \in {"next", "test"} :
                 loop' = [loop EXCEPT ![l].pos = at.pos, ![l].pc = pc, ![l].skipped = TRUE]
  BY DEF NextRow, ViewAt, Here
<1>3. c.pos \in Nat /\ Len(rows) \in Nat /\ c.pos + 1 \in 0..Len(rows)
  BY <1>1, StoreAssumption DEF Placed
<1>4. /\ Rises(c.seen, c.pos + 1)
      /\ ~c.skipped => Collects(c.seen, v, rows, c.pos + 1)
  BY <1>1 DEF Tracks, Reached
<1>5. CASE at.kind = "ok"
  <2> DEFINE d == [c EXCEPT !.pos = at.pos, !.pc = "test"]
  <2>1. d.view = c.view /\ d.table = c.table /\ d.pos = at.pos /\ d.pc = "test"
          /\ d.seen = c.seen /\ d.skipped = c.skipped
    BY <1>1 DEF IsLoop
  <2>2. loop' = [loop EXCEPT ![l] = d]
    BY <1>2, <1>5
  <2> HIDE DEF d
  <2>3. /\ at.pos \in (c.pos + 1)..Len(rows)
        /\ at.pos < Len(rows) => Stops(v, rows, at.pos)
        /\ \A q \in (c.pos + 1)..(at.pos - 1) : ~Stops(v, rows, q)
    BY <1>3, <1>5, ScanFinds
  <2>4. at.pos \in Nat /\ c.pos + 1 \in Nat /\ c.pos + 1 <= at.pos
    BY <1>3, <2>3
  <2>5. Rises(c.seen, at.pos)
    BY <1>4, <2>4, RisesFurther
  <2>6. ~c.skipped => Collects(c.seen, v, rows, at.pos)
    BY <1>4, <2>3, <2>4, CollectsTo
  <2>7. Tracks(d)
    BY <2>1, <2>3, <2>5, <2>6 DEF Tracks, Reached
  <2> QED
    BY <2>2, <2>7, OneKeepsCInv
<1>6. CASE at.kind # "ok" /\ v.member = "nbt"
  BY <1>2, <1>6, OneKeepsCInv
<1>7. CASE at.kind # "ok" /\ v.member # "nbt"
  <2>1. PICK pc \in {"next", "test"} :
          loop' = [loop EXCEPT ![l].pos = at.pos, ![l].pc = pc, ![l].skipped = TRUE]
    BY <1>2, <1>7
  <2> DEFINE d == [c EXCEPT !.pos = at.pos, !.pc = pc, !.skipped = TRUE]
  <2>2. d.view = c.view /\ d.table = c.table /\ d.pos = at.pos /\ d.pc = pc
          /\ d.seen = c.seen /\ d.skipped = TRUE
    BY <1>1 DEF IsLoop
  <2>3. loop' = [loop EXCEPT ![l] = d]
    BY <2>1
  <2> HIDE DEF d
  <2>4. at.pos \in (c.pos + 1)..Len(rows)
    BY <1>3, ScanStops
  <2>5. Reached(d) \in Nat /\ c.pos + 1 \in Nat /\ c.pos + 1 <= Reached(d)
    BY <1>3, <2>2, <2>4 DEF Reached
  <2>6. Rises(c.seen, Reached(d))
    BY <1>4, <2>5, RisesFurther
  <2>7. Tracks(d)
    BY <2>2, <2>6 DEF Tracks
  <2> QED
    BY <2>3, <2>7, OneKeepsCInv
<1> QED
  BY <1>2, <1>5, <1>6, <1>7

LEMMA JumpKeepsCInv ==
  ASSUME IInv, CInv, NEW l \in Loops, NEW back \in BOOLEAN, Jump(l, back)
  PROVE  CInv'
<1> DEFINE c == loop[l]
           v == Views[c.view]
           rows == RowsAt(c.table.at)
           to == IF back THEN 0 ELSE Len(rows)
           pos == Advance(c.pos, DistanceTo(c.pos, to))
           d == [c EXCEPT !.pos = pos, !.pc = "test", !.seen = <<>>, !.skipped = ~back]
<1>1. /\ c # None /\ v.by = "all"
      /\ IsLoop(c) /\ Placed(c) /\ Len(rows) \in 0..UlongMax
  BY LoopNow DEF Jump, Here, ViewAt
<1>2. loop' = [loop EXCEPT ![l] = d]
  BY DEF Jump, Here
<1>3. pos = to
  BY <1>1, JumpLands, StoreAssumption DEF Placed
<1>4. d.view = c.view /\ d.table = c.table /\ d.pos = pos /\ d.pc = "test"
          /\ d.seen = <<>> /\ d.skipped = ~back
  BY <1>1 DEF IsLoop
<1> HIDE DEF d
<1>5. ASSUME back PROVE Collects(<<>>, v, rows, 0) /\ (0 < Len(rows) => Stops(v, rows, 0))
  <2>1. \A p : ~(Stops(v, rows, p) /\ p < 0)
    BY DEF Stops
  <2>2. 0 < Len(rows) => Stops(v, rows, 0)
    BY <1>1, AllStops, StoreAssumption
  <2> QED
    BY <2>1, <2>2 DEF Collects
<1>6. Tracks(d)
  BY <1>3, <1>4, <1>5, RisesNone DEF Tracks, Reached
<1> QED
  BY <1>2, <1>6, OneKeepsCInv

LEMMA StepKeepsCInv ==
  ASSUME IInv, IInv', CInv, [Next]_vars
  PROVE  CInv'
<1>1. CASE UNCHANGED vars
  BY <1>1, OthersKeepCInv DEF vars
<1>2. CASE Next
  <2>1. ASSUME NEW t \in Slots, loop' = Without(t) PROVE CInv'
    BY <2>1, WithoutIsUsing, OthersKeepCInv DEF IInv
  <2>2. ASSUME UNCHANGED loop PROVE CInv'
    BY <2>2, OthersKeepCInv
  <2>3. ASSUME NEW s \in Slots, NEW item \in work.items, Open(s, item) PROVE CInv'
    BY <2>1, <2>3 DEF Open, Put
  <2>4. ASSUME NEW s \in Slots, Drop(s) PROVE CInv'
    BY <2>1, <2>4 DEF Drop, Put
  <2>5. ASSUME NEW s \in Slots, NEW t \in Slots, Copy(s, t) PROVE CInv'
    BY <2>5, CopyKeepsCInv
  <2>6. ASSUME NEW s \in Slots, NEW t \in Slots, OpenAsMessage(s, t) PROVE CInv'
    BY <2>1, <2>6 DEF OpenAsMessage, Put
  <2>7. ASSUME NEW s \in Slots, NEW m \in Asked, Ask(s, m) PROVE CInv'
    BY <2>2, <2>7 DEF Ask
  <2>8. ASSUME NEW s \in Slots, NEW name \in Names, NEW t \in Slots, OpenByName(s, name, t) PROVE CInv'
    BY <2>8, OpenByNameKeepsCInv
  <2>9. ASSUME NEW l \in Loops, NEW s \in Slots, NEW view \in work.views, Begin(l, s, view) PROVE CInv'
    BY <1>2, <2>9, BeginKeepsCInv DEF Next
  <2>10. ASSUME NEW l \in Loops, LoopStep(l) PROVE CInv'
    BY <2>10, TestKeepsCInv, BodyKeepsCInv, NextRowKeepsCInv DEF LoopStep
  <2>11. ASSUME NEW l \in Loops, NEW t \in Slots, Keep(l, t) PROVE CInv'
    BY <2>1, <2>11 DEF Keep, Put
  <2>12. ASSUME NEW l \in Loops, NEW back \in BOOLEAN, Jump(l, back) PROVE CInv'
    BY <2>12, JumpKeepsCInv
  <2>13. ASSUME NEW l \in Loops, Leave(l) PROVE CInv'
    <3>1. loop' = [loop EXCEPT ![l] = None]
      BY <2>13 DEF Leave
    <3> QED
      BY <3>1, OneKeepsCInv
  <2>14. NextCall
    BY <1>2 DEF Next
  <2> QED
    BY <2>3, <2>4, <2>5, <2>6, <2>7, <2>8, <2>9, <2>10, <2>11, <2>12, <2>13, <2>14 DEF NextCall
<1> QED
  BY <1>1, <1>2

LEMMA AlwaysCInv == Spec => []CInv
<1>1. Init => CInv
  BY DEF Init, CInv
<1>2. CInv /\ IInv /\ IInv' /\ [Next]_vars => CInv'
  BY StepKeepsCInv
<1> QED
  BY <1>1, <1>2, AlwaysIInv, PTL DEF Spec

-----------------------------------------------------------------------------

\* The types: objects are those the program works with, positions are in the
\* range of ulong (message.h, folder.h, table.h:83-122).
THEOREM TypeCorrect == Spec => []TypeOK
<1>1. IInv => TypeOK
  <2> SUFFICES ASSUME IInv PROVE TypeOK
    OBVIOUS
  <2>1. \A s \in Slots : Holds(s) =>
          Item(obj[s].as, obj[s].path) \in work.items /\ DOMAIN obj[s].cache \subseteq Members(obj[s].as)
    BY DEF IInv, GoodObject, Holds
  <2>2. ASSUME NEW l \in Loops, loop[l] # None
        PROVE  /\ Item(loop[l].as, loop[l].path) \in work.items
               /\ loop[l].view \in ViewsOf(loop[l].as)
               /\ loop[l].with \subseteq Slots
               /\ loop[l].pos \in 0..UlongMax
               /\ loop[l].pc \in {"test", "body", "next", "done"}
    BY <2>2, LoopNow, StoreAssumption DEF GoodTable, Placed, Here
  <2> QED
    BY <2>1, <2>2 DEF TypeOK, IInv
<1> QED
  BY <1>1, AlwaysIInv, PTL

\* What an object keeps is what the store has for it, through failing reads,
\* copies and any order of calls (message.h:391-434, folder.h:253-330).
THEOREM KeptIsTheStores == Spec => []CachedRight
<1>1. IInv => CachedRight
  BY DEF IInv, GoodObject, GoodMember, CachedRight, Holds
<1> QED
  BY <1>1, AlwaysIInv, PTL

\* A loop stays in the table of its object, which end() gives again
\* (table.h:83-122, message.h:404-434).
THEOREM LoopsStayInTheirTable == Spec => []LoopsRight
<1>1. IInv => LoopsRight
  <2> SUFFICES ASSUME IInv, NEW l \in Loops, loop[l] # None
               PROVE  LET m == ViewAt(l).member
                      IN /\ loop[l].table.at =
                              IF m = "nbt" THEN <<>> ELSE Truth(loop[l].as, loop[l].path, m)
                         /\ loop[l].pos <= Len(Here(l))
                         /\ loop[l].pc \in {"body", "next"} => loop[l].pos < Len(Here(l))
                         /\ \A s \in loop[l].with :
                              /\ Holds(s) /\ obj[s].as = loop[l].as /\ obj[s].path = loop[l].path
                              /\ m # "nbt" => m \in DOMAIN obj[s].cache /\ obj[s].cache[m] = loop[l].table
    BY DEF LoopsRight
  <2>1. ViewsOf("none") = {}
    BY DEF ViewsOf
  <2>2. GoodTable(loop[l]) /\ Placed(loop[l]) /\ Len(Here(l)) \in 0..UlongMax
        /\ \A s \in loop[l].with : s \in Slots /\ Ends(obj[s], loop[l])
    BY LoopNow
  <2> QED
    BY <2>1, <2>2, StoreAssumption DEF GoodTable, Placed, Ends, Here, ViewAt, Holds
<1> QED
  BY <1>1, AlwaysIInv, PTL
\* No row is visited twice or out of order, and a loop that no ++ of which has
\* thrown ends with each row that it was to stop at visited (table.h:108-116,
\* pstutil.h:70-88).
THEOREM LoopsVisitAll == Spec => []LoopsComplete
<1>1. IInv /\ CInv => LoopsComplete
  <2> SUFFICES ASSUME IInv, CInv, NEW l \in Loops, loop[l] # None
               PROVE  LET seen == loop[l].seen
                          visited == {seen[i] : i \in DOMAIN seen}
                      IN /\ \A i, j \in DOMAIN seen : i < j => seen[i] < seen[j]
                         /\ ~loop[l].skipped => visited \subseteq Wanted(l)
                         /\ loop[l].pc = "done" /\ ~loop[l].skipped => visited = Wanted(l)
    BY DEF LoopsComplete
  <2> DEFINE c == loop[l]
             v == Views[c.view]
             rows == RowsAt(c.table.at)
             visited == {c.seen[i] : i \in DOMAIN c.seen}
  <2>1. Tracks(c) /\ Len(rows) \in Nat
    BY LoopNow, StoreAssumption DEF CInv, Here
  <2>2. \A p : p \in Wanted(l) <=> Stops(v, rows, p)
    BY DEF Wanted, Stops, Here, ViewAt
  <2>3. \A p : p \in visited <=> \E i \in DOMAIN c.seen : c.seen[i] = p
    OBVIOUS
  <2>4. \A i, j \in DOMAIN c.seen : i < j => c.seen[i] < c.seen[j]
    BY <2>1 DEF Tracks, Rises
  <2> HIDE DEF visited
  <2>5. ASSUME ~c.skipped PROVE visited \subseteq Wanted(l)
    BY <2>1, <2>2, <2>3, <2>5 DEF Tracks, Collects
  <2>6. ASSUME c.pc = "done", ~c.skipped PROVE visited = Wanted(l)
    <3>1. Collects(c.seen, v, rows, Len(rows))
      BY <2>1, <2>6 DEF Tracks, Reached
    <3>2. \A p : Stops(v, rows, p) => p < Len(rows)
      BY <2>1 DEF Stops
    <3>3. \A p : p \in visited <=> p \in Wanted(l)
      BY <2>2, <2>3, <3>1, <3>2 DEF Collects
    <3> QED
      BY <3>3
  <2> QED
    BY <2>4, <2>5, <2>6 DEF visited
<1> QED
  BY <1>1, AlwaysIInv, AlwaysCInv, PTL

-----------------------------------------------------------------------------
(***************************************************************************)
(* What the calls answer.                                                  *)
(***************************************************************************)

\* The item of an object is well formed.
LEMMA ObjectWellFormed ==
  ASSUME IInv, NEW s \in Slots, Holds(s)
  PROVE  WellFormed(Item(obj[s].as, obj[s].path))
  BY FormatAssumption DEF IInv, GoodObject, Holds

LEMMA MembersAnswer ==
  ASSUME IInv, NEW s \in Slots, Holds(s), NEW m \in Members(obj[s].as)
  PROVE  MemberRight(s, m)
<1> DEFINE o == obj[s]
           at == Truth(o.as, o.path, m)
<1> SUFFICES ASSUME NEW r \in Get(o, m), r.kind # "failed"
             PROVE  IF at = None /\ o.as # "message" THEN r.kind = "key_not_found"
                    ELSE r.kind = "ok" /\ r.member.at = at
  BY DEF MemberRight, Size
<1>1. GoodObject(o) /\ o.as # "none" /\ WellFormed(Item(o.as, o.path))
  BY ObjectWellFormed DEF IInv, Holds
<1>2. m # "nbt"
  BY DEF Members
<1>3. CASE m \in DOMAIN o.cache
  BY <1>1, <1>2, <1>3 DEF Get, GoodObject, GoodMember
<1>4. CASE m \notin DOMAIN o.cache
  <2> DEFINE found == OpenMember(o.as, o.path, m)
  <2>1. IF at = None /\ o.as # "message" THEN found.kind = "key_not_found"
        ELSE found.kind = "ok" /\ found.at = at
    BY <1>1, OpenedIsThere
  <2>2. r.kind = found.kind /\ r.member.at = found.at
    BY <1>2, <1>4 DEF Get
  <2> QED
    BY <2>1, <2>2
<1> QED
  BY <1>3, <1>4

\* A search by name is of a table of folders.
LEMMA NamesAnswer ==
  ASSUME IInv, NEW s \in Slots, Holds(s), obj[s].as \in {"folder", "pst"}, NEW name
  PROVE  ByNameRight(s, name)
<1> DEFINE o == obj[s]
           at == IF o.as = "pst" THEN <<>> ELSE Place("folder", o.path, "hierarchy_table")
           rows == Rows[at]
           Named(i) == NidType(rows[i].id) = TypeFolder /\ Props[<<rows[i].id>>].name = name
<1> SUFFICES ASSUME NEW r \in Get(o, Folders(o)), r.kind = "ok"
             PROVE  LET found == FindByName(RowsAt(r.member.at), name)
                    IN IF \E i \in DOMAIN rows : Named(i)
                         THEN \E i \in DOMAIN rows :
                                Named(i) /\ found = Found(<<rows[i].id>>)
                                         /\ \A j \in 1..(i - 1) : ~Named(j)
                         ELSE found.kind = "key_not_found"
  BY DEF ByNameRight
<1>1. GoodObject(o) /\ o.as # "none" /\ Item(o.as, o.path) \in work.items /\ work \in Works
  BY DEF IInv, GoodObject, Holds
<1>2. at \in DOMAIN Rows /\ r.member.at = at /\ (at = <<>> \/ NidType(Last(at)) = TypeHierarchyTable)
  <2>1. CASE o.as = "pst"
    BY <2>1, StoreAssumption DEF Get, Folders, Nbt
  <2>2. CASE o.as = "folder"
    <3>1. Folders(o) = "hierarchy_table" /\ Folders(o) \in Members(o.as) \cap Tables /\ Folders(o) # "nbt"
      BY <2>2 DEF Folders, Members, Tables
    <3>2. GoodMember(o.as, o.path, Folders(o), r.member)
      BY <1>1, <3>1, GetGives
    <3>3. r.member.at # None /\ r.member.at = Truth(o.as, o.path, "hierarchy_table")
      BY <2>2, <3>1, <3>2 DEF GoodMember
    <3>4. r.member.at = at /\ at \in Nodes
      BY <2>2, <3>3 DEF Truth
    <3>5. at \in DOMAIN Rows
      <4>1. Item(o.as, o.path).as = o.as /\ Item(o.as, o.path).path = o.path
        BY DEF Item
      <4> QED
        BY <1>1, <2>2, <3>1, <3>4, <4>1, TablesAssumption
    <3>6. NidType(Last(at)) = TypeHierarchyTable
      <4> DEFINE n == MakeNid(TypeHierarchyTable, NidIndex(Last(o.path)))
      <4>1. at = <<n>>
        BY <2>2 DEF Place
      <4>2. Last(at) = n
        BY <4>1 DEF Last
      <4>3. Last(o.path) \in Nat
        BY <1>1, <2>2, FormatAssumption DEF WellFormed, Item, Last
      <4>4. NidType(n) = 13
        BY <4>3, SMT DEF NidType, MakeNid, NidIndex, TypeHierarchyTable
      <4> QED
        BY <4>2, <4>4 DEF TypeHierarchyTable
    <3> QED
      BY <3>4, <3>5, <3>6
  <2> QED
    BY <2>1, <2>2
<1>3. RowsAt(r.member.at) = rows
  BY <1>2, StoreAssumption DEF RowsAt, Nodes
<1>4. /\ DOMAIN rows = 1..Len(rows) /\ Len(rows) \in Nat
      /\ \A i \in DOMAIN rows :
           NidType(rows[i].id) = TypeFolder => "name" \in DOMAIN Props[<<rows[i].id>>]
  BY <1>2, FormatAssumption, StoreAssumption
<1> DEFINE halts == {i \in DOMAIN rows : Named(i)}
           found == FindByName(rows, name)
<1>5. {i \in {j \in DOMAIN rows : NidType(rows[j].id) = TypeFolder} :
         "name" \in DOMAIN Props[<<rows[i].id>>] => Props[<<rows[i].id>>].name = name} = halts
  BY <1>4
<1> DEFINE first == <<rows[Least(halts)].id>>
<1>6. found = IF halts = {} THEN Threw("key_not_found")
              ELSE IF "name" \notin DOMAIN Props[first] THEN Threw("key_not_found")
              ELSE Found(first)
  BY <1>5 DEF FindByName
<1> HIDE DEF Named, found
<1>7. CASE halts = {}
  <2>1. found.kind = "key_not_found" /\ ~ \E i \in DOMAIN rows : Named(i)
    BY <1>6, <1>7 DEF Threw
  <2> QED
    BY <1>3, <2>1 DEF found, Named
<1>8. CASE halts # {}
  <2>1. Least(halts) \in halts /\ \A i \in halts : Least(halts) <= i
    <3>1. halts \in SUBSET Nat
      BY <1>4
    <3> QED
      BY <1>8, <3>1, LeastIsOne
  <2>2. found = Found(first)
    BY <1>4, <1>6, <1>8, <2>1 DEF Named
  <2> DEFINE k == Least(halts)
  <2>3. \A j \in 1..(k - 1) : ~Named(j)
    <3> SUFFICES ASSUME NEW j \in 1..(k - 1), Named(j) PROVE FALSE
      OBVIOUS
    <3>1. j \in halts
      BY <1>4, <2>1
    <3>2. k \in Nat
      BY <1>4, <2>1
    <3>3. k <= j
      BY <2>1, <3>1
    <3> QED
      BY <3>2, <3>3
  <2>4. k \in DOMAIN rows /\ Named(k) /\ found = Found(<<rows[k].id>>)
    BY <2>1, <2>2
  <2> HIDE DEF k, halts
  <2> QED
    BY <1>3, <2>3, <2>4 DEF found, Named
<1> QED
  BY <1>7, <1>8

\* The four bytes of an entry id are those of the nid.
LEMMA BytesOfNid ==
  ASSUME NEW nid \in Nat
  PROVE  /\ Bytes(nid) = <<nid % 256, (nid \div 256) % 256, (nid \div 65536) % 256, nid \div 16777216>>
         /\ nid = Bytes(nid)[1] + 256 * (Bytes(nid)[2] + 256 * (Bytes(nid)[3] + 256 * Bytes(nid)[4]))
<1>1. /\ nid = (nid % 256) + 256 * (nid \div 256)
      /\ nid \div 256 = ((nid \div 256) % 256) + 256 * (nid \div 65536)
      /\ nid \div 65536 = ((nid \div 65536) % 256) + 256 * (nid \div 16777216)
  BY SMT
<1> QED
  BY <1>1 DEF Bytes

Texts == Seq(Nat)

LEMMA Joined ==
  ASSUME NEW s \in Texts, NEW t \in Texts
  PROVE  /\ s \o t \in Texts /\ Len(s \o t) = Len(s) + Len(t)
         /\ \A i \in 1 .. Len(s) + Len(t) :
              (s \o t)[i] = IF i <= Len(s) THEN s[i] ELSE t[i - Len(s)]
BY ConcatProperties DEF Texts

LEMMA Length ==
  ASSUME NEW s \in Texts
  PROVE  /\ Len(s) \in Nat /\ DOMAIN s = 1..Len(s)
         /\ \A i \in 1..Len(s) : s[i] \in Nat
         /\ s = <<>> <=> Len(s) = 0
BY EmptySeq, LenProperties DEF Texts

LEMMA Cut ==
  ASSUME NEW s \in Texts, NEW m \in Nat, NEW n \in Nat, 1 <= m, n <= Len(s)
  PROVE  /\ SubSeq(s, m, n) \in Texts
         /\ Len(SubSeq(s, m, n)) = IF m <= n THEN n - m + 1 ELSE 0
         /\ \A i \in 1..n - m + 1 : SubSeq(s, m, n)[i] = s[m + i - 1]
<1>1. \A i \in m..n : s[i] \in Nat
  BY Length
<1> QED
  BY <1>1, SubSeqProperties DEF Texts

LEMMA SameText ==
  ASSUME NEW s \in Texts, NEW t \in Texts, Len(s) = Len(t), \A i \in 1..Len(s) : s[i] = t[i]
  PROVE  s = t
BY SeqEqual DEF Texts

\* The parts of an entry id.
LEMMA ThreeJoined ==
  ASSUME NEW key \in Texts, NEW head \in Texts, Len(head) = 4, NEW tail \in Texts, Len(tail) = 4
  PROVE  LET all == head \o key \o tail
             n == Len(all)
         IN /\ n = Len(key) + 8 /\ SubSeq(all, 5, n - 4) = key
            /\ \A i \in 1..4 : all[n - 4 + i] = tail[i]
<1> DEFINE front == head \o key
           all == front \o tail
           n == Len(all)
<1>1. Len(key) \in Nat
  BY Length
<1>2. front \in Texts /\ Len(front) = 4 + Len(key)
  BY Joined
<1>3. \A i \in 1..Len(key) : front[4 + i] = key[i]
  <2> SUFFICES ASSUME NEW i \in 1..Len(key) PROVE front[4 + i] = key[i]
    OBVIOUS
  <2>1. 4 + i \in 1..(Len(head) + Len(key)) /\ ~(4 + i <= Len(head)) /\ (4 + i) - Len(head) = i
    BY <1>1
  <2>2. \A j \in 1 .. Len(head) + Len(key) :
          front[j] = IF j <= Len(head) THEN head[j] ELSE key[j - Len(head)]
    BY Joined
  <2> HIDE DEF front
  <2> QED
    BY <2>1, <2>2
<1> HIDE DEF front
<1>4. /\ all \in Texts /\ Len(all) = Len(front) + Len(tail)
      /\ \A i \in 1 .. Len(front) + Len(tail) :
           all[i] = IF i <= Len(front) THEN front[i] ELSE tail[i - Len(front)]
  BY <1>2, Joined
<1> HIDE DEF all
<1>8. n = Len(key) + 8
  BY <1>1, <1>2, <1>4
<1>5. ASSUME NEW i \in 1..Len(key) PROVE all[4 + i] = key[i]
  <2>1. 4 + i \in 1..(Len(front) + Len(tail)) /\ 4 + i <= Len(front)
    BY <1>1, <1>2
  <2> QED
    BY <1>3, <1>4, <2>1
<1>6. ASSUME NEW i \in 1..4 PROVE all[n - 4 + i] = tail[i]
  <2>1. /\ n - 4 + i \in 1..(Len(front) + Len(tail)) /\ ~(n - 4 + i <= Len(front))
        /\ (n - 4 + i) - Len(front) = i
    BY <1>1, <1>2, <1>8
  <2> QED
    BY <1>4, <2>1
<1>7. SubSeq(all, 5, n - 4) = key
  <2> DEFINE sub == SubSeq(all, 5, n - 4)
  <2>1. n - 4 \in Nat /\ n - 4 <= Len(all) /\ n - 4 - 5 + 1 = Len(key)
    BY <1>1, <1>8
  <2>2. /\ sub \in Texts /\ Len(sub) = IF 5 <= n - 4 THEN n - 4 - 5 + 1 ELSE 0
        /\ \A i \in 1..n - 4 - 5 + 1 : sub[i] = all[5 + i - 1]
    BY <1>4, <2>1, Cut
  <2> HIDE DEF sub, n
  <2>3. Len(sub) = Len(key)
    BY <1>1, <2>1, <2>2
  <2>4. ASSUME NEW i \in 1..Len(key) PROVE sub[i] = key[i]
    <3>1. i \in 1..n - 4 - 5 + 1 /\ 5 + i - 1 = 4 + i
      BY <2>1
    <3> QED
      BY <1>5, <2>2, <3>1
  <2>5. sub = key
    BY <2>2, <2>3, <2>4, SameText
  <2> QED
    BY <2>5 DEF sub, n
<1> QED
  BY <1>6, <1>7, <1>8 DEF all, front

LEMMA Small ==
  ASSUME NEW n \in Nat
  PROVE  /\ n # 0 /\ ~(n > 1) => n = 1
         /\ n # 0 /\ n # 1 => n >= 2
         /\ n >= 2 /\ n # 2 => 3 <= n
OBVIOUS

LEMMA EntryIdAnswers ==
  ASSUME NEW as, NEW path, as # "pst", WellFormed(Item(as, path))
  PROVE  EntryIdRight(path)
<1>1. path \in Texts /\ Len(path) \in Nat /\ Len(path) # 0 /\ \A i \in 1..Len(path) : path[i] \in Nat
  BY Length DEF WellFormed, Item, Texts
<1>2. CASE Len(path) > 1 \/ ~IsPst
  <2>1. Len(path) # 1 \/ ~IsPst
    BY <1>2
  <2>2. EntryId(path).kind = "key_not_found"
    BY <2>1 DEF EntryId
  <2> QED
    BY <1>2, <2>2 DEF EntryIdRight
<1>3. CASE ~(Len(path) > 1 \/ ~IsPst)
  <2> DEFINE key == Props[<<NidMessageStore>>].record_key
             tail == Bytes(path[1])
             value == <<0, 0, 0, 0>> \o key \o tail
             n == Len(value)
  <2>1. Len(path) = 1 /\ IsPst /\ path[1] \in Nat
    <3>1. Len(path) = 1
      BY <1>1, <1>3, Small
    <3>2. 1 \in 1..Len(path)
      BY <3>1
    <3> QED
      BY <1>1, <1>3, <3>1, <3>2
  <2>2. EntryId(path) = [kind |-> "ok", value |-> value]
    BY <2>1 DEF EntryId
  <2>3. key \in Texts /\ <<0, 0, 0, 0>> \in Texts /\ Len(<<0, 0, 0, 0>>) = 4
    BY <2>1, FormatAssumption DEF Texts
  <2>4. tail \in Texts /\ Len(tail) = 4
    <3>1. /\ path[1] % 256 \in Nat /\ (path[1] \div 256) % 256 \in Nat
          /\ (path[1] \div 65536) % 256 \in Nat /\ path[1] \div 16777216 \in Nat
      BY <2>1, SMT
    <3> QED
      BY <3>1 DEF Bytes, Texts
  <2>5. path[1] = tail[1] + 256 * (tail[2] + 256 * (tail[3] + 256 * tail[4]))
    BY <2>1, BytesOfNid
  <2> HIDE DEF key, tail
  <2>6. /\ n = Len(key) + 8 /\ SubSeq(value, 5, n - 4) = key
        /\ \A i \in 1..4 : value[n - 4 + i] = tail[i]
    BY <2>3, <2>4, ThreeJoined
  <2>7. n \in Nat
    BY <2>3, <2>6, Length
  <2> HIDE DEF value
  <2>8. value[n - 3] = tail[1] /\ value[n - 2] = tail[2] /\ value[n - 1] = tail[3] /\ value[n] = tail[4]
    <3>1. n - 4 + 1 = n - 3 /\ n - 4 + 2 = n - 2 /\ n - 4 + 3 = n - 1 /\ n - 4 + 4 = n
      BY <2>7
    <3>2. 1 \in 1..4 /\ 2 \in 1..4 /\ 3 \in 1..4 /\ 4 \in 1..4
      OBVIOUS
    <3> QED
      BY <2>6, <3>1, <3>2
  <2>9. EntryId(path).kind = "ok" /\ EntryId(path).value = value
    BY <2>2
  <2> QED
    BY <1>3, <2>5, <2>6, <2>8, <2>9 DEF EntryIdRight, key
<1> QED
  BY <1>2, <1>3

LEMMA SubjectAnswers ==
  ASSUME NEW as \in {"message", "task"}, NEW path, WellFormed(Item(as, path))
  PROVE  SubjectRight(path)
<1> DEFINE text == Props[path].subject
           r == GetSubject(path)
<1>1. "subject" \in DOMAIN Props[path] /\ text \in Texts /\ text # <<Lead>>
  BY DEF WellFormed, Item, Texts
<1>2. r = Stripped(text)
  <2> DEFINE ids == <<"subject">>
             there == {i \in DOMAIN ids : ids[i] \in DOMAIN Props[path]}
  <2>1. there = {1} /\ ids[1] = "subject"
    BY <1>1
  <2>2. Least({1}) = 1
    BY LeastIsOne
  <2>3. Read(path, ids) = [kind |-> "ok", value |-> Props[path].subject]
    BY <2>1, <2>2 DEF Read
  <2> QED
    BY <2>3 DEF GetSubject
<1> HIDE DEF text, r
<1>3. CASE text # <<>> /\ text[1] = Lead
  <2>1. Len(text) \in Nat /\ Len(text) >= 2
    <3>1. Len(text) \in Nat /\ Len(text) # 0
      BY <1>1, <1>3, Length
    <3>2. Len(text) = 1 => text = <<Lead>>
      <4>1. <<Lead>> \in Texts /\ Len(<<Lead>>) = 1 /\ <<Lead>>[1] = Lead
        BY DEF Lead, Texts
      <4> QED
        BY <1>1, <1>3, <4>1, SameText
    <3> QED
      BY <1>1, <3>1, <3>2, Small
  <2>2. r.kind = "ok" /\ r.value = SubSeq(text, 3, Len(text))
    BY <1>2, <1>3, <2>1 DEF Stripped
  <2>3. <<Lead, text[2]>> \o SubSeq(text, 3, Len(text)) = text
    <3> DEFINE rest == SubSeq(text, 3, Len(text))
               two == <<Lead, text[2]>>
               whole == two \o rest
    <3>1. two \in Texts /\ Len(two) = 2 /\ two[1] = text[1] /\ two[2] = text[2]
      <4>1. Lead \in Nat /\ text[2] \in Nat
        BY <1>1, <2>1, Length DEF Lead
      <4> QED
        BY <1>3, <4>1 DEF Texts
    <3>2. /\ rest \in Texts
          /\ Len(rest) = IF 3 <= Len(text) THEN Len(text) - 3 + 1 ELSE 0
          /\ \A i \in 1..Len(text) - 3 + 1 : rest[i] = text[3 + i - 1]
      BY <1>1, <2>1, Cut
    <3> HIDE DEF rest, two
    <3>3. Len(rest) = Len(text) - 2
      <4>1. CASE Len(text) = 2
        BY <3>2, <4>1
      <4>2. CASE 3 <= Len(text)
        BY <2>1, <3>2, <4>2
      <4> QED
        BY <2>1, <4>1, <4>2, Small
    <3>4. /\ whole \in Texts /\ Len(whole) = Len(two) + Len(rest)
          /\ \A i \in 1 .. Len(two) + Len(rest) :
               whole[i] = IF i <= Len(two) THEN two[i] ELSE rest[i - Len(two)]
      BY <3>1, <3>2, Joined
    <3> HIDE DEF whole
    <3>5. Len(whole) = Len(text)
      BY <2>1, <3>1, <3>3, <3>4
    <3>6. ASSUME NEW i \in 1..Len(whole) PROVE whole[i] = text[i]
      <4>1. CASE i <= 2
        BY <2>1, <3>1, <3>4, <3>5, <4>1
      <4>2. CASE i > 2
        <5>1. whole[i] = rest[i - 2]
          BY <3>1, <3>4, <4>2
        <5>2. i - 2 \in 1..Len(text) - 3 + 1 /\ 3 + (i - 2) - 1 = i
          BY <2>1, <3>5, <4>2
        <5> QED
          BY <3>2, <5>1, <5>2
      <4> QED
        BY <4>1, <4>2, <2>1, <3>5
    <3>7. whole = text
      BY <1>1, <3>4, <3>5, <3>6, SameText
    <3> QED
      BY <3>7 DEF whole, two, rest
  <2> QED
    BY <1>3, <2>2, <2>3 DEF SubjectRight, text, r
<1>4. CASE ~(text # <<>> /\ text[1] = Lead)
  <2>1. r.kind = "ok" /\ r.value = text
    BY <1>2, <1>4 DEF Stripped
  <2> QED
    BY <1>4, <2>1 DEF SubjectRight, text, r
<1> QED
  BY <1>3, <1>4

LEMMA AttachmentAnswers ==
  ASSUME NEW path, WellFormed(Item("attachment", path))
  PROVE  AttachmentRight(path)
<1> DEFINE ids == <<"long_filename", "filename">>
           there == {i \in DOMAIN ids : ids[i] \in DOMAIN Props[path]}
<1>1. /\ {"filename", "long_filename"} \cap DOMAIN Props[path] # {}
      /\ "method" \in DOMAIN Props[path]
      /\ Props[path].method = 5 => Append(path, Props[path].object) \in Nodes
  BY DEF WellFormed, Item
<1>2. DOMAIN ids = {1, 2} /\ ids[1] = "long_filename" /\ ids[2] = "filename"
  OBVIOUS
<1>3. there \in SUBSET Nat /\ there # {}
  BY <1>1, <1>2
<1>4. Least(there) \in there /\ \A i \in there : Least(there) <= i
  BY <1>3, LeastIsOne
<1>5. Read(path, ids).value = Props[path][ids[Least(there)]]
  BY <1>3 DEF Read
<1> HIDE DEF ids
<1>6. Least(there) = IF "long_filename" \in DOMAIN Props[path] THEN 1 ELSE 2
  BY <1>2, <1>4
<1>7. Read(path, ids).value = IF "long_filename" \in DOMAIN Props[path]
                                THEN Props[path].long_filename ELSE Props[path].filename
  BY <1>2, <1>5, <1>6
<1>8. IF AsMessage(path).kind = "ok" THEN AsMessage(path).value \in Nodes
      ELSE AsMessage(path).kind = "bad_cast"
  BY <1>1 DEF AsMessage
<1> QED
  BY <1>7, <1>8 DEF AttachmentRight, ids

\* What the next call will answer, in every state that earlier calls have left an
\* object in, is what a well-formed store says (message.h:325-447,
\* folder.h:217-330, contact.h:203-224, pstutil.h:118-154).
THEOREM AnswersAreTheStores == Spec => []AnswersRight
<1>1. IInv => AnswersRight
  <2> SUFFICES ASSUME IInv, NEW s \in Slots, Holds(s)
               PROVE  LET as == obj[s].as
                          path == obj[s].path
                      IN /\ \A m \in Members(as) : MemberRight(s, m)
                         /\ as \in {"folder", "pst"} => \A name \in Names : ByNameRight(s, name)
                         /\ as \in {"message", "folder", "contact", "task"} => EntryIdRight(path)
                         /\ as \in {"message", "task"} => SubjectRight(path)
                         /\ as = "attachment" => AttachmentRight(path)
    BY DEF AnswersRight
  <2>1. WellFormed(Item(obj[s].as, obj[s].path))
    BY ObjectWellFormed
  <2>2. obj[s].as = "attachment" => AttachmentRight(obj[s].path)
    BY <2>1, AttachmentAnswers
  <2> QED
    BY <2>1, <2>2, MembersAnswer, NamesAnswer, EntryIdAnswers, SubjectAnswers
<1> QED
  BY <1>1, AlwaysIInv, PTL
=============================================================================
