----------------------- MODULE PropertyStreams_proof ------------------------
(***************************************************************************)
(* Allocations of a heap, and the subnodes behind it, are arrays of bytes: *)
(* the program of HeapStreams and the objects that open streams for it     *)
(* implement ByteStore, for page maps of any size, any number of streams   *)
(* and any reads that fail.  Bags and rows answer with what the store      *)
(* holds, for any properties, tables, columns and sizes of pages: what is  *)
(* asked for is found in its row, its bytes in memory, and its value in    *)
(* those bytes.                                                            *)
(***************************************************************************)
EXTENDS PropertyStreams, SequenceTheorems, WellFoundedInduction, TLAPS

\* The streams and the reply as ByteStore sees them.
Seen ==
  [s \in Streams |->
    IF stream[s] = None THEN None
    ELSE [array |-> stream[s].id,
          pos |-> IF stream[s].pos > Sizes[stream[s].id] THEN Lost ELSE stream[s].pos]]

Told ==
  IF reply = None \/ reply.op # "read" THEN None
  ELSE CASE reply.throws = None -> [kind |-> "value", bytes |-> reply.value]
         [] reply.throws = "failed" -> [kind |-> "failed", bytes |-> <<>>]
         [] OTHER -> [kind |-> "out_of_range", bytes |-> <<>>]

Placing == [Streams -> [id : Opened, pos : Nat] \cup {None}]

Replied ==
  reply # None =>
    /\ reply \in Reply
    /\ reply.op = "read" /\ reply.throws = None => reply.value \in Seq(Int)

\* A stream is opened over a property of an object.
Answering ==
  /\ table \in Tables
  /\ answer # None /\ answer.call.op = "stream" => answer.call.obj \in Objects

Inv == stream \in Placing /\ Replied /\ Answering

Implements == stream' \in Placing /\ Replied' /\ (Store!Next \/ UNCHANGED <<Seen, Told>>)

-----------------------------------------------------------------------------
(***************************************************************************)
(* Ids and sizes.                                                          *)
(***************************************************************************)

LEMMA IdsOf ==
  ASSUME NEW p \in Nat, NEW i \in Nat, i < 2047
  PROVE  /\ MakeHeapId(p, i) \in Nat \ {0}
         /\ HeapPage(MakeHeapId(p, i)) = p
         /\ HeapIndex(MakeHeapId(p, i)) = i
         /\ ~IsSubnodeId(MakeHeapId(p, i))
BY DEF MakeHeapId, HeapPage, HeapIndex, IsSubnodeId

LEMMA IdIs ==
  ASSUME NEW id \in Nat \ {0}, ~IsSubnodeId(id), HeapIndex(id) < 2047
  PROVE  /\ HeapPage(id) \in Nat /\ HeapIndex(id) \in Nat
         /\ id = MakeHeapId(HeapPage(id), HeapIndex(id))
BY DEF MakeHeapId, HeapPage, HeapIndex, IsSubnodeId

\* The map of a page.
LEMMA PageMaps ==
  ASSUME NEW p \in DOMAIN PageMap, NEW n, n = NumAllocs(p)
  PROVE  /\ p \in Nat /\ PageMax \in Nat /\ n \in Nat /\ n < 2048
         /\ \A i \in 0..n : PageMap[p][i + 1] \in Nat
         /\ \A i \in 0..(n - 1) : PageMap[p][i + 1] <= PageMap[p][i + 2]
<1>1. /\ p \in Nat /\ PageMap[p] \in Seq(0..PageMax) /\ n \in Nat /\ n < 2048
      /\ \A i \in 1..n : PageMap[p][i] <= PageMap[p][i + 1]
  <2>1. p \in Nat
    BY HeapAssumption
  <2>2. PageMap[p] \in Seq(0..PageMax)
    BY HeapAssumption
  <2>3. NumAllocs(p) \in Nat /\ NumAllocs(p) < 2048
    BY HeapAssumption
  <2>4. \A i \in 1..NumAllocs(p) : PageMap[p][i] <= PageMap[p][i + 1]
    BY HeapAssumption
  <2> QED
    BY <2>1, <2>2, <2>3, <2>4
<1>2. PageMax \in Nat
  BY HeapAssumption
<1>3. Len(PageMap[p]) = n + 1
  <2>1. n = Len(PageMap[p]) - 1
    BY DEF NumAllocs
  <2>2. Len(PageMap[p]) \in Nat
    BY <1>1
  <2> QED
    BY <2>1, <2>2
<1>4. \A i \in 0..n : PageMap[p][i + 1] \in Nat
  <2>1. \A i \in 0..n : i + 1 \in 1..Len(PageMap[p])
    BY <1>1, <1>3
  <2>2. \A j \in 1..Len(PageMap[p]) : PageMap[p][j] \in Nat
    BY <1>1, <1>2
  <2> QED
    BY <2>1, <2>2
<1>5. ASSUME NEW i \in 0..(n - 1)
      PROVE  PageMap[p][i + 1] <= PageMap[p][i + 2]
  <2>1. i + 1 \in 1..n /\ (i + 1) + 1 = i + 2
    BY <1>1
  <2> QED
    BY <1>1, <2>1
<1> QED
  BY <1>1, <1>2, <1>4, <1>5

LEMMA AllocIdIs ==
  ASSUME NEW id \in AllocIds
  PROVE  /\ id \in Nat \ {0} /\ ~IsSubnodeId(id)
         /\ HeapPage(id) \in DOMAIN PageMap
         /\ HeapIndex(id) \in 0..(NumAllocs(HeapPage(id)) - 1)
<1>1. PICK p \in DOMAIN PageMap : \E i \in 0..(NumAllocs(p) - 1) : id = MakeHeapId(p, i)
  BY DEF AllocIds
<1> PICK i \in 0..(NumAllocs(p) - 1) : id = MakeHeapId(p, i)
  BY <1>1
<1>2. PICK n : n = NumAllocs(p)
  OBVIOUS
<1>3. p \in Nat /\ n \in Nat /\ n < 2048 /\ i \in 0..(n - 1)
  BY <1>2, PageMaps
<1>4. i \in Nat /\ i < 2047
  BY <1>3
<1>5. id \in Nat \ {0} /\ HeapPage(id) = p /\ HeapIndex(id) = i /\ ~IsSubnodeId(id)
  <2>1. id = MakeHeapId(p, i)
    OBVIOUS
  <2>2. /\ MakeHeapId(p, i) \in Nat \ {0} /\ HeapPage(MakeHeapId(p, i)) = p
        /\ HeapIndex(MakeHeapId(p, i)) = i /\ ~IsSubnodeId(MakeHeapId(p, i))
    BY <1>3, <1>4, IdsOf
  <2> QED
    BY <2>1, <2>2
<1> QED
  BY <1>2, <1>3, <1>5

\* What size, read and a stream make of an allocation.
LEMMA AllocationIs ==
  ASSUME NEW id \in AllocIds \cup {0}, NEW beyond
  PROVE  /\ AllocSize(id, beyond) = Value(StreamSize(id))
         /\ StreamSize(id) \in Nat /\ FirstByte(id) \in Int
         /\ id \in Nat /\ ~IsSubnodeId(id)
<1>1. CASE id = 0
  <2>1. ~IsSubnodeId(0) /\ AllocSize(0, beyond) = Value(0) /\ AllocSize(0, 0) = Value(0)
    BY DEF IsSubnodeId, AllocSize
  <2>2. StreamSize(0) = 0 /\ FirstByte(0) = 0
    <3>1. AllocSize(0, 0).value = 0
      BY <2>1 DEF Value
    <3> QED
      BY <2>1, <3>1 DEF StreamSize, FirstByte
  <2> QED
    BY <1>1, <2>1, <2>2
<1>2. CASE id # 0
  <2> DEFINE p == HeapPage(id)
             i == HeapIndex(id)
             n == NumAllocs(p)
  <2>1. id \in Nat \ {0} /\ ~IsSubnodeId(id) /\ p \in DOMAIN PageMap /\ i \in 0..(n - 1)
    BY <1>2, AllocIdIs
  <2>2. n = NumAllocs(p)
    OBVIOUS
  <2> HIDE DEF p, i, n
  <2>3. /\ p \in Nat /\ PageMax \in Nat /\ n \in Nat /\ n < 2048
        /\ PageMap[p][i + 1] \in Nat /\ PageMap[p][i + 2] \in Nat
        /\ PageMap[p][i + 1] <= PageMap[p][i + 2]
    <3>1. /\ p \in Nat /\ PageMax \in Nat /\ n \in Nat /\ n < 2048
          /\ \A j \in 0..n : PageMap[p][j + 1] \in Nat
          /\ \A j \in 0..(n - 1) : PageMap[p][j + 1] <= PageMap[p][j + 2]
      BY <2>1, <2>2, PageMaps
    <3>2. i \in 0..n /\ i + 1 \in 0..n /\ (i + 1) + 1 = i + 2
      BY <2>1, <3>1
    <3> QED
      BY <2>1, <3>1, <3>2
  <2>4. ASSUME NEW b
        PROVE  /\ Allocs(p, i, b) = PageMap[p][i + 1]
               /\ Allocs(p, i + 1, b) = PageMap[p][i + 2]
    <3>1. i <= n /\ i + 1 <= n /\ (i + 1) + 1 = i + 2
      BY <2>1, <2>3
    <3> QED
      BY <3>1, <2>2 DEF Allocs
  <2>5. Minus(PageMap[p][i + 2], PageMap[p][i + 1]) = PageMap[p][i + 2] - PageMap[p][i + 1]
    BY <2>3 DEF Minus
  <2>6. ~(i > NumAllocs(p))
    BY <2>1, <2>3, <2>2
  <2>7. ASSUME NEW b
        PROVE  AllocSize(id, b) = Value(PageMap[p][i + 2] - PageMap[p][i + 1])
    BY <1>2, <2>1, <2>4, <2>5, <2>6 DEF AllocSize, p, i
  <2>8. StreamSize(id) = PageMap[p][i + 2] - PageMap[p][i + 1]
    BY <2>1, <2>7 DEF StreamSize, Value
  <2>9. FirstByte(id) = p * PageMax + PageMap[p][i + 1]
    <3>1. id \notin Subnodes
      BY <2>1, SubnodesAssumption
    <3> QED
      BY <1>2, <2>4, <3>1 DEF FirstByte, p, i
  <2>10. p * PageMax \in Nat
    BY <2>3
  <2> QED
    BY <2>1, <2>3, <2>7, <2>8, <2>9, <2>10
<1> QED
  BY <1>1, <1>2

\* What may be opened as a stream.
LEMMA ArrayIs ==
  ASSUME NEW x \in Opened
  PROVE  /\ x \in Nat /\ StreamSize(x) \in Nat /\ FirstByte(x) \in Int
         /\ Sizes[x] = StreamSize(x) /\ Firsts[x] = FirstByte(x)
<1>1. Sizes[x] = StreamSize(x) /\ Firsts[x] = FirstByte(x)
  BY DEF Sizes, Firsts
<1>2. CASE x \in AllocIds \cup {0}
  BY <1>1, <1>2, AllocationIs
<1>3. CASE x \notin AllocIds \cup {0}
  <2>1. x \in Subnodes
    BY <1>3 DEF Opened
  <2>2. x \in Nat /\ IsSubnodeId(x) /\ SubnodeSize[x] \in Nat /\ SubnodeAt[x] \in Int
    BY <2>1, SubnodesAssumption
  <2>3. x # 0
    BY <1>3
  <2> QED
    BY <1>1, <2>1, <2>2, <2>3 DEF StreamSize, FirstByte
<1> QED
  BY <1>2, <1>3

\* An allocation that is not there is found out, but for the one behind the last.
LEMMA NoAllocation ==
  ASSUME NEW id \in Asked, ~BehindLast(id), id \notin AllocIds \cup {0}, NEW beyond
  PROVE  id \in Nat /\ AllocSize(id, beyond) \in {Throws("out_of_range"), Throws("length_error")}
<1>1. /\ id \in Nat \ {0} /\ ~IsSubnodeId(id)
      /\ HeapPage(id) \in DOMAIN PageMap => HeapIndex(id) # NumAllocs(HeapPage(id))
  BY ProgramAssumption DEF BehindLast
<1>2. CASE HeapPage(id) \notin DOMAIN PageMap
  BY <1>1, <1>2 DEF AllocSize
<1>3. CASE HeapPage(id) \in DOMAIN PageMap
  <2>1. NumAllocs(HeapPage(id)) \in Nat /\ NumAllocs(HeapPage(id)) < 2048
    BY <1>3, PageMaps
  <2>2. HeapIndex(id) \in Nat
    BY <1>1 DEF HeapIndex
  <2>3. ~(HeapIndex(id) < NumAllocs(HeapPage(id)))
    <3> SUFFICES ASSUME HeapIndex(id) < NumAllocs(HeapPage(id))
                 PROVE  FALSE
      OBVIOUS
    <3>1. HeapIndex(id) < 2047 /\ HeapIndex(id) \in 0..(NumAllocs(HeapPage(id)) - 1)
      BY <2>1, <2>2
    <3>2. id = MakeHeapId(HeapPage(id), HeapIndex(id))
      BY <1>1, <3>1, IdIs
    <3>3. id \in AllocIds
      BY <1>3, <3>1, <3>2 DEF AllocIds
    <3> QED
      BY <3>3
  <2>4. HeapIndex(id) > NumAllocs(HeapPage(id))
    BY <1>1, <1>3, <2>1, <2>2, <2>3
  <2> QED
    BY <1>1, <1>3, <2>4 DEF AllocSize
<1> QED
  BY <1>1, <1>2, <1>3

LEMMA AddressesAre ==
  ASSUME NEW x \in Opened, NEW pos \in Nat, NEW n \in Nat
  PROVE  Addresses(x, pos, n) \in Seq(Int) /\ Len(Addresses(x, pos, n)) = n
<1>1. FirstByte(x) \in Int
  BY ArrayIs
<1>2. PICK f \in Int : f = FirstByte(x)
  BY <1>1
<1>3. Addresses(x, pos, n) = [i \in 1..n |-> f + pos + i - 1]
  BY <1>2 DEF Addresses
<1> QED
  BY <1>3

\* The bytes that ByteStore reads.
LEMMA BytesAre ==
  ASSUME NEW x \in Opened, NEW pos \in Nat, NEW count \in Nat
  PROVE  Store!BytesAt(x, pos, count)
           = Addresses(x, pos, Smaller(count, StreamSize(x) - pos))
BY ArrayIs DEF Store!BytesAt, Store!Smaller, Smaller, Addresses

-----------------------------------------------------------------------------
(***************************************************************************)
(* Streams and replies.                                                    *)
(***************************************************************************)

LEMMA SeenAt ==
  ASSUME stream \in Placing, NEW s \in Streams, stream[s] # None
  PROVE  /\ stream[s].id \in Opened /\ stream[s].pos \in Nat
         /\ stream[s] = [id |-> stream[s].id, pos |-> stream[s].pos]
         /\ Seen[s] # None
         /\ Seen[s] = [array |-> stream[s].id,
                       pos |-> IF stream[s].pos > StreamSize(stream[s].id)
                                 THEN Lost ELSE stream[s].pos]
<1>1. stream[s] \in [id : Opened, pos : Nat]
  BY DEF Placing
<1> DEFINE x == stream[s].id
           q == IF stream[s].pos > StreamSize(x) THEN Lost ELSE stream[s].pos
<1>2. /\ x \in Opened /\ stream[s].pos \in Nat
      /\ stream[s] = [id |-> x, pos |-> stream[s].pos]
  BY <1>1
<1>3. Seen[s] = [array |-> x, pos |-> q]
  BY <1>2, ArrayIs DEF Seen
<1>4. [array |-> x, pos |-> q] # None
  <2>1. [array |-> x, pos |-> q] \in [array : Opened, pos : Nat \cup {Lost}]
    BY <1>2
  <2> QED
    BY <2>1, ProgramAssumption
<1> QED
  BY <1>2, <1>3, <1>4

LEMMA SeenPut ==
  ASSUME stream \in Placing, NEW s \in Streams, NEW x \in Opened, NEW p \in Nat,
         stream' = [stream EXCEPT ![s] = [id |-> x, pos |-> p]]
  PROVE  /\ stream' \in Placing
         /\ Seen' = [Seen EXCEPT ![s] =
                       [array |-> x, pos |-> IF p > StreamSize(x) THEN Lost ELSE p]]
<1>1. [id |-> x, pos |-> p] \in [id : Opened, pos : Nat]
  OBVIOUS
<1>2. stream' \in Placing
  BY <1>1 DEF Placing
<1>3. [id |-> x, pos |-> p] # None
  BY <1>1, ProgramAssumption
<1>4. stream'[s] = [id |-> x, pos |-> p] /\ \A t \in Streams \ {s} : stream'[t] = stream[t]
  BY DEF Placing
<1>5. Sizes[x] = StreamSize(x)
  BY ArrayIs
<1> DEFINE q == IF p > StreamSize(x) THEN Lost ELSE p
<1>6. Seen'[s] = [array |-> x, pos |-> q]
  BY <1>3, <1>4, <1>5 DEF Seen
<1>7. ASSUME NEW t \in Streams \ {s}
      PROVE  Seen'[t] = Seen[t]
  BY <1>4 DEF Seen
<1>8. Seen' = [t \in Streams |-> Seen'[t]]
  BY DEF Seen
<1>9. Seen = [t \in Streams |-> Seen[t]]
  BY DEF Seen
<1> QED
  BY <1>2, <1>6, <1>7, <1>8, <1>9

\* A stream is moved.
LEMMA SeenMoved ==
  ASSUME stream \in Placing, NEW s \in Streams, stream[s] # None, NEW p \in Nat,
         stream' = [stream EXCEPT ![s].pos = p]
  PROVE  /\ stream' \in Placing
         /\ Seen' = [Seen EXCEPT ![s].pos = IF p > StreamSize(stream[s].id) THEN Lost ELSE p]
<1> DEFINE x == stream[s].id
           q == IF p > StreamSize(x) THEN Lost ELSE p
<1>1. x \in Opened /\ stream[s] = [id |-> x, pos |-> stream[s].pos]
  BY SeenAt
<1>2. \E y : Seen[s] = [array |-> x, pos |-> y]
  BY SeenAt
<1>3. [stream[s] EXCEPT !.pos = p] = [id |-> x, pos |-> p]
  BY <1>1
<1>4. stream' = [stream EXCEPT ![s] = [id |-> x, pos |-> p]]
  <2>1. stream' = [stream EXCEPT ![s] = [stream[s] EXCEPT !.pos = p]]
    BY DEF Placing
  <2> QED
    BY <2>1, <1>3
<1>5. stream' \in Placing /\ Seen' = [Seen EXCEPT ![s] = [array |-> x, pos |-> q]]
  <2> PICK y \in Opened : y = x
    BY <1>1
  <2>1. stream' = [stream EXCEPT ![s] = [id |-> y, pos |-> p]]
    BY <1>4
  <2>2. /\ stream' \in Placing
        /\ Seen' = [Seen EXCEPT ![s] = [array |-> y, pos |-> IF p > StreamSize(y) THEN Lost ELSE p]]
    BY <2>1, SeenPut
  <2> QED
    BY <2>2
<1>6. [Seen[s] EXCEPT !.pos = q] = [array |-> x, pos |-> q]
  BY <1>2
<1>7. [Seen EXCEPT ![s].pos = q] = [Seen EXCEPT ![s] = [Seen[s] EXCEPT !.pos = q]]
  BY DEF Seen
<1> QED
  BY <1>5, <1>6, <1>7

LEMMA NoReply ==
  ASSUME reply = None
  PROVE  Told = None
BY DEF Told

\* A read is told of,
LEMMA ToldValue ==
  ASSUME NEW id \in Nat, NEW bytes \in Seq(Int), Replies("read", id, Value(bytes))
  PROVE  Replied' /\ Told' = Store!Value(bytes)
<1>1. reply' = [op |-> "read", id |-> id, throws |-> None, value |-> bytes]
  BY DEF Replies, Value
<1>2. reply' \in Reply
  BY <1>1 DEF Reply
<1>3. reply' # None
  BY <1>2, ProgramAssumption
<1>4. reply'.op = "read" /\ reply'.throws = None /\ reply'.value = bytes
  BY <1>1
<1>5. Told' = [kind |-> "value", bytes |-> reply'.value]
  <2>1. reply'.throws # "failed"
    BY <1>4, ProgramAssumption DEF Errors
  <2> QED
    BY <1>3, <1>4, <2>1 DEF Told
<1> QED
  BY <1>2, <1>4, <1>5 DEF Replied, Store!Value

\* and so is one that throws.
LEMMA ToldError ==
  ASSUME NEW id \in Nat, NEW e \in Errors, Replies("read", id, Throws(e))
  PROVE  /\ Replied'
         /\ Told' = IF e = "failed" THEN Store!Failed ELSE Store!OutOfRange
<1>1. reply' = [op |-> "read", id |-> id, throws |-> e, value |-> None]
  BY DEF Replies, Throws
<1>2. reply' \in Reply
  BY <1>1 DEF Reply
<1>3. reply' # None /\ e # None
  BY <1>2, ProgramAssumption
<1> QED
  BY <1>1, <1>2, <1>3 DEF Replied, Told, Store!Failed, Store!OutOfRange

\* A size is not.
LEMMA ToldSize ==
  ASSUME NEW id \in Nat, NEW r, Replies("size", id, r),
         r.throws \in Errors \cup {None}, r.value \in Nat \cup {None}
  PROVE  Replied' /\ Told' = None
<1>1. reply' = [op |-> "size", id |-> id, throws |-> r.throws, value |-> r.value]
  BY DEF Replies
<1>2. reply' \in Reply
  BY <1>1 DEF Reply
<1> QED
  BY <1>1, <1>2 DEF Replied, Told

-----------------------------------------------------------------------------
(***************************************************************************)
(* Reads of the heap.                                                      *)
(***************************************************************************)

\* What read returns, for an allocation that is there
LEMMA ReadIs ==
  ASSUME NEW id \in AllocIds \cup {0}, NEW offset \in Nat, NEW count \in Nat, NEW beyond
  PROVE  /\ id \in Opened /\ id \in Nat
         /\ Sizes[id] = StreamSize(id) /\ StreamSize(id) \in Nat
         /\ offset + count > StreamSize(id) =>
              Read(id, offset, count, beyond) = Throws("length_error")
         /\ ~(offset + count > StreamSize(id)) =>
              /\ Read(id, offset, count, beyond) = Value(Addresses(id, offset, count))
              /\ Store!BytesAt(id, offset, count) = Addresses(id, offset, count)
<1>1. id \in Opened
  BY DEF Opened
<1>2. /\ AllocSize(id, beyond) = Value(StreamSize(id)) /\ StreamSize(id) \in Nat
      /\ Sizes[id] = StreamSize(id) /\ id \in Nat
  BY <1>1, AllocationIs, ArrayIs
<1>3. AllocSize(id, beyond).throws = None /\ AllocSize(id, beyond).value = StreamSize(id)
  BY <1>2 DEF Value
<1>4. Read(id, offset, count, beyond) =
        IF offset + count > StreamSize(id) THEN Throws("length_error")
        ELSE Value(Addresses(id, offset, count))
  BY <1>3 DEF Read
<1>5. ~(offset + count > StreamSize(id)) => Smaller(count, StreamSize(id) - offset) = count
  BY <1>2 DEF Smaller
<1>6. Store!BytesAt(id, offset, count)
        = Addresses(id, offset, Smaller(count, StreamSize(id) - offset))
  BY <1>1, BytesAre
<1> QED
  BY <1>1, <1>2, <1>4, <1>5, <1>6

\* and for one that is not, nor behind the last.
LEMMA ReadThrows ==
  ASSUME NEW id \in Asked, ~BehindLast(id), id \notin AllocIds \cup {0},
         NEW offset, NEW count, NEW beyond
  PROVE  \E e \in {"out_of_range", "length_error"} :
           Read(id, offset, count, beyond) = Throws(e) /\ AllocSize(id, beyond) = Throws(e)
<1>1. PICK e \in {"out_of_range", "length_error"} : AllocSize(id, beyond) = Throws(e)
  BY NoAllocation
<1>2. AllocSize(id, beyond).throws = e /\ e # None
  BY <1>1, ProgramAssumption DEF Throws, Errors
<1> QED
  BY <1>1, <1>2 DEF Read

\* What one of them tells the program.
LEMMA Reads ==
  ASSUME NEW id \in Asked, ~BehindLast(id), NEW beyond,
         NEW offset \in AllOffsets \cap Nat, NEW count \in Nat,
         id \in AllocIds \cup {0} => count \in AllCounts,
         reply = None, UNCHANGED stream,
         Replies("read", id, Read(id, offset, count, beyond))
  PROVE  Replied' /\ Store!Next
<1>1. Told = None /\ UNCHANGED Seen
  BY NoReply DEF Seen
<1>2. CASE id \in AllocIds \cup {0}
  <2>1. id \in Opened /\ id \in Nat /\ Sizes[id] = StreamSize(id) /\ StreamSize(id) \in Nat
    BY <1>2, ReadIs
  <2>2. Replied' /\ Told' = IF offset + count > Sizes[id] THEN Store!OutOfRange
                            ELSE Store!Value(Store!BytesAt(id, offset, count))
    <3>1. CASE offset + count > StreamSize(id)
      <4>1. Read(id, offset, count, beyond) = Throws("length_error")
        BY <1>2, <3>1, ReadIs
      <4>2. "length_error" \in Errors /\ Replies("read", id, Throws("length_error"))
        BY <4>1 DEF Errors
      <4>3. Replied' /\ Told' = Store!OutOfRange
        BY <2>1, <4>2, ToldError
      <4> QED
        BY <2>1, <3>1, <4>3
    <3>2. CASE ~(offset + count > StreamSize(id))
      <4>1. /\ Replies("read", id, Value(Addresses(id, offset, count)))
            /\ Store!BytesAt(id, offset, count) = Addresses(id, offset, count)
        BY <1>2, <3>2, ReadIs
      <4>2. Addresses(id, offset, count) \in Seq(Int)
        BY <2>1, AddressesAre
      <4>3. Replied' /\ Told' = Store!Value(Addresses(id, offset, count))
        BY <2>1, <4>1, <4>2, ToldValue
      <4> QED
        BY <2>1, <3>2, <4>1, <4>3
    <3> QED
      BY <3>1, <3>2
  <2>3. Store!ReadValue(id, offset, count)
    BY <1>1, <2>2 DEF Store!ReadValue, Seen, Told
  <2> QED
    BY <1>2, <2>1, <2>2, <2>3 DEF Store!Next
<1>3. CASE id \notin AllocIds \cup {0}
  <2>1. PICK e \in {"out_of_range", "length_error"} :
          Read(id, offset, count, beyond) = Throws(e)
    BY <1>3, ReadThrows
  <2>2. id \in Nat /\ e \in Errors /\ e # "failed"
    BY <1>3, NoAllocation DEF Errors
  <2>3. Replied' /\ Told' = Store!OutOfRange
    BY <2>1, <2>2, ToldError
  <2>4. Store!NoArray
    BY <1>1, <2>3 DEF Store!NoArray, Seen, Told
  <2> QED
    BY <2>3, <2>4 DEF Store!Next
<1> QED
  BY <1>2, <1>3

LEMMA ReadBufferStep ==
  ASSUME Inv, NEW id \in Asked, ~BehindLast(id), NEW offset \in Offsets \cap Nat,
         NEW count \in Counts, ReadBuffer(id, offset, count)
  PROVE  Implements
<1>1. PICK beyond \in Beyond : Replies("read", id, Read(id, offset, count, beyond))
  BY DEF ReadBuffer
<1>2. offset \in AllOffsets \cap Nat /\ count \in Nat /\ count \in AllCounts
  BY ProgramAssumption DEF AllOffsets, AllCounts
<1>3. reply = None /\ UNCHANGED stream
  BY DEF ReadBuffer
<1>4. Replied' /\ Store!Next
  BY <1>1, <1>2, <1>3, Reads
<1> QED
  BY <1>3, <1>4 DEF Implements, Inv, Placing

LEMMA ReadAllocationStep ==
  ASSUME Inv, NEW id \in Asked, ~BehindLast(id), ReadAllocation(id)
  PROVE  Implements
<1>1. reply = None /\ UNCHANGED stream
  BY DEF ReadAllocation
<1>2. 0 \in AllOffsets \cap Nat
  BY DEF AllOffsets
<1>3. PICK count \in Nat : /\ id \in AllocIds \cup {0} => count \in AllCounts
                          /\ Replies("read", id, Read(id, 0, count, 0))
  <2>1. CASE id \in AllocIds \cup {0}
    <3>1. /\ AllocSize(id, 0) = Value(StreamSize(id)) /\ StreamSize(id) \in Nat
          /\ id \in Opened
      BY <2>1, AllocationIs DEF Opened
    <3>2. AllocSize(id, 0).throws = None /\ AllocSize(id, 0).value = StreamSize(id)
      BY <3>1 DEF Value
    <3>3. StreamSize(id) \in AllCounts
      BY <3>1, ArrayIs DEF AllCounts
    <3>4. Replies("read", id, Read(id, 0, StreamSize(id), 0))
      BY <3>2 DEF ReadAllocation, ReadAll
    <3> QED
      BY <3>1, <3>3, <3>4
  <2>2. CASE id \notin AllocIds \cup {0}
    <3>1. PICK e \in {"out_of_range", "length_error"} :
            Read(id, 0, 0, 0) = Throws(e) /\ AllocSize(id, 0) = Throws(e)
      BY <2>2, ReadThrows
    <3>2. AllocSize(id, 0).throws # None
      BY <3>1, ProgramAssumption DEF Throws, Errors
    <3>3. Replies("read", id, Read(id, 0, 0, 0))
      BY <3>1, <3>2 DEF ReadAllocation
    <3> QED
      BY <2>2, <3>3
  <2> QED
    BY <2>1, <2>2
<1>4. Replied' /\ Store!Next
  BY <1>1, <1>2, <1>3, Reads
<1> QED
  BY <1>1, <1>4 DEF Implements, Inv, Placing

LEMMA RefusedStep ==
  ASSUME Inv, Refused
  PROVE  Implements
<1>1. reply = None /\ UNCHANGED stream /\ Replies("read", 0, Throws("failed"))
  BY DEF Refused
<1>2. Told = None /\ UNCHANGED Seen
  BY <1>1, NoReply DEF Seen
<1>3. "failed" \in Errors
  BY DEF Errors
<1>4. Replied' /\ Told' = Store!Failed
  BY <1>1, <1>3, ToldError
<1>5. Store!Fail
  BY <1>2, <1>4 DEF Store!Fail, Seen, Told
<1> QED
  BY <1>1, <1>4, <1>5 DEF Implements, Inv, Placing, Store!Next

\* The size of what is behind the last allocation is any number.
LEMMA SizeBehindLast ==
  ASSUME NEW id, BehindLast(id), NEW beyond \in Nat
  PROVE  \E size \in Nat : AllocSize(id, beyond) = Value(size)
<1> DEFINE p == HeapPage(id)
           n == NumAllocs(p)
<1>1. id # 0 /\ p \in DOMAIN PageMap /\ HeapIndex(id) = n /\ n = NumAllocs(p)
  BY DEF BehindLast
<1> HIDE DEF p, n
<1>2. n \in Nat /\ \A i \in 0..n : PageMap[p][i + 1] \in Nat
  BY <1>1, PageMaps
<1>3. PICK a \in Nat : a = PageMap[p][n + 1] /\ a <= UintMax /\ UintMax \in Nat
  <2>1. PageMap[p] \in Seq(0..PageMax) /\ PageMax \in Nat /\ PageMax <= UintMax /\ UintMax \in Nat
    BY <1>1, HeapAssumption
  <2>2. n = Len(PageMap[p]) - 1
    BY <1>1 DEF NumAllocs
  <2>3. n + 1 \in 1..Len(PageMap[p])
    BY <1>2, <2>1, <2>2
  <2>4. PageMap[p][n + 1] \in 0..PageMax
    BY <2>1, <2>3
  <2> QED
    BY <2>1, <2>4
<1>4. Allocs(p, n, beyond) = a /\ Allocs(p, n + 1, beyond) = beyond
  BY <1>1, <1>2, <1>3 DEF Allocs
<1>5. Minus(beyond, a) \in Nat
  BY <1>3 DEF Minus
<1>6. AllocSize(id, beyond) = Value(Minus(beyond, a))
  <2>1. ~(n > n)
    BY <1>2
  <2> QED
    BY <1>1, <1>4, <2>1 DEF AllocSize, p
<1> QED
  BY <1>5, <1>6

LEMMA AskSizeStep ==
  ASSUME Inv, NEW id \in Asked, AskSize(id)
  PROVE  Implements
<1>1. PICK beyond \in Beyond : Replies("size", id, AllocSize(id, beyond))
  BY DEF AskSize
<1>2. /\ id \in Nat /\ AllocSize(id, beyond).throws \in Errors \cup {None}
      /\ AllocSize(id, beyond).value \in Nat \cup {None}
  <2>1. CASE id \in AllocIds \cup {0}
    BY <2>1, AllocationIs DEF Value
  <2>2. CASE id \notin AllocIds \cup {0} /\ ~BehindLast(id)
    BY <2>2, NoAllocation DEF Throws, Errors
  <2>3. CASE BehindLast(id)
    <3>1. id \in Nat /\ beyond \in Nat
      BY ProgramAssumption
    <3>2. PICK size \in Nat : AllocSize(id, beyond) = Value(size)
      BY <2>3, <3>1, SizeBehindLast
    <3> QED
      BY <3>1, <3>2 DEF Value
  <2> QED
    BY <2>1, <2>2, <2>3
<1>3. Replied' /\ Told' = None
  BY <1>1, <1>2, ToldSize
<1>4. UNCHANGED stream /\ Told = None
  BY NoReply DEF AskSize
<1>5. UNCHANGED <<Seen, Told>>
  BY <1>3, <1>4 DEF Seen
<1> QED
  BY <1>3, <1>4, <1>5 DEF Implements, Inv, Placing

LEMMA TakeStep ==
  ASSUME Inv, Take
  PROVE  Implements
<1>1. reply # None /\ reply' = None /\ UNCHANGED stream
  BY DEF Take
<1>2. UNCHANGED Seen /\ Told' = None
  BY <1>1 DEF Seen, Told
<1>3. Replied' /\ stream' \in Placing
  BY <1>1 DEF Inv, Replied, Placing
<1>4. CASE reply.op # "read"
  <2>1. Told = None
    BY <1>4 DEF Told
  <2> QED
    BY <1>2, <1>3, <2>1 DEF Implements
<1>5. CASE reply.op = "read"
  <2>1. Told \in [kind : {"value", "failed", "out_of_range"}, bytes : Seq(Int)]
    <3>1. reply.throws = None => reply.value \in Seq(Int)
      BY <1>1, <1>5 DEF Inv, Replied
    <3>2. <<>> \in Seq(Int)
      OBVIOUS
    <3> QED
      BY <1>1, <1>5, <3>1, <3>2 DEF Told
  <2>2. Told # None
    BY <2>1, ProgramAssumption
  <2>3. Store!Take
    BY <1>2, <2>2 DEF Store!Take, Seen, Told
  <2> QED
    BY <1>3, <2>3 DEF Implements, Store!Next
<1> QED
  BY <1>4, <1>5

-----------------------------------------------------------------------------
(***************************************************************************)
(* Streams.                                                                *)
(***************************************************************************)

LEMMA OpenStep ==
  ASSUME Inv, NEW s \in Streams, NEW x \in Opened, Open(s, x)
  PROVE  Implements
<1>1. reply = None /\ reply' = None /\ stream' = [stream EXCEPT ![s] = [id |-> x, pos |-> 0]]
  BY DEF Open
<1>2. /\ stream' \in Placing
      /\ Seen' = [Seen EXCEPT ![s] = [array |-> x, pos |-> IF 0 > StreamSize(x) THEN Lost ELSE 0]]
  BY <1>1, SeenPut DEF Inv
<1>3. ~(0 > StreamSize(x))
  BY ArrayIs
<1>4. Seen' = [Seen EXCEPT ![s] = [array |-> x, pos |-> 0]]
  BY <1>2, <1>3
<1>5. Told = None /\ Told' = None
  BY <1>1, NoReply DEF Told
<1>6. Store!Open(s, x)
  BY <1>4, <1>5 DEF Store!Open, Seen, Told
<1> QED
  BY <1>1, <1>2, <1>6 DEF Implements, Replied, Store!Next

LEMMA StreamReadStep ==
  ASSUME Inv, NEW s \in Streams, NEW count \in Counts, StreamRead(s, count)
  PROVE  Implements
<1> DEFINE x == stream[s].id
           p == stream[s].pos
           size == StreamSize(x)
           n == IF p + count > size THEN Minus(size, p) ELSE count
<1>1. /\ reply = None /\ stream[s] # None /\ p <= size
      /\ Replies("read", x, Value(Addresses(x, p, n)))
      /\ stream' = [stream EXCEPT ![s].pos = @ + n]
  BY DEF StreamRead, Placed
<1>2. /\ x \in Opened /\ x \in Nat /\ p \in Nat /\ size \in Nat /\ count \in Nat
      /\ Seen[s] = [array |-> x, pos |-> p]
  <2>1. x \in Opened /\ p \in Nat /\ Seen[s] = [array |-> x, pos |-> IF p > size THEN Lost ELSE p]
    BY <1>1, SeenAt DEF Inv
  <2>2. x \in Nat /\ size \in Nat
    BY <2>1, ArrayIs
  <2>3. ~(p > size)
    BY <1>1, <2>1, <2>2
  <2> QED
    BY <2>1, <2>2, <2>3, ProgramAssumption
<1>3. n = Smaller(count, size - p) /\ n \in Nat /\ p + n \in Nat /\ p + n <= size
  BY <1>1, <1>2 DEF Minus, Smaller
<1>4. /\ Addresses(x, p, n) \in Seq(Int) /\ Len(Addresses(x, p, n)) = n
      /\ Store!BytesAt(x, p, count) = Addresses(x, p, n)
  <2>1. Store!BytesAt(x, p, count) = Addresses(x, p, Smaller(count, size - p))
    BY <1>2, BytesAre
  <2> QED
    BY <1>2, <1>3, <2>1, AddressesAre
<1>5. Replied' /\ Told' = Store!Value(Store!BytesAt(x, p, count))
  BY <1>1, <1>2, <1>4, ToldValue
<1>6. stream' = [stream EXCEPT ![s].pos = p + n]
  BY <1>1 DEF Inv, Placing
<1> HIDE DEF n
<1>7. stream' \in Placing /\ Seen' = [Seen EXCEPT ![s].pos = p + n]
  <2> PICK q \in Nat : q = p + n
    BY <1>3
  <2>1. /\ stream' \in Placing
        /\ Seen' = [Seen EXCEPT ![s].pos = IF q > size THEN Lost ELSE q]
    BY <1>1, <1>6, SeenMoved DEF Inv
  <2>2. ~(q > size)
    BY <1>2, <1>3
  <2> QED
    BY <2>1, <2>2
<1>8. Seen' = [Seen EXCEPT ![s].pos = @ + Len(Store!BytesAt(x, p, count))]
  <2>1. Seen[s].pos = p /\ Len(Store!BytesAt(x, p, count)) = n
    BY <1>2, <1>4
  <2>2. Seen = [t \in Streams |-> Seen[t]]
    BY DEF Seen
  <2> QED
    BY <1>7, <2>1, <2>2
<1>9. Store!Read(s, count)
  <2>1. Told = None
    BY <1>1, NoReply
  <2>2. /\ Seen[s] # None /\ Seen[s].pos # Lost
        /\ Seen[s].array = x /\ Seen[s].pos = p
    BY <1>1, <1>2, SeenAt, ProgramAssumption DEF Inv
  <2> QED
    BY <1>5, <1>8, <2>1, <2>2 DEF Store!Read, Seen, Told
<1>10. count \in AllCounts
  BY DEF AllCounts
<1> QED
  BY <1>5, <1>7, <1>9, <1>10 DEF Implements, Store!Next

LEMMA SeekStep ==
  ASSUME Inv, NEW s \in Streams, NEW off \in Offsets, NEW way \in {"beg", "cur", "end"},
         Seek(s, off, way)
  PROVE  Implements
<1> DEFINE x == stream[s].id
           p == stream[s].pos
           size == StreamSize(x)
           to == Sought(s, off, way)
           target == Store!Target(s, off, way)
<1>1. reply = None /\ stream[s] # None /\ (way = "cur" => p <= size)
  BY DEF Seek, Placed
<1>2. /\ x \in Opened /\ x \in Nat /\ p \in Nat /\ size \in Nat /\ Sizes[x] = size /\ off \in Int
      /\ Seen[s] # None /\ Seen[s] = [array |-> x, pos |-> IF p > size THEN Lost ELSE p]
  <2>1. /\ x \in Opened /\ p \in Nat
        /\ Seen[s] # None /\ Seen[s] = [array |-> x, pos |-> IF p > size THEN Lost ELSE p]
    BY <1>1, SeenAt DEF Inv
  <2> QED
    BY <2>1, ArrayIs, ProgramAssumption
<1>3. Seen[s].array = x /\ (p <= size => Seen[s].pos = p)
  BY <1>2
<1>4. to = Store!Base(s, way) + off /\ to \in Int
  <2>1. CASE way = "beg"
    BY <1>2, <2>1 DEF Sought, Store!Base
  <2>2. CASE way = "cur"
    BY <1>1, <1>2, <1>3, <2>2 DEF Sought, Store!Base, Seen
  <2>3. CASE way = "end"
    BY <1>2, <1>3, <2>3 DEF Sought, Store!Base, Seen
  <2> QED
    BY <2>1, <2>2, <2>3
<1>5. target = Clamped(to, size) /\ target \in Nat /\ target <= size
  <2>1. target = Store!Clamp(to, size)
    BY <1>2, <1>3, <1>4 DEF Store!Target, Seen
  <2> HIDE DEF target, to
  <2> QED
    BY <1>2, <1>4, <2>1 DEF Store!Clamp, Clamped, Store!Smaller, Smaller
<1>6. Told = None
  BY <1>1, NoReply
<1>7. Store!MaySeek(s, way)
  BY <1>1, <1>2, <1>3, <1>6, ProgramAssumption DEF Store!MaySeek, Seen, Told
<1>8. off \in AllOffsets
  BY DEF AllOffsets
<1>9. \/ stream' = [stream EXCEPT ![s].pos = Clamped(to, size)] /\ UNCHANGED reply
      \/ /\ x # 0 /\ (way = "end" \/ to >= 0)
         /\ stream' = [stream EXCEPT ![s].pos = IF way = "end" THEN @ ELSE to]
         /\ Replies("read", x, Throws("failed"))
  BY DEF Seek
<1> HIDE DEF target, to
<1>10. CASE stream' = [stream EXCEPT ![s].pos = Clamped(to, size)] /\ UNCHANGED reply
  <2> PICK q \in Nat : q = target
    BY <1>5
  <2>1. /\ stream' \in Placing
        /\ Seen' = [Seen EXCEPT ![s].pos = IF q > size THEN Lost ELSE q]
    BY <1>1, <1>5, <1>10, SeenMoved DEF Inv
  <2>2. ~(q > size)
    BY <1>2, <1>5
  <2>3. Seen' = [Seen EXCEPT ![s].pos = target] /\ UNCHANGED Told
    BY <1>10, <2>1, <2>2 DEF Told
  <2>4. Store!Seek(s, off, way)
    BY <1>7, <2>3 DEF Store!Seek, Seen, Told, target
  <2>5. Replied'
    BY <1>1, <1>10 DEF Replied
  <2> QED
    BY <1>8, <2>1, <2>4, <2>5 DEF Implements, Store!Next
<1>11. CASE /\ x # 0 /\ (way = "end" \/ to >= 0)
            /\ stream' = [stream EXCEPT ![s].pos = IF way = "end" THEN @ ELSE to]
            /\ Replies("read", x, Throws("failed"))
  <2>1. Replied' /\ Told' = Store!Failed
    <3>1. "failed" \in Errors
      BY DEF Errors
    <3> QED
      BY <1>2, <1>11, <3>1, ToldError
  <2>2. CASE way = "end"
    <3>1. stream' = stream
      BY <1>1, <1>11, <2>2 DEF Inv, Placing
    <3>2. UNCHANGED Seen
      BY <3>1 DEF Seen
    <3>3. Store!Fail
      BY <1>6, <2>1, <3>2 DEF Store!Fail, Seen, Told
    <3> QED
      BY <2>1, <3>1, <3>3 DEF Implements, Inv, Placing, Store!Next
  <2>3. CASE way # "end"
    <3> PICK q \in Nat : q = to
      BY <1>4, <1>11, <2>3
    <3>1. stream' = [stream EXCEPT ![s].pos = q]
      BY <1>11, <2>3
    <3>2. /\ stream' \in Placing
          /\ Seen' = [Seen EXCEPT ![s].pos = IF q > size THEN Lost ELSE q]
      BY <1>1, <3>1, SeenMoved DEF Inv
    <3>3. ~(q > size) => q = target
      BY <1>2, <1>5 DEF Clamped, Smaller
    <3>4. \E r \in {target, Lost} : Seen' = [Seen EXCEPT ![s].pos = r]
      BY <3>2, <3>3
    <3>5. Store!SeekFails(s, off, way)
      <4>1. CASE Seen' = [Seen EXCEPT ![s].pos = target]
        BY <1>7, <2>1, <4>1 DEF Store!SeekFails, Seen, Told, target
      <4>2. CASE Seen' = [Seen EXCEPT ![s].pos = Lost]
        BY <1>7, <2>1, <4>2 DEF Store!SeekFails, Seen, Told, target
      <4> QED
        BY <3>4, <4>1, <4>2
    <3> QED
      BY <1>8, <2>1, <3>2, <3>5 DEF Implements, Store!Next
  <2> QED
    BY <2>2, <2>3
<1> QED
  BY <1>9, <1>10, <1>11

\* What an object answers with, if it answers with what the store holds, may be
\* opened: nothing, an allocation or a subnode.
LEMMA PropStreamOpens ==
  ASSUME Inv, AnswersRight, answer # None, answer.call.op = "stream", answer.throws = None
  PROVE  Returned \in Opened
<1> DEFINE c == answer.call
           v == PropsOf(c.obj)[c.prop]
<1>1. None # "failed" /\ None # "key_not_found"
  BY ProgramAssumption DEF Errors
<1>2. c.obj \in Objects /\ table \in Tables /\ c.op = "stream"
  BY DEF Inv, Answering
<1>3. c.obj # Table
  <2>1. \A o \in Objects : o.kind \in {"bag", "row"}
    BY DEF Objects, Bag, Row
  <2>2. Table.kind = "table"
    BY DEF Table
  <2> QED
    BY <1>2, <2>1, <2>2
<1>4. /\ IsThere(c.obj)
      /\ Truth(c).throws = None /\ Truth(c).value = Returned
  BY <1>1, <1>2, <1>3 DEF AnswersRight
<1>5. Truth(c) = IF Has(c.obj, c.prop) THEN Value(v.hnid) ELSE Throws("key_not_found")
  BY <1>2 DEF Truth
<1>6. Has(c.obj, c.prop) /\ Returned = v.hnid
  BY <1>1, <1>4, <1>5 DEF Throws, Value
<1>7. v \in AllProps
  <2>1. CASE c.obj = Bag
    <3>1. c.prop \in DOMAIN BagProps /\ v = BagProps[c.prop]
      BY <1>6, <2>1 DEF Has, PropsOf
    <3> QED
      BY <3>1 DEF AllProps
  <2>2. CASE c.obj # Bag
    <3> PICK i \in 0..Len(table.rows) : c.obj = Row(i)
      BY <1>2, <2>2 DEF Objects
    <3>1. c.obj.row = i
      BY DEF Row
    <3>2. Len(table.rows) \in Nat /\ DOMAIN table.rows = 1..Len(table.rows)
      BY <1>2, StoreAssumption
    <3>3. i + 1 \in DOMAIN table.rows
      BY <1>4, <2>2, <3>1, <3>2 DEF IsThere
    <3>4. c.prop \in DOMAIN table.rows[i + 1].props /\ v = table.rows[i + 1].props[c.prop]
      BY <1>6, <2>2, <3>1 DEF Has, PropsOf
    <3>5. v \in {table.rows[i + 1].props[p] : p \in DOMAIN table.rows[i + 1].props}
      BY <3>4
    <3> HIDE DEF v
    <3> QED
      BY <1>2, <3>3, <3>5 DEF AllProps
  <2> QED
    BY <2>1, <2>2
<1>8. v.hnid \in Opened
  <2>1. CASE v.hnid = 0
    BY <2>1 DEF Opened
  <2>2. CASE v.hnid # 0
    <3>1. v.hnid \in DOMAIN Contents
      BY <1>7, <2>2 DEF Contents
    <3> QED
      BY <3>1, StoreAssumption
  <2> QED
    BY <2>1, <2>2
<1> QED
  BY <1>6, <1>8

-----------------------------------------------------------------------------
(***************************************************************************)
(* The program.                                                            *)
(***************************************************************************)

LEMMA UsesStep ==
  ASSUME Inv, Uses
  PROVE  Implements
<1>1. ASSUME NEW s \in Streams, NEW count \in Counts, StreamRead(s, count)
      PROVE  Implements
  BY <1>1, StreamReadStep
<1>2. ASSUME NEW s \in Streams, NEW off \in Offsets, NEW way \in {"beg", "cur", "end"},
             Seek(s, off, way)
      PROVE  Implements
  BY <1>2, SeekStep
<1>3. ASSUME NEW id \in Asked, AskSize(id)
      PROVE  Implements
  BY <1>3, AskSizeStep
<1>4. ASSUME NEW id \in Asked, ~BehindLast(id), ReadAllocation(id)
      PROVE  Implements
  BY <1>4, ReadAllocationStep
<1>5. ASSUME NEW id \in Asked, ~BehindLast(id), NEW offset \in Offsets \cap Nat,
             NEW count \in Counts, ReadBuffer(id, offset, count)
      PROVE  Implements
  BY <1>5, ReadBufferStep
<1> QED
  BY <1>1, <1>2, <1>3, <1>4, <1>5, RefusedStep, TakeStep DEF Uses

\* A step of PSNext is one of ByteStore, or none.
LEMMA EveryStep ==
  ASSUME Inv, AnswersRight, [PSNext]_ps_vars
  PROVE  Inv' /\ [Store!Next]_<<Seen, Told>>
<1>1. CASE Calls
  <2>1. UNCHANGED <<stream, reply>>
    BY <1>1 DEF Calls
  <2>2. UNCHANGED <<Seen, Told>>
    BY <2>1 DEF Seen, Told
  <2>3. PICK c \in ObjectCalls \cup TableCalls : Call(c) \/ CallFails(c)
    BY <1>1 DEF Calls
  <2>4. table' = table /\ answer'.call = c
    BY <2>3 DEF Call, CallFails, Answers
  <2>5. c.op = "stream" => c.obj \in Objects
    BY <2>3 DEF ObjectCalls, TableCalls
  <2>6. Objects' = Objects
    BY <2>4 DEF Objects
  <2>7. Answering'
    BY <2>4, <2>5, <2>6 DEF Inv, Answering
  <2> QED
    BY <2>1, <2>2, <2>7 DEF Inv, Placing, Replied
<1>2. CASE \E s \in Streams : OpenPropStream(s)
  <2> PICK s \in Streams : OpenPropStream(s)
    BY <1>2
  <2>1. Returned \in Opened
    BY PropStreamOpens DEF OpenPropStream
  <2>2. Implements
    BY <2>1, OpenStep DEF OpenPropStream
  <2>3. table' = table /\ answer' = None
    BY DEF OpenPropStream
  <2> QED
    BY <2>2, <2>3 DEF Implements, Inv, Answering
<1>3. CASE \E s \in Streams, x \in Opened : OpenStream(s, x)
  <2> PICK s \in Streams, x \in Opened : OpenStream(s, x)
    BY <1>3
  <2>1. Implements
    BY OpenStep DEF OpenStream
  <2>2. table' = table /\ answer' = None
    BY DEF OpenStream
  <2> QED
    BY <2>1, <2>2 DEF Implements, Inv, Answering
<1>4. CASE Use
  <2>1. Implements
    BY <1>4, UsesStep DEF Use
  <2>2. table' = table /\ answer' = None
    BY <1>4 DEF Use
  <2> QED
    BY <2>1, <2>2 DEF Implements, Inv, Answering
<1>5. CASE GoOn /\ UNCHANGED <<stream, reply>>
  <2>1. UNCHANGED <<stream, reply, table>> /\ answer' = None
    BY <1>5 DEF GoOn
  <2> QED
    BY <2>1 DEF Inv, Placing, Replied, Answering, Seen, Told
<1>6. CASE UNCHANGED ps_vars
  <2>1. UNCHANGED <<table, answer, stream, reply>>
    BY <1>6 DEF ps_vars, vars
  <2>2. Objects' = Objects
    BY <2>1 DEF Objects
  <2> QED
    BY <2>1, <2>2 DEF Inv, Placing, Replied, Answering, Seen, Told
<1> QED
  BY <1>1, <1>2, <1>3, <1>4, <1>5, <1>6 DEF PSNext

LEMMA Initially ==
  ASSUME PSInit
  PROVE  Inv /\ Store!Init
<1>1. /\ table \in Tables /\ answer = None
      /\ stream = [s \in Streams |-> None] /\ reply = None
  BY DEF PSInit, Init, NoStreams
<1>2. Seen = [s \in Streams |-> None] /\ Told = None
  BY <1>1 DEF Seen, Told
<1>3. Store!Init
  BY <1>2 DEF Store!Init, Seen, Told
<1> QED
  BY <1>1, <1>3 DEF Inv, Placing, Replied, Answering

-----------------------------------------------------------------------------
(***************************************************************************)
(* Sizes.                                                                  *)
(***************************************************************************)

LEMMA SizeIsOfBytes ==
  ASSUME NEW id \in AllocIds \cup {0}
  PROVE  Len(ReadAll(id).value) = StreamSize(id)
<1>1. AllocSize(id, 0) = Value(StreamSize(id)) /\ StreamSize(id) \in Nat /\ id \in Opened
  BY AllocationIs DEF Opened
<1>2. AllocSize(id, 0).value = StreamSize(id)
  BY <1>1 DEF Value
<1>3. Read(id, 0, StreamSize(id), 0) = Value(Addresses(id, 0, StreamSize(id)))
  BY <1>1, ReadIs
<1>4. ReadAll(id).value = Addresses(id, 0, StreamSize(id))
  BY <1>2, <1>3 DEF ReadAll, Value
<1> QED
  BY <1>1, <1>4, AddressesAre

LEMMA SizeAsked ==
  ASSUME NEW id \in Asked, AskSize(id)
  PROVE  SizeRight'
<1>1. PICK beyond \in Beyond : Replies("size", id, AllocSize(id, beyond))
  BY DEF AskSize
<1>2. /\ reply'.id = id
      /\ reply'.throws = AllocSize(id, beyond).throws
      /\ reply'.value = AllocSize(id, beyond).value
  BY <1>1 DEF Replies
<1>3. CASE id \in AllocIds \cup {0}
  <2>1. reply'.throws = None /\ reply'.value = StreamSize(id)
    BY <1>2, <1>3, AllocationIs DEF Value
  <2>2. reply'.value = Len(ReadAll(id).value)
    BY <1>3, <2>1, SizeIsOfBytes
  <2> QED
    BY <1>2, <1>3, <2>1, <2>2 DEF SizeRight
<1>4. CASE id \notin AllocIds \cup {0} /\ ~BehindLast(id)
  <2>1. AllocSize(id, beyond).throws # None
    BY <1>4, NoAllocation, ProgramAssumption DEF Throws, Errors
  <2> QED
    BY <1>2, <1>4, <2>1 DEF SizeRight
<1>5. CASE BehindLast(id)
  BY <1>2, <1>5 DEF SizeRight
<1> QED
  BY <1>3, <1>4, <1>5

\* size of an allocation is the number of bytes that a whole read of it returns,
\* for all allocations, and throws for what is none, but for the id behind the last
\* allocation of a page, which SizeRight excepts.
THEOREM SizesRight ==
  PSSpec => []SizeRight
<1>1. PSInit => SizeRight
  BY DEF PSInit, NoStreams, SizeRight
<1>2. ASSUME SizeRight, [PSNext]_ps_vars
      PROVE  SizeRight'
  <2>1. CASE UNCHANGED reply \/ reply' = None \/ reply'.op = "read"
    BY <1>2, <2>1 DEF SizeRight
  <2>2. CASE \E id \in Asked : AskSize(id)
    BY <2>2, SizeAsked
  <2>3. \/ UNCHANGED reply \/ reply' = None \/ reply'.op = "read"
        \/ \E id \in Asked : AskSize(id)
    <3>1. CASE Calls \/ (GoOn /\ UNCHANGED <<stream, reply>>) \/ UNCHANGED ps_vars
      BY <3>1 DEF Calls, ps_vars
    <3>2. CASE \E s \in Streams : OpenPropStream(s) \/ \E x \in Opened : OpenStream(s, x)
      BY <3>2 DEF OpenPropStream, OpenStream, Open
    <3>3. CASE Use
      <4>1. ASSUME NEW s \in Streams, NEW count \in Counts, StreamRead(s, count)
            PROVE  reply'.op = "read"
        BY <4>1 DEF StreamRead, Replies
      <4>2. ASSUME NEW s \in Streams, NEW off \in Offsets, NEW way \in {"beg", "cur", "end"},
                   Seek(s, off, way)
            PROVE  UNCHANGED reply \/ reply'.op = "read"
        BY <4>2 DEF Seek, Replies
      <4>3. ASSUME NEW id \in Asked, ReadAllocation(id)
            PROVE  reply'.op = "read"
        BY <4>3 DEF ReadAllocation, Replies
      <4>4. ASSUME NEW id \in Asked, NEW offset \in Offsets \cap Nat, NEW count \in Counts,
                   ReadBuffer(id, offset, count)
            PROVE  reply'.op = "read"
        BY <4>4 DEF ReadBuffer, Replies
      <4>5. Refused => reply'.op = "read"
        BY DEF Refused, Replies
      <4>6. Take => reply' = None
        BY DEF Take
      <4> QED
        BY <3>3, <4>1, <4>2, <4>3, <4>4, <4>5, <4>6 DEF Use, Uses
    <3> QED
      BY <1>2, <3>1, <3>2, <3>3 DEF PSNext
  <2> QED
    BY <2>1, <2>2, <2>3
<1> QED
  BY <1>1, <1>2, PTL DEF PSSpec

-----------------------------------------------------------------------------
(***************************************************************************)
(* Parts of sequences, numbers of several bytes, bits.                     *)
(***************************************************************************)

\* What a part of a sequence is.
LEMMA Between ==
  ASSUME NEW S, NEW s, NEW first \in Int, NEW last \in Int, \A i \in first..last : s[i] \in S
  PROVE  /\ SubSeq(s, first, last) \in Seq(S)
         /\ Len(SubSeq(s, first, last)) = IF first <= last THEN last - first + 1 ELSE 0
         /\ \A i \in 1..(last - first + 1) : SubSeq(s, first, last)[i] = s[first + i - 1]
<1>1. SubSeq(s, first, last) \in Seq(S)
  BY SubSeqProperties, Zenon
<1>2. Len(SubSeq(s, first, last)) = IF first <= last THEN last - first + 1 ELSE 0
  BY SubSeqProperties, Zenon
<1>3. \A i \in 1..(last - first + 1) : SubSeq(s, first, last)[i] = s[first + i - 1]
  BY SubSeqProperties, SMT
<1> QED
  BY <1>1, <1>2, <1>3, Zenon

LEMMA Part ==
  ASSUME NEW s, NEW a \in Nat, NEW k \in Nat
  PROVE  /\ SubSeq(s, a + 1, a + k) = [i \in 1..k |-> s[a + i]]
         /\ Len(SubSeq(s, a + 1, a + k)) = k
<1>1. PICK first \in Int, last \in Int : first = a + 1 /\ last = a + k
  OBVIOUS
<1> DEFINE S == {s[i] : i \in first..last}
<1>2. PICK t : t = SubSeq(s, first, last)
  OBVIOUS
<1>3. \A i \in first..last : s[i] \in S
  OBVIOUS
<1> HIDE DEF S
<1>4. t \in Seq(S)
  BY <1>2, <1>3, Between
<1>5. Len(t) = k
  <2>1. Len(t) = IF first <= last THEN last - first + 1 ELSE 0
    BY <1>2, <1>3, Between
  <2> QED
    BY <1>1, <2>1
<1>6. ASSUME NEW i \in 1..k
      PROVE  t[i] = s[a + i]
  <2>1. i \in 1..(last - first + 1) /\ first + i - 1 = a + i
    BY <1>1
  <2>2. \A j \in 1..(last - first + 1) : SubSeq(s, first, last)[j] = s[first + j - 1]
    BY <1>3, Between, SMT
  <2> QED
    BY <1>2, <2>1, <2>2
<1>7. t = [i \in 1..k |-> s[a + i]]
  <2>1. t = [i \in 1..k |-> t[i]]
    BY <1>4, <1>5, LenProperties
  <2> QED
    BY <1>6, <2>1
<1> QED
  BY <1>1, <1>2, <1>5, <1>7

LEMMA LenIs ==
  ASSUME NEW n \in Nat, NEW s, s = [i \in 1..n |-> s[i]]
  PROVE  Len(s) = n
<1> DEFINE S == {s[i] : i \in 1..n}
<1>1. s \in [1..n -> S]
  OBVIOUS
<1> HIDE DEF S
<1>2. s \in Seq(S)
  BY <1>1, SeqDef
<1> QED
  BY <1>1, <1>2

LEMMA Three ==
  ASSUME NEW n \in Nat, n < 16777216
  PROVE  /\ n % 256 \in 0..255 /\ (n \div 256) % 256 \in 0..255 /\ (n \div 65536) % 256 \in 0..255
         /\ n = (n % 256) + (256 * (((n \div 256) % 256) + (256 * ((n \div 65536) % 256))))
         /\ n < 65536 => (n \div 65536) % 256 = 0
         /\ n < 256 => (n \div 256) % 256 = 0
OBVIOUS

LEMMA LEIs ==
  ASSUME NEW n \in Numbers, NEW size \in {1, 2, 4, 8}
  PROVE  /\ Len(LE(n, size)) = size
         /\ LE(n, size) \in [1..size -> Byte]
         /\ LE(n, size)[1] = n % 256
         /\ size > 1 => LE(n, size)[2] = (n \div 256) % 256
         /\ size > 2 => LE(n, size)[3] = (n \div 65536) % 256
         /\ \A i \in 4..size : LE(n, size)[i] = 0
<1>1. n \in Nat /\ n < 16777216
  BY DEF Numbers
<1>2. ASSUME NEW i \in 1..size
      PROVE  /\ LE(n, size)[i] = IF i > 3 THEN 0 ELSE (n \div Power256[i]) % 256
             /\ LE(n, size)[i] \in Byte
  <2>1. LE(n, size)[i] = IF i > 3 THEN 0 ELSE (n \div Power256[i]) % 256
    BY DEF LE
  <2>2. i > 3 \/ i = 1 \/ i = 2 \/ i = 3
    OBVIOUS
  <2>3. (n \div Power256[1]) % 256 = n % 256 /\ Power256[2] = 256 /\ Power256[3] = 65536
    BY <1>1 DEF Power256
  <2> QED
    BY <1>1, <2>1, <2>2, <2>3, Three DEF Byte
<1>3. LE(n, size) = [i \in 1..size |-> LE(n, size)[i]] /\ size \in Nat
  BY DEF LE
<1>4. LE(n, size) \in [1..size -> Byte] /\ LE(n, size) \in Seq(Byte)
  BY <1>2, <1>3, SeqDef
<1>5. Len(LE(n, size)) = size
  BY <1>4
<1>6. Power256[1] = 1 /\ Power256[2] = 256 /\ Power256[3] = 65536
  BY DEF Power256
<1>7. n \div 1 = n
  BY <1>1
<1> QED
  BY <1>2, <1>4, <1>5, <1>6, <1>7

LEMMA NumberRead ==
  ASSUME NEW n \in Numbers, NEW size \in {1, 2, 4, 8}, size < 4 => n < Power256[size + 1],
         NEW bytes, Len(bytes) = size, \A i \in 1..size : bytes[i] = LE(n, size)[i]
  PROVE  FromLE(bytes) = n
<1> DEFINE at(i) == IF i > Len(bytes) THEN 0 ELSE bytes[i]
<1>1. n \in Nat /\ n < 16777216
  BY DEF Numbers
<1>2. Power256[2] = 256 /\ Power256[3] = 65536
  BY DEF Power256
<1>3. at(1) = n % 256
  BY LEIs
<1>4. at(2) = (n \div 256) % 256
  BY <1>1, <1>2, LEIs, Three
<1>5. at(3) = (n \div 65536) % 256
  BY <1>1, <1>2, LEIs, Three
<1>6. at(4) = 0 /\ at(5) = 0 /\ at(6) = 0 /\ at(7) = 0 /\ at(8) = 0
  BY LEIs
<1>7. FromLE(bytes) = at(1) + 256 * (at(2) + 256 * (at(3) + 256 * (at(4) +
       256 * (at(5) + 256 * (at(6) + 256 * (at(7) + 256 * at(8)))))))
  BY Zenon DEF FromLE
<1> HIDE DEF at
<1>8. FromLE(bytes) = (n % 256) + (256 * (((n \div 256) % 256) + (256 * ((n \div 65536) % 256))))
  BY <1>1, <1>3, <1>4, <1>5, <1>6, <1>7
<1> QED
  BY <1>1, <1>8, Three

\* A bit of a byte of the bitmap.
LEMMA BitOf ==
  ASSUME NEW on1 \in {0, 128}, NEW on2 \in {0, 64}, NEW on3 \in {0, 32}, NEW on4 \in {0, 16},
         NEW on5 \in {0, 8}, NEW on6 \in {0, 4}, NEW on7 \in {0, 2}, NEW on8 \in {0, 1},
         NEW sum, sum = on1 + on2 + on3 + on4 + on5 + on6 + on7 + on8
  PROVE  /\ (sum \div 128) % 2 = 1 <=> on1 # 0
         /\ (sum \div 64) % 2 = 1 <=> on2 # 0
         /\ (sum \div 32) % 2 = 1 <=> on3 # 0
         /\ (sum \div 16) % 2 = 1 <=> on4 # 0
         /\ (sum \div 8) % 2 = 1 <=> on5 # 0
         /\ (sum \div 4) % 2 = 1 <=> on6 # 0
         /\ (sum \div 2) % 2 = 1 <=> on7 # 0
         /\ (sum \div 1) % 2 = 1 <=> on8 # 0
OBVIOUS

-----------------------------------------------------------------------------
(***************************************************************************)
(* The row matrix.                                                         *)
(***************************************************************************)

LEMMA Quotient ==
  ASSUME NEW o \in Nat, NEW c \in Nat \ {0}
  PROVE  /\ o \div c \in Nat /\ o % c \in 0..(c - 1)
         /\ o = (o \div c) * c + (o % c)
OBVIOUS

LEMMA Divided ==
  ASSUME NEW q \in Nat, NEW c \in Nat \ {0}, NEW r \in 0..(c - 1)
  PROVE  q * c + r \in Nat /\ (q * c + r) \div c = q /\ (q * c + r) % c = r
OBVIOUS

LEMMA Multiple ==
  ASSUME NEW q \in Nat, NEW c \in Nat \ {0}
  PROVE  q * c \in Nat /\ (q * c) \div c = q
<1>1. 0 \in 0..(c - 1)
  OBVIOUS
<1>2. q * c + 0 \in Nat /\ (q * c + 0) \div c = q
  BY <1>1, Divided
<1>3. q * c \in Nat
  OBVIOUS
<1>4. q * c + 0 = q * c
  BY <1>3
<1> QED
  BY <1>2, <1>3, <1>4

\* Of numbers of whole things, all of one size.
LEMMA Whole ==
  ASSUME NEW a \in Nat, NEW b \in Nat, NEW c \in Nat, a < b
  PROVE  a * c \in Nat /\ b * c \in Nat /\ (a + 1) * c = a * c + c /\ a * c + c <= b * c
<1>1. a * c \in Nat /\ b * c \in Nat /\ (a + 1) * c = a * c + c
  OBVIOUS
<1>2. (a + 1) * c <= b * c
  OBVIOUS
<1> QED
  BY <1>1, <1>2

LEMMA RowIs ==
  /\ RowSize \in Nat \ {0} /\ ExistsStart \in Nat /\ ExistsStart > 3 /\ RowSize > ExistsStart
  /\ RowPage \in Nat /\ RowPage >= RowSize
BY RowsAssumption

LEMMA TableIs ==
  ASSUME NEW t \in Tables
  PROVE  /\ t.place \in {"none", "heap", "node"} /\ Len(t.rows) \in Nat
         /\ DOMAIN t.rows = 1..Len(t.rows)
         /\ t.place = "none" => Len(t.rows) = 0
BY RowsAssumption

\* Where a page has the bytes of a row.
At(row, offset) == row * RowSize + offset
Cut(s, at, length) == SubSeq(s, at + 1, at + length)
RowPart(r, offset, length) == [i \in 1..length |-> RowBytes(r)[offset + i]]

LEMMA RowInPage ==
  ASSUME NEW rows, Len(rows) \in Nat, NEW size \in Nat, NEW row \in Nat, row < Len(rows),
         NEW offset \in Nat, NEW length \in Nat,
         offset + length <= RowSize, At(row, RowSize) <= size
  PROVE  /\ Len(PageOf(rows, size)) = size
         /\ At(row, offset) \in Nat /\ At(row, offset) + length <= size
         /\ Cut(PageOf(rows, size), At(row, offset), length)
              = RowPart(rows[row + 1], offset, length)
<1>1. RowSize \in Nat \ {0}
  BY RowIs
<1>2. PICK R \in Nat \ {0} : R = RowSize
  BY <1>1
<1>3. PICK from \in Nat : from = row * R
  BY <1>2
<1>4. PICK at \in Nat : at = from + offset
  BY <1>3
<1>5. PICK page : page = PageOf(rows, size)
  OBVIOUS
<1>6. page = [b \in 1..size |-> page[b]]
  BY <1>5 DEF PageOf
<1>7. at + length <= size
  BY <1>2, <1>3, <1>4 DEF At
<1>8. ASSUME NEW i \in 1..length
      PROVE  page[at + i] = RowBytes(rows[row + 1])[offset + i]
  <2>1. PICK o \in 0..(R - 1) : o = offset + i - 1
    BY <1>2
  <2>2. at + i \in 1..size /\ (at + i) - 1 = from + o
    BY <1>3, <1>4, <1>7, <2>1
  <2>3. (from + o) \div R = row /\ (from + o) % R = o
    BY <1>3, Divided
  <2>4. ~(row + 1 > Len(rows))
    OBVIOUS
  <2>5. page[at + i] = LET j == (at + i - 1) \div RowSize + 1
                       IN IF j > Len(rows) THEN Stale
                          ELSE RowBytes(rows[j])[((at + i - 1) % RowSize) + 1]
    BY <1>5, <2>2 DEF PageOf
  <2>6. page[at + i] = RowBytes(rows[row + 1])[o + 1]
    BY <1>2, <2>2, <2>3, <2>4, <2>5
  <2> QED
    BY <2>1, <2>6
<1>9. Len(page) = size
  BY <1>6, LenIs
<1>10. SubSeq(page, at + 1, at + length) = [i \in 1..length |-> page[at + i]]
  BY Part
<1>11. SubSeq(page, at + 1, at + length)
         = [i \in 1..length |-> RowBytes(rows[row + 1])[offset + i]]
  BY <1>8, <1>10
<1>12. at = At(row, offset)
  BY <1>2, <1>3, <1>4 DEF At
<1>13. Cut(page, at, length) = RowPart(rows[row + 1], offset, length)
  BY <1>11, Zenon DEF Cut, RowPart
<1> QED
  BY <1>4, <1>5, <1>7, <1>9, <1>12, <1>13

\* Of N rows, n in each page: how many pages there are, and the rows of one
\* page and their number.
PagesFor(N, n) == (N + n - 1) \div n
HeldBy(N, n, page) == IF page + 1 < PagesFor(N, n) THEN n ELSE N - (PagesFor(N, n) - 1) * n
RowsOf(rows, n, page) == SubSeq(rows, page * n + 1, Smaller((page + 1) * n, Len(rows)))
NodePage(rows, n, page) ==
  PageOf(RowsOf(rows, n, page),
         IF page + 1 < PagesFor(Len(rows), n) THEN RowPage
         ELSE HeldBy(Len(rows), n, page) * RowSize)

LEMMA PageCount ==
  ASSUME NEW N \in Nat, NEW n \in Nat \ {0}, NEW count, count = PagesFor(N, n)
  PROVE  /\ count \in Nat
         /\ N = 0 => count = 0
         /\ N # 0 => count # 0 /\ (count - 1) * n \in Nat /\ (count - 1) * n < N
         /\ count * n \in Nat /\ N <= count * n
<1>1. PICK o \in Nat : o = N + n - 1
  OBVIOUS
<1>2. PICK r \in 0..(n - 1) : r = o % n
  BY <1>1, Quotient
<1>3. count \in Nat /\ o = count * n + r
  BY <1>1, <1>2, Quotient DEF PagesFor
<1>4. PICK all \in Nat : all = count * n
  BY <1>3
<1>5. N + n - 1 = all + r
  BY <1>1, <1>3, <1>4
<1>6. N <= all /\ all < N + n
  BY <1>5
<1>7. (count - 1) * n = all - n
  BY <1>3, <1>4
<1>8. count = 0 => all = 0
  BY <1>4
<1>9. count # 0 => all >= n
  <2>1. count # 0 => (count - 1) \in Nat
    BY <1>3
  <2>2. count # 0 => (count - 1) * n \in Nat
    BY <2>1
  <2> QED
    BY <1>4, <1>7, <2>2
<1> QED
  BY <1>3, <1>4, <1>6, <1>7, <1>8, <1>9

\* The rows of a page: the pages but the last are full.
LEMMA RowsOfPage ==
  ASSUME NEW rows, NEW N \in Nat, Len(rows) = N, N # 0,
         NEW n \in Nat \ {0}, NEW page \in 0..(PagesFor(N, n) - 1)
  PROVE  /\ HeldBy(N, n, page) \in 1..n /\ Len(RowsOf(rows, n, page)) = HeldBy(N, n, page)
         /\ \A k \in 0..(HeldBy(N, n, page) - 1) :
              RowsOf(rows, n, page)[k + 1] = rows[page * n + k + 1]
<1>1. PICK count : count = PagesFor(N, n) /\ page \in 0..(count - 1)
  OBVIOUS
<1>2. PICK of : /\ of = RowsOf(rows, n, page)
                /\ of = SubSeq(rows, page * n + 1, Smaller((page + 1) * n, N))
  BY DEF RowsOf
<1>3. PICK held : /\ held = HeldBy(N, n, page)
                  /\ held = IF page + 1 < count THEN n ELSE N - (count - 1) * n
  BY <1>1 DEF HeldBy
<1> SUFFICES /\ held \in 1..n /\ Len(of) = held
             /\ \A k \in 0..(held - 1) : of[k + 1] = rows[page * n + k + 1]
  BY <1>2, <1>3, Zenon
<1>4. /\ count \in Nat /\ count # 0 /\ (count - 1) * n \in Nat /\ (count - 1) * n < N
      /\ count * n \in Nat /\ N <= count * n
  BY <1>1, PageCount
<1>5. PICK before \in Nat : before = page * n
  BY <1>4
<1>6. (page + 1) * n = before + n
  BY <1>4, <1>5
<1>7. CASE page + 1 < count
  <2>1. page \in Nat /\ page + 1 \in Nat /\ count - 1 \in Nat /\ page + 1 <= count - 1
    BY <1>1, <1>4, <1>7
  <2>2. (page + 1) * n <= (count - 1) * n
    BY <2>1
  <2>3. before + n < N
    BY <1>4, <1>6, <2>2
  <2>4. Smaller((page + 1) * n, N) = before + n
    BY <1>6, <2>3 DEF Smaller
  <2>5. PICK m \in Nat : m = n
    OBVIOUS
  <2>6. of = SubSeq(rows, before + 1, before + m) /\ held = m /\ m \in 1..n
    BY <1>2, <1>3, <1>5, <1>7, <2>4, <2>5
  <2>7. /\ SubSeq(rows, before + 1, before + m) = [k \in 1..m |-> rows[before + k]]
        /\ Len(SubSeq(rows, before + 1, before + m)) = m
    BY Part
  <2>8. Len(of) = m /\ \A j \in 1..m : of[j] = rows[before + j]
    <3>1. of = [k \in 1..m |-> rows[before + k]] /\ Len(of) = m
      BY <2>6, <2>7, Zenon
    <3> QED
      BY <3>1, Zenon
  <2>9. ASSUME NEW k \in 0..(m - 1)
        PROVE  of[k + 1] = rows[before + k + 1]
    <3>1. k + 1 \in 1..m /\ before + (k + 1) = before + k + 1
      BY <2>5
    <3> QED
      BY <2>8, <3>1
  <2> QED
    BY <1>5, <2>6, <2>8, <2>9
<1>8. CASE ~(page + 1 < count)
  <2>1. page = count - 1
    BY <1>1, <1>4, <1>8
  <2>2. before < N /\ before + n >= N
    <3>1. count * n = before + n
      BY <1>6, <2>1, <1>4
    <3> QED
      BY <1>4, <1>5, <2>1, <3>1
  <2>3. Smaller((page + 1) * n, N) = N
    BY <1>6, <2>2 DEF Smaller
  <2>4. PICK m \in 1..n : m = N - before
    BY <2>2
  <2>5. held = m /\ N = before + m
    BY <1>3, <1>5, <1>8, <2>1, <2>4
  <2>6. of = SubSeq(rows, before + 1, before + m) /\ m \in Nat
    BY <1>2, <1>5, <2>3, <2>4, <2>5
  <2>7. /\ SubSeq(rows, before + 1, before + m) = [k \in 1..m |-> rows[before + k]]
        /\ Len(SubSeq(rows, before + 1, before + m)) = m
    BY <2>6, Part
  <2>8. Len(of) = m /\ \A j \in 1..m : of[j] = rows[before + j]
    <3>1. of = [k \in 1..m |-> rows[before + k]] /\ Len(of) = m
      BY <2>6, <2>7, Zenon
    <3> QED
      BY <3>1, Zenon
  <2>9. ASSUME NEW k \in 0..(m - 1)
        PROVE  of[k + 1] = rows[before + k + 1]
    <3>1. k + 1 \in 1..m /\ before + (k + 1) = before + k + 1
      OBVIOUS
    <3> QED
      BY <2>8, <3>1
  <2> QED
    BY <1>5, <2>5, <2>8, <2>9
<1> QED
  BY <1>7, <1>8

\* The pages of a row matrix in a subnode.
LEMMA PagesOfNode ==
  ASSUME NEW t \in Tables, t.place = "node", Len(t.rows) # 0
  PROVE  \E N \in Nat \ {0}, n \in Nat \ {0}, count \in Nat \ {0} :
           /\ N = Len(t.rows) /\ n = RowPage \div RowSize /\ count = PagesFor(N, n)
           /\ n * RowSize \in Nat /\ n * RowSize <= RowPage
           /\ Len(Matrix[t]) = count
           /\ \A page \in 0..(count - 1) :
                Matrix[t][page + 1] = NodePage(t.rows, n, page)
<1>1. PICK N, n, count : N = Len(t.rows) /\ n = RowPage \div RowSize /\ count = PagesFor(N, n)
  OBVIOUS
<1>2. N \in Nat \ {0}
  BY <1>1, TableIs
<1>3. n \in Nat \ {0} /\ n * RowSize \in Nat /\ n * RowSize <= RowPage
  <2>1. PICK R \in Nat \ {0} : R = RowSize
    BY RowIs
  <2>2. PICK Q \in Nat : Q = RowPage /\ Q >= R
    BY <2>1, RowIs
  <2>3. PICK r \in 0..(R - 1) : r = Q % R
    BY <2>1, <2>2, Quotient
  <2>4. n \in Nat /\ Q = n * R + r
    BY <1>1, <2>1, <2>2, <2>3, Quotient
  <2>5. n # 0
    <3>1. n = 0 => n * R = 0
      OBVIOUS
    <3> QED
      BY <2>2, <2>3, <2>4, <3>1
  <2>6. PICK all \in Nat : all = n * R
    BY <2>4
  <2>7. all <= Q
    BY <2>3, <2>4, <2>6
  <2> QED
    BY <2>1, <2>2, <2>4, <2>5, <2>6, <2>7
<1>4. count \in Nat \ {0}
  BY <1>1, <1>2, <1>3, PageCount
<1> DEFINE of(i) == SubSeq(t.rows, (i - 1) * n + 1, Smaller(i * n, Len(t.rows)))
           P(i) == PageOf(of(i), IF i < count THEN RowPage ELSE Len(of(i)) * RowSize)
<1>5. Matrix[t] = [i \in 1..count |-> P(i)]
  <2>1. Matrix[t] = RowPages(t)
    BY DEF Matrix
  <2>2. t.place # "heap" /\ count # 0
    BY <1>4
  <2> QED
    BY <1>1, <2>1, <2>2 DEF RowPages, PagesFor
<1>6. Len(Matrix[t]) = count
  <2>1. Matrix[t] = [i \in 1..count |-> Matrix[t][i]]
    BY <1>5
  <2>2. count \in Nat
    BY <1>4
  <2> HIDE DEF P
  <2> QED
    BY <2>1, <2>2, LenIs
<1>7. ASSUME NEW page \in 0..(count - 1)
      PROVE  Matrix[t][page + 1] = NodePage(t.rows, n, page)
  <2>1. page + 1 \in 1..count /\ (page + 1) - 1 = page
    BY <1>4
  <2>2. Matrix[t][page + 1] = P(page + 1)
    BY <1>5, <2>1
  <2>3. of(page + 1) = RowsOf(t.rows, n, page)
    BY <1>1, <2>1 DEF RowsOf
  <2>4. Len(RowsOf(t.rows, n, page)) = HeldBy(N, n, page)
    <3>1. n \in Nat \ {0}
      BY <1>3
    <3> PICK rows : rows = t.rows
      OBVIOUS
    <3> PICK M \in Nat : M = N
      BY <1>2
    <3> PICK m \in Nat \ {0} : m = n
      BY <3>1
    <3>2. rows = t.rows /\ M = N /\ m = n
      OBVIOUS
    <3>3. PICK p \in 0..(PagesFor(M, m) - 1) : p = page
      BY <1>1, <3>2
    <3>4. Len(rows) = M /\ M # 0
      BY <1>1, <1>2, <3>2
    <3>5. Len(RowsOf(rows, m, p)) = HeldBy(M, m, p)
      BY <3>4, RowsOfPage
    <3> QED
      BY <3>2, <3>3, <3>5
  <2>5. NodePage(t.rows, n, page) =
          PageOf(RowsOf(t.rows, n, page),
                 IF page + 1 < count THEN RowPage ELSE HeldBy(N, n, page) * RowSize)
    BY <1>1 DEF NodePage
  <2> QED
    BY <2>2, <2>3, <2>4, <2>5
<1> QED
  BY <1>1, <1>2, <1>3, <1>4, <1>6, <1>7, Zenon

LEMMA PageLength ==
  ASSUME NEW rows, NEW size \in Nat
  PROVE  Len(PageOf(rows, size)) = size
<1>1. PICK p : p = PageOf(rows, size)
  OBVIOUS
<1>2. p = [b \in 1..size |-> p[b]]
  BY <1>1 DEF PageOf
<1> QED
  BY <1>1, <1>2, LenIs

\* How many rows there are in a page of a subnode, and in its last one.
LEMMA RowsInPages ==
  ASSUME table \in Tables, table.place = "node", Len(table.rows) # 0
  PROVE  \E N \in Nat \ {0}, n \in Nat \ {0}, count \in Nat \ {0} :
           /\ N = Len(table.rows) /\ n * RowSize \in Nat /\ n * RowSize <= RowPage
           /\ count = PagesFor(N, n) /\ Len(Pages) = count
           /\ RowsPerPage = IF count > 1 THEN n ELSE N
           /\ Len(LastPage) \div RowSize = N - (count - 1) * n
           /\ \A page \in 0..(count - 1) :
                Pages[page + 1] = NodePage(table.rows, n, page)
<1>1. PICK t \in Tables : t = table
  OBVIOUS
<1>2. Len(t.rows) # 0 /\ t.place = "node" /\ Pages = Matrix[t]
  BY <1>1 DEF Pages
<1>3. RowSize \in Nat \ {0} /\ RowPage \in Nat
  BY RowIs
<1>4. PICK M \in Nat \ {0}, m \in Nat \ {0}, c \in Nat \ {0} :
        /\ M = Len(t.rows) /\ m = RowPage \div RowSize /\ c = PagesFor(M, m)
        /\ m * RowSize \in Nat /\ m * RowSize <= RowPage
        /\ Len(Matrix[t]) = c
        /\ \A page \in 0..(c - 1) :
             Matrix[t][page + 1] = NodePage(t.rows, m, page)
  BY <1>2, PagesOfNode, Zenon
<1>5. M = Len(t.rows) /\ m = RowPage \div RowSize /\ c = PagesFor(M, m) /\ Len(Pages) = c
  BY <1>2, <1>4, Zenon
<1>6. m * RowSize \in Nat /\ m * RowSize <= RowPage
  BY <1>4
<1>7. ASSUME NEW page \in 0..(c - 1)
      PROVE  Pages[page + 1] = NodePage(t.rows, m, page)
  BY <1>2, <1>4, Zenon
<1>8. ASSUME NEW page \in 0..(c - 1)
      PROVE  /\ HeldBy(M, m, page) \in Nat
             /\ Len(Pages[page + 1]) \div RowSize = HeldBy(M, m, page)
  <2> PICK rows : rows = t.rows
    OBVIOUS
  <2>1. Len(rows) = M /\ page \in 0..(PagesFor(M, m) - 1)
    BY <1>5, <1>7
  <2>2. HeldBy(M, m, page) \in 1..m
    BY <2>1, RowsOfPage
  <2> PICK held \in Nat : held = HeldBy(M, m, page)
    BY <2>2
  <2>3. held * RowSize \in Nat /\ (held * RowSize) \div RowSize = held
    BY <1>3, Multiple
  <2>4. Pages[page + 1] =
          PageOf(RowsOf(rows, m, page), IF page + 1 < c THEN RowPage ELSE held * RowSize)
    BY <1>5, <1>7 DEF NodePage
  <2>5. CASE page + 1 < c
    <3>1. Len(Pages[page + 1]) = RowPage
      BY <1>3, <2>4, <2>5, PageLength
    <3>2. HeldBy(M, m, page) = m
      BY <1>5, <1>7, <2>5 DEF HeldBy
    <3> QED
      BY <1>5, <1>7, <3>1, <3>2
  <2>6. CASE ~(page + 1 < c)
    <3>1. Len(Pages[page + 1]) = held * RowSize
      BY <2>3, <2>4, <2>6, PageLength
    <3> QED
      BY <2>3, <3>1
  <2> QED
    BY <2>5, <2>6
<1>9. RowsPerPage = IF c > 1 THEN m ELSE M
  <2>1. 0 \in 0..(c - 1) /\ 0 + 1 = 1
    OBVIOUS
  <2>2. Len(Pages[1]) \div RowSize = HeldBy(M, m, 0)
    BY <1>8, <2>1
  <2>3. HeldBy(M, m, 0) = IF 0 + 1 < c THEN m ELSE M - (c - 1) * m
    BY <1>5 DEF HeldBy
  <2>4. CASE c > 1
    BY <2>2, <2>3, <2>4 DEF RowsPerPage
  <2>5. CASE ~(c > 1)
    <3>1. c = 1 /\ (c - 1) * m = 0
      BY <2>5
    <3> QED
      BY <2>2, <2>3, <3>1 DEF RowsPerPage
  <2> QED
    BY <2>4, <2>5
<1>10. Len(LastPage) \div RowSize = M - (c - 1) * m
  <2>1. PICK page \in 0..(c - 1) : page + 1 = c
    OBVIOUS
  <2>2. Len(Pages[page + 1]) \div RowSize = HeldBy(M, m, page)
    BY <1>8
  <2>3. HeldBy(M, m, page) = M - (c - 1) * m
    BY <1>5, <1>7, <2>1 DEF HeldBy
  <2> QED
    BY <1>5, <1>7, <2>1, <2>2, <2>3 DEF LastPage
<1> QED
  BY <1>1, <1>5, <1>6, <1>7, <1>9, <1>10, Zenon

LEMMA TableSizeIs ==
  ASSUME table \in Tables
  PROVE  TableSize = Len(table.rows)
<1>1. PICK N \in Nat : N = Len(table.rows)
  BY TableIs
<1>2. CASE table.place = "none"
  BY <1>2, TableIs DEF TableSize
<1>3. CASE table.place = "heap"
  <2>1. Pages = <<PageOf(table.rows, N * RowSize)>>
    BY <1>1, <1>3 DEF Pages, Matrix, RowPages
  <2>2. N * RowSize \in Nat /\ (N * RowSize) \div RowSize = N
    BY RowIs, Multiple
  <2>3. PICK p : p = PageOf(table.rows, N * RowSize)
    OBVIOUS
  <2>4. PICK size \in Nat : size = N * RowSize
    BY <2>2
  <2>5. p = [b \in 1..size |-> p[b]]
    BY <2>3, <2>4 DEF PageOf
  <2>6. Len(p) = size
    BY <2>5, LenIs
  <2>7. Len(Pages[1]) = N * RowSize
    BY <2>1, <2>3, <2>4, <2>6
  <2> QED
    BY <1>1, <1>3, <2>2, <2>7 DEF TableSize
<1>4. CASE table.place = "node" /\ N = 0
  <2>1. Pages = <<(<<>>)>>
    <3>1. PICK n : n = RowPage \div RowSize
      OBVIOUS
    <3>2. n \in Nat \ {0}
      <4>1. n \in Nat /\ RowPage = n * RowSize + (RowPage % RowSize)
              /\ RowPage % RowSize \in 0..(RowSize - 1)
        BY <3>1, RowIs, Quotient
      <4>2. n = 0 => n * RowSize = 0
        BY RowIs
      <4> QED
        BY <4>1, <4>2, RowIs
    <3>3. (N + n - 1) \div n = 0
      BY <1>4, <3>2, PageCount DEF PagesFor
    <3>4. Pages = RowPages(table) /\ table.place # "heap"
      BY <1>4 DEF Pages, Matrix
    <3> QED
      BY <1>1, <3>1, <3>3, <3>4 DEF RowPages
  <2>2. Len(Pages) = 1 /\ Len(Pages[1]) = 0
    BY <2>1
  <2>3. 0 \div RowSize = 0
    BY RowIs
  <2>4. RowsPerPage = 0 /\ Len(LastPage) \div RowSize = 0
    BY <2>2, <2>3 DEF RowsPerPage, LastPage
  <2>5. TableSize = (Len(Pages) - 1) * RowsPerPage + Len(LastPage) \div RowSize
    BY <1>4 DEF TableSize
  <2> QED
    BY <1>1, <1>4, <2>2, <2>4, <2>5
<1>5. CASE table.place = "node" /\ N # 0
  <2>1. PICK M \in Nat \ {0}, n \in Nat \ {0}, count \in Nat \ {0} :
          /\ M = Len(table.rows) /\ Len(Pages) = count
          /\ RowsPerPage = IF count > 1 THEN n ELSE M
          /\ Len(LastPage) \div RowSize = M - (count - 1) * n
    BY <1>1, <1>5, RowsInPages, Zenon
  <2>2. TableSize = (count - 1) * RowsPerPage + (M - (count - 1) * n)
    BY <1>5, <2>1 DEF TableSize
  <2>3. CASE count > 1
    <3>1. PICK before \in Nat : before = (count - 1) * n
      OBVIOUS
    <3>2. TableSize = before + (M - before)
      BY <2>1, <2>2, <2>3, <3>1
    <3> QED
      BY <2>1, <3>2
  <2>4. CASE ~(count > 1)
    <3>1. count = 1 /\ (count - 1) * n = 0 /\ (count - 1) * RowsPerPage = 0
      <4>1. count = 1
        BY <2>4
      <4>2. RowsPerPage = M
        BY <2>1, <4>1
      <4> QED
        BY <4>1, <4>2
    <3>2. TableSize = 0 + (M - 0)
      BY <2>2, <3>1
    <3> QED
      BY <2>1, <3>2
  <2> QED
    BY <2>3, <2>4
<1> QED
  BY <1>1, <1>2, <1>3, <1>4, <1>5, TableIs

\* Which page a row is in, and where.
Each(N, n) == IF PagesFor(N, n) > 1 THEN n ELSE N

LEMMA PageOfRow ==
  ASSUME NEW N \in Nat \ {0}, NEW n \in Nat \ {0}, NEW row \in 0..(N - 1)
  PROVE  \E page \in 0..(PagesFor(N, n) - 1) : \E k \in 0..(HeldBy(N, n, page) - 1) :
           /\ page = row \div Each(N, n) /\ k = row % Each(N, n)
           /\ row = page * n + k
<1>1. PICK count : count = PagesFor(N, n)
  OBVIOUS
<1>2. PICK each : each = Each(N, n) /\ each = IF count > 1 THEN n ELSE N
  BY <1>1 DEF Each
<1>3. /\ (count - 1) * n \in Nat /\ (count - 1) * n < N
      /\ count * n \in Nat /\ N <= count * n /\ count \in Nat \ {0}
  BY <1>1, PageCount
<1>4. CASE count > 1
  <2>1. row \in Nat
    OBVIOUS
  <2>2. row \div n \in Nat /\ row % n \in 0..(n - 1) /\ row = (row \div n) * n + (row % n)
    BY <2>1, Quotient
  <2>3. PICK page \in Nat, r \in 0..(n - 1) : page = row \div n /\ r = row % n
    BY <2>2
  <2>4. row = page * n + r
    BY <2>2, <2>3
  <2>5. PICK before \in Nat : before = page * n
    OBVIOUS
  <2>6. page < count
    <3>1. page >= count => page * n >= count * n
      BY <1>3
    <3> QED
      BY <1>3, <2>4, <2>5, <3>1
  <2>7. HeldBy(N, n, page) = IF page + 1 < count THEN n ELSE N - (count - 1) * n
    BY <1>1 DEF HeldBy
  <2>8. r \in 0..(HeldBy(N, n, page) - 1)
    <3>1. CASE page + 1 < count
      BY <2>7, <3>1
    <3>2. CASE ~(page + 1 < count)
      <4>1. page = count - 1
        BY <1>3, <2>6, <3>2
      <4>2. HeldBy(N, n, page) = N - before
        BY <2>5, <2>7, <3>2, <4>1
      <4> QED
        BY <2>4, <2>5, <4>2
    <3> QED
      BY <3>1, <3>2
  <2>9. each = n
    BY <1>2, <1>4
  <2>10. page \in 0..(count - 1)
    BY <1>3, <2>6
  <2> QED
    BY <1>1, <1>2, <2>3, <2>4, <2>8, <2>9, <2>10, Zenon
<1>5. CASE ~(count > 1)
  <2>1. count = 1 /\ each = N
    BY <1>3, <1>2, <1>5
  <2>2. row \div N = 0 /\ row % N = row
    OBVIOUS
  <2>3. HeldBy(N, n, 0) = IF 0 + 1 < count THEN n ELSE N - (count - 1) * n
    BY <1>1 DEF HeldBy
  <2>4. (count - 1) * n = 0 /\ ~(0 + 1 < count)
    BY <2>1
  <2>5. HeldBy(N, n, 0) = N
    BY <2>3, <2>4
  <2>6. row = 0 * n + row /\ 0 \in 0..(count - 1)
    BY <2>1
  <2> QED
    BY <1>1, <1>2, <2>1, <2>2, <2>5, <2>6, Zenon
<1> QED
  BY <1>4, <1>5

LEMMA RowInHeapPage ==
  ASSUME NEW rows, Len(rows) \in Nat, NEW row \in Nat, row < Len(rows),
         NEW offset \in Nat, NEW size \in Nat, offset + size <= RowSize
  PROVE  Cut(PageOf(rows, Len(rows) * RowSize), At(row, offset), size)
           = RowPart(rows[row + 1], offset, size)
<1>1. Len(rows) * RowSize \in Nat /\ row * RowSize + RowSize <= Len(rows) * RowSize
  <2>1. RowSize \in Nat
    BY RowIs
  <2> QED
    BY <2>1, Whole
<1>2. PICK all \in Nat : all = Len(rows) * RowSize
  BY <1>1
<1>3. At(row, RowSize) <= all
  BY <1>1, <1>2 DEF At
<1>4. Cut(PageOf(rows, all), At(row, offset), size) = RowPart(rows[row + 1], offset, size)
  BY <1>3, RowInPage
<1> QED
  BY <1>2, <1>4

LEMMA RowInNodePage ==
  ASSUME NEW rows, Len(rows) \in Nat \ {0}, NEW n \in Nat \ {0},
         n * RowSize \in Nat, n * RowSize <= RowPage,
         NEW page \in 0..(PagesFor(Len(rows), n) - 1),
         NEW k \in 0..(HeldBy(Len(rows), n, page) - 1),
         NEW offset \in Nat, NEW size \in Nat, offset + size <= RowSize
  PROVE  /\ At(k, offset) \in Nat /\ Len(NodePage(rows, n, page)) \in Nat
         /\ At(k, offset) + size <= Len(NodePage(rows, n, page))
         /\ Cut(NodePage(rows, n, page), At(k, offset), size)
              = RowPart(rows[page * n + k + 1], offset, size)
<1>1. PICK of : of = RowsOf(rows, n, page)
  OBVIOUS
<1>2. /\ HeldBy(Len(rows), n, page) \in 1..n
      /\ Len(RowsOf(rows, n, page)) = HeldBy(Len(rows), n, page)
      /\ RowsOf(rows, n, page)[k + 1] = rows[page * n + k + 1]
  <2>1. PICK N \in Nat : N = Len(rows)
    OBVIOUS
  <2>2. PICK p \in 0..(PagesFor(N, n) - 1) : p = page
    BY <2>1
  <2>3. Len(rows) = N /\ N # 0
    BY <2>1
  <2>4. /\ HeldBy(N, n, p) \in 1..n /\ Len(RowsOf(rows, n, p)) = HeldBy(N, n, p)
        /\ \A j \in 0..(HeldBy(N, n, p) - 1) : RowsOf(rows, n, p)[j + 1] = rows[p * n + j + 1]
    BY <2>3, RowsOfPage
  <2> QED
    BY <2>1, <2>2, <2>4
<1>3. PICK held \in Nat : held = HeldBy(Len(rows), n, page) /\ held \in 1..n
  BY <1>2
<1>4. /\ Len(of) = held /\ of[k + 1] = rows[page * n + k + 1]
      /\ k \in 0..(held - 1) /\ k \in Nat /\ k < Len(of) /\ Len(of) \in Nat
  BY <1>2, <1>1, <1>3
<1>5. k * RowSize + RowSize <= n * RowSize /\ k * RowSize + RowSize <= held * RowSize
      /\ held * RowSize \in Nat /\ k * RowSize \in Nat
  <2>1. k \in Nat /\ k < held /\ k < n /\ n \in Nat /\ RowSize \in Nat
    BY <1>3, <1>4, RowIs
  <2> QED
    BY <2>1, Whole
<1>6. PICK length :
        length = IF page + 1 < PagesFor(Len(rows), n) THEN RowPage ELSE held * RowSize
  OBVIOUS
<1>7. length \in Nat /\ At(k, RowSize) <= length
  BY <1>5, <1>6, RowIs DEF At
<1>8. NodePage(rows, n, page) = PageOf(of, length)
  BY <1>1, <1>3, <1>6 DEF NodePage
<1>9. k \in Nat /\ k < Len(of) /\ Len(of) \in Nat
  BY <1>4
<1>10. /\ Len(PageOf(of, length)) = length
       /\ At(k, offset) \in Nat /\ At(k, offset) + size <= length
       /\ Cut(PageOf(of, length), At(k, offset), size) = RowPart(of[k + 1], offset, size)
  BY <1>7, <1>9, RowInPage
<1> QED
  BY <1>4, <1>7, <1>8, <1>10

\* What read_raw_row and read_exists_bitmap return.
LEMMA RowRead ==
  ASSUME table \in Tables, table.place # "none", NEW row \in 0..Len(table.rows),
         NEW offset \in Nat, NEW size \in Nat, offset + size <= RowSize
  PROVE  ReadRow(row, offset, size) =
           IF row = Len(table.rows) THEN Throws("out_of_range")
           ELSE Value(RowPart(table.rows[row + 1], offset, size))
<1>1. PICK N \in Nat : N = Len(table.rows)
  BY TableIs
<1>2. TableSize = N /\ row \in 0..N
  BY <1>1, TableSizeIs
<1>3. CASE row = N
  BY <1>1, <1>2, <1>3 DEF ReadRow
<1>4. CASE row # N
  <2>1. row \in 0..(N - 1) /\ ~(row >= TableSize) /\ row # Len(table.rows)
    BY <1>1, <1>2, <1>4
  <2>2. PICK rows : rows = table.rows
    OBVIOUS
  <2>3. CASE table.place = "heap"
    <3>1. Pages[1] = PageOf(rows, Len(rows) * RowSize)
      BY <2>2, <2>3 DEF Pages, Matrix, RowPages
    <3>2. Len(rows) \in Nat /\ row \in Nat /\ row < Len(rows)
      BY <1>1, <2>1, <2>2
    <3>3. Cut(PageOf(rows, Len(rows) * RowSize), At(row, offset), size)
            = RowPart(rows[row + 1], offset, size)
      BY <3>2, RowInHeapPage
    <3>4. ReadRow(row, offset, size) = Value(Cut(Pages[1], At(row, offset), size))
      BY <2>1, <2>3 DEF ReadRow, Cut, At
    <3> QED
      BY <2>1, <2>2, <3>1, <3>3, <3>4
  <2>4. CASE table.place = "node"
    <3>1. PICK M \in Nat \ {0}, n \in Nat \ {0}, count \in Nat \ {0} :
            /\ M = Len(table.rows) /\ n * RowSize \in Nat /\ n * RowSize <= RowPage
            /\ count = PagesFor(M, n) /\ Len(Pages) = count
            /\ RowsPerPage = IF count > 1 THEN n ELSE M
            /\ Len(LastPage) \div RowSize = M - (count - 1) * n
            /\ \A page \in 0..(count - 1) :
                 Pages[page + 1] = NodePage(table.rows, n, page)
      <4>1. Len(table.rows) # 0
        BY <1>1, <2>1
      <4> QED
        BY <2>4, <4>1, RowsInPages, Zenon
    <3>2. row \in 0..(M - 1) /\ Len(rows) = M
      BY <1>1, <2>1, <2>2, <3>1
    <3>3. RowsPerPage = Each(M, n)
      BY <3>1 DEF Each
    <3>4. PICK page \in 0..(PagesFor(M, n) - 1) : \E k \in 0..(HeldBy(M, n, page) - 1) :
            page = row \div Each(M, n) /\ k = row % Each(M, n) /\ row = page * n + k
      BY <3>2, PageOfRow, Zenon
    <3>5. PICK k \in 0..(HeldBy(M, n, page) - 1) :
            page = row \div Each(M, n) /\ k = row % Each(M, n) /\ row = page * n + k
      BY <3>4
    <3>6. PICK bytes : bytes = Pages[page + 1]
      OBVIOUS
    <3>7. bytes = NodePage(rows, n, page)
      BY <2>2, <3>1, <3>6
    <3>8. /\ At(k, offset) \in Nat /\ Len(bytes) \in Nat /\ At(k, offset) + size <= Len(bytes)
          /\ Cut(bytes, At(k, offset), size) = RowPart(rows[page * n + k + 1], offset, size)
      <4>1. /\ n * RowSize \in Nat /\ n * RowSize <= RowPage /\ Len(rows) \in Nat \ {0}
            /\ page \in 0..(PagesFor(Len(rows), n) - 1)
            /\ k \in 0..(HeldBy(Len(rows), n, page) - 1)
        BY <3>1, <3>2
      <4> QED
        BY <3>7, <4>1, RowInNodePage
    <3>9. ReadRow(row, offset, size) = Value(Cut(bytes, At(k, offset), size))
      <4>1. ~(page >= Len(Pages)) /\ ~(At(k, offset) + size > Len(bytes))
        BY <3>1, <3>8
      <4>2. table.place # "heap" /\ page = row \div RowsPerPage /\ k = row % RowsPerPage
        BY <2>4, <3>3, <3>5
      <4> QED
        BY <2>1, <3>6, <4>1, <4>2, Zenon DEF ReadRow, Cut, At
    <3> QED
      BY <2>1, <2>2, <3>5, <3>8, <3>9
  <2> QED
    BY <2>3, <2>4, TableIs
<1> QED
  BY <1>1, <1>3, <1>4

-----------------------------------------------------------------------------
(***************************************************************************)
(* The bytes of a row.                                                     *)
(***************************************************************************)

LEMMA ColumnIs ==
  ASSUME NEW p \in DOMAIN Columns
  PROVE  /\ Columns[p].size \in {1, 2, 4, 8} /\ Columns[p].offset \in Nat /\ Columns[p].offset >= 4
         /\ Columns[p].offset + Columns[p].size <= ExistsStart
         /\ Columns[p].bit \in Nat /\ Columns[p].bit < 8 * (RowSize - ExistsStart)
         /\ \A q \in DOMAIN Columns \ {p} :
              /\ Columns[q].bit # Columns[p].bit
              /\ Apart(Columns[p].offset, Columns[p].size, Columns[q].offset, Columns[q].size)
<1>1. /\ Columns[p].size \in {1, 2, 4, 8}
      /\ Columns[p].offset \in 4..(ExistsStart - Columns[p].size)
      /\ Columns[p].bit \in 0..(8 * (RowSize - ExistsStart) - 1)
      /\ \A q \in DOMAIN Columns \ {p} :
           /\ Columns[q].bit # Columns[p].bit
           /\ Apart(Columns[p].offset, Columns[p].size, Columns[q].offset, Columns[q].size)
  BY RowsAssumption, Zenon
<1>2. Columns[p].offset \in Nat /\ Columns[p].offset >= 4
      /\ Columns[p].offset + Columns[p].size <= ExistsStart
  <2>1. PICK size \in {1, 2, 4, 8} : size = Columns[p].size
    BY <1>1
  <2>2. Columns[p].offset \in 4..(ExistsStart - size)
    BY <1>1, <2>1
  <2> QED
    BY <2>1, <2>2, RowIs
<1>3. Columns[p].bit \in Nat /\ Columns[p].bit < 8 * (RowSize - ExistsStart)
  BY <1>1, RowIs
<1> QED
  BY <1>1, <1>2, <1>3

\* A row as it is kept.
RowKept(r) ==
  /\ r.id \in Numbers
  /\ \A p \in DOMAIN r.props :
       /\ p \in DOMAIN Columns /\ r.props[p].type = Columns[p].type
       /\ r.props[p] \in AllProps
       /\ Columns[p].size < 4 => InCell(r.props[p]) < Power256[Columns[p].size + 1]

LEMMA RowIsKept ==
  ASSUME NEW t \in Tables, NEW i \in 1..Len(t.rows)
  PROVE  RowKept(t.rows[i])
<1>1. i \in DOMAIN t.rows
  BY TableIs
<1>2. /\ t.rows[i].id \in Numbers
      /\ \A p \in DOMAIN t.rows[i].props :
           LET v == t.rows[i].props[p]
           IN /\ p \in DOMAIN Columns /\ v.type = Columns[p].type
              /\ Columns[p].size < 4 => InCell(v) < Power256[Columns[p].size + 1]
  BY <1>1, RowsAssumption, Zenon
<1>3. ASSUME NEW p \in DOMAIN t.rows[i].props
      PROVE  t.rows[i].props[p] \in AllProps
  BY <1>1 DEF AllProps
<1> QED
  BY <1>2, <1>3 DEF RowKept

LEMMA NumberIs ==
  ASSUME NEW v \in AllProps
  PROVE  /\ v.type \in Small \cup {"longlong"} => Number(v.type, v.value) \in Numbers
         /\ v.type = "short" => v.value < 65536
         /\ v.type \in {"short", "long", "longlong"} => Number(v.type, v.value) = v.value
         /\ v.type = "boolean" =>
              v.value \in BOOLEAN /\ Number(v.type, v.value) = IF v.value THEN 1 ELSE 0
         /\ v.hnid \in Numbers
         /\ v.type \in Small => v.hnid = 0
<1>1. Kept(v)
  BY StoreAssumption
<1>2. PICK type, value, n : type = v.type /\ value = v.value /\ n = Number(type, value)
  OBVIOUS
<1>3. Valued(type, value) /\ v.hnid \in Numbers /\ (type \in Small => v.hnid = 0)
  BY <1>1, <1>2 DEF Kept
<1>4. 0 \in Numbers /\ 1 \in Numbers
  BY DEF Numbers
<1>5. CASE type = "boolean"
  <2>1. value \in BOOLEAN
    BY <1>3, <1>5 DEF Valued
  <2>2. n = IF value THEN 1 ELSE 0
    BY <1>2, <1>5 DEF Number
  <2>3. n = 1 \/ n = 0
    BY <2>2
  <2>4. n \in Numbers
    BY <1>4, <2>3
  <2> QED
    BY <1>2, <1>3, <1>5, <2>1, <2>2, <2>4
<1>6. CASE type = "short"
  <2>1. value \in Numbers /\ value < 65536
    BY <1>3, <1>6 DEF Valued
  <2>2. n = value
    BY <1>2, <1>6 DEF Number
  <2> QED
    BY <1>2, <1>3, <1>6, <2>1, <2>2
<1>7. CASE type \in {"long", "longlong"}
  <2>1. value \in Numbers
    BY <1>3, <1>7 DEF Valued
  <2>2. n = value
    BY <1>2, <1>7 DEF Number
  <2> QED
    BY <1>2, <1>3, <1>7, <2>1, <2>2
<1> QED
  BY <1>2, <1>3, <1>5, <1>6, <1>7 DEF Small

LEMMA InCellIs ==
  ASSUME NEW v \in AllProps
  PROVE  InCell(v) \in Numbers
BY NumberIs DEF InCell

\* The id of a row
LEMMA IdRead ==
  ASSUME NEW r, RowKept(r)
  PROVE  FromLE(RowPart(r, 0, 4)) = r.id
<1>1. r.id \in Numbers
  BY DEF RowKept
<1>2. PICK bytes : bytes = RowPart(r, 0, 4)
  OBVIOUS
<1>3. bytes = [i \in 1..4 |-> RowBytes(r)[0 + i]]
  BY <1>2 DEF RowPart
<1>4. ASSUME NEW i \in 1..4
      PROVE  bytes[i] = LE(r.id, 4)[i]
  <2>1. i \in 1..RowSize /\ i - 1 < 4 /\ 0 + i = i
    BY RowIs
  <2>2. RowBytes(r)[i] = LE(r.id, 4)[i]
    BY <2>1 DEF RowBytes
  <2> QED
    BY <1>3, <2>1, <2>2
<1>5. Len(bytes) = 4
  <2>1. bytes = [i \in 1..4 |-> bytes[i]]
    BY <1>3
  <2> QED
    BY <2>1, LenIs
<1> QED
  BY <1>1, <1>2, <1>4, <1>5, NumberRead

\* and a cell that it has.
LEMMA CellRead ==
  ASSUME NEW r, RowKept(r), NEW p \in DOMAIN r.props
  PROVE  FromLE(RowPart(r, Columns[p].offset, Columns[p].size)) = InCell(r.props[p])
<1>1. /\ p \in DOMAIN Columns /\ r.props[p] \in AllProps
      /\ Columns[p].size < 4 => InCell(r.props[p]) < Power256[Columns[p].size + 1]
  BY DEF RowKept
<1>2. PICK size \in {1, 2, 4, 8}, offset \in Nat :
        /\ size = Columns[p].size /\ offset = Columns[p].offset
        /\ offset >= 4 /\ offset + size <= ExistsStart
  BY <1>1, ColumnIs
<1>3. PICK n \in Numbers : n = InCell(r.props[p]) /\ (size < 4 => n < Power256[size + 1])
  BY <1>1, <1>2, InCellIs
<1>4. PICK bytes : bytes = RowPart(r, offset, size)
  OBVIOUS
<1>5. bytes = [i \in 1..size |-> RowBytes(r)[offset + i]]
  BY <1>4 DEF RowPart
<1>6. ASSUME NEW i \in 1..size
      PROVE  bytes[i] = LE(n, size)[i]
  <2>1. PICK o \in Nat : o = offset + i - 1
    OBVIOUS
  <2>2. /\ offset + i \in 1..RowSize /\ (offset + i) - 1 = o /\ ~(o < 4) /\ ~(o >= ExistsStart)
        /\ o - offset + 1 = i /\ o - offset \in 0..(size - 1)
    BY <1>2, <2>1, RowIs
  <2> DEFINE at == {q \in DOMAIN Columns : o - Columns[q].offset \in 0..(Columns[q].size - 1)}
  <2>3. at = {p}
    <3>1. p \in at
      BY <1>1, <1>2, <2>2
    <3>2. ASSUME NEW q \in DOMAIN Columns, q # p
          PROVE  ~(o - Columns[q].offset \in 0..(Columns[q].size - 1))
      <4>1. PICK qsize \in {1, 2, 4, 8}, qoffset \in Nat :
              qsize = Columns[q].size /\ qoffset = Columns[q].offset
        BY <3>2, ColumnIs
      <4>2. Apart(offset, size, qoffset, qsize)
        BY <1>1, <1>2, <3>2, <4>1, ColumnIs
      <4>3. offset + size <= qoffset \/ qoffset + qsize <= offset
        BY <4>2 DEF Apart
      <4> QED
        BY <2>1, <4>1, <4>3
    <3> QED
      BY <3>1, <3>2
  <2>4. (CHOOSE q \in at : TRUE) = p
    BY <2>3
  <2>5. RowBytes(r)[offset + i] = Cell(r, p)[i]
    <3>1. PICK j \in 1..RowSize : j = offset + i /\ j - 1 = o
      BY <2>2
    <3>2. RowBytes(r)[j] =
            LET there == {q \in DOMAIN Columns :
                            (j - 1) - Columns[q].offset \in 0..(Columns[q].size - 1)}
            IN IF j - 1 < 4 THEN LE(r.id, 4)[j]
               ELSE IF j - 1 >= ExistsStart THEN BitmapByte(r, (j - 1) - ExistsStart)
               ELSE IF there = {} THEN Stale
               ELSE LET q == CHOOSE x \in there : TRUE IN Cell(r, q)[(j - 1) - Columns[q].offset + 1]
      BY Zenon DEF RowBytes
    <3>3. RowBytes(r)[j] =
            IF o < 4 THEN LE(r.id, 4)[j]
            ELSE IF o >= ExistsStart THEN BitmapByte(r, o - ExistsStart)
            ELSE IF at = {} THEN Stale
            ELSE LET q == CHOOSE x \in at : TRUE IN Cell(r, q)[o - Columns[q].offset + 1]
      BY <3>1, <3>2, Zenon
    <3> HIDE DEF at
    <3> QED
      BY <1>2, <2>2, <2>3, <2>4, <3>1, <3>3
  <2>6. Cell(r, p) = LE(n, size)
    BY <1>2, <1>3 DEF Cell
  <2> QED
    BY <1>5, <2>5, <2>6
<1>7. Len(bytes) = size
  <2>1. bytes = [i \in 1..size |-> bytes[i]] /\ size \in Nat
    BY <1>5
  <2> QED
    BY <2>1, LenIs
<1> QED
  BY <1>2, <1>3, <1>4, <1>6, <1>7, NumberRead

\* The bit of a column tells whether the row has it.
LEMMA BitRead ==
  ASSUME NEW r, RowKept(r), NEW p \in DOMAIN Columns
  PROVE  TestBit(RowPart(r, ExistsStart, RowSize - ExistsStart), Columns[p].bit)
           <=> p \in DOMAIN r.props
<1>1. PICK bit \in Nat : bit = Columns[p].bit /\ bit < 8 * (RowSize - ExistsStart)
  BY ColumnIs
<1>2. PICK k \in Nat, j \in 0..7 : k = bit \div 8 /\ j = bit % 8 /\ bit = 8 * k + j
  OBVIOUS
<1> DEFINE here(b) == \E q \in DOMAIN r.props : Columns[q].bit = 8 * k + b - 1
           on(b) == IF here(b) THEN Weight[b] ELSE 0
<1>3. PICK bytes : bytes = RowPart(r, ExistsStart, RowSize - ExistsStart)
  OBVIOUS
<1>4. bytes[k + 1] = BitmapByte(r, k)
  <2>1. PICK S \in Nat, R \in Nat : S = ExistsStart /\ R = RowSize /\ S > 3 /\ S < R
    BY RowIs
  <2>2. k + 1 \in 1..(R - S)
    BY <1>1, <1>2, <2>1
  <2>3. bytes[k + 1] = RowBytes(r)[S + (k + 1)]
    BY <1>3, <2>1, <2>2 DEF RowPart
  <2>4. PICK i \in 1..RowSize : i = S + (k + 1) /\ i - 1 = S + k
    BY <2>1, <2>2
  <2>5. ~(i - 1 < 4) /\ i - 1 >= ExistsStart /\ (i - 1) - ExistsStart = k
    BY <2>1, <2>4
  <2>6. RowBytes(r)[i] =
          IF i - 1 < 4 THEN LE(r.id, 4)[i]
          ELSE IF i - 1 >= ExistsStart THEN BitmapByte(r, (i - 1) - ExistsStart)
          ELSE LET there == {q \in DOMAIN Columns :
                               (i - 1) - Columns[q].offset \in 0..(Columns[q].size - 1)}
               IN IF there = {} THEN Stale
                  ELSE LET q == CHOOSE x \in there : TRUE
                       IN Cell(r, q)[(i - 1) - Columns[q].offset + 1]
    BY Zenon DEF RowBytes
  <2>7. RowBytes(r)[i] = BitmapByte(r, (i - 1) - ExistsStart)
    BY <2>5, <2>6, Zenon
  <2> QED
    BY <2>3, <2>4, <2>5, <2>7
<1>5. BitmapByte(r, k) = on(1) + on(2) + on(3) + on(4) + on(5) + on(6) + on(7) + on(8)
  BY Zenon DEF BitmapByte
<1>6. /\ Weight[1] = 128 /\ Weight[2] = 64 /\ Weight[3] = 32 /\ Weight[4] = 16
      /\ Weight[5] = 8 /\ Weight[6] = 4 /\ Weight[7] = 2 /\ Weight[8] = 1
  BY DEF Weight
<1>7. here(j + 1) <=> p \in DOMAIN r.props
  <2>1. 8 * k + (j + 1) - 1 = bit
    BY <1>2
  <2>2. here(j + 1) <=> \E q \in DOMAIN r.props : Columns[q].bit = bit
    BY <2>1
  <2>3. \A q \in DOMAIN r.props : q \in DOMAIN Columns
    BY DEF RowKept
  <2>4. \A q \in DOMAIN Columns \ {p} : Columns[q].bit # bit
    BY <1>1, ColumnIs
  <2> HIDE DEF here
  <2> QED
    BY <1>1, <2>2, <2>3, <2>4
<1>8. TestBit(bytes, bit) <=> (BitmapByte(r, k) \div Weight[j + 1]) % 2 = 1
  BY <1>2, <1>4, Zenon DEF TestBit
<1> HIDE DEF here
<1>9. /\ on(1) \in {0, 128} /\ on(2) \in {0, 64} /\ on(3) \in {0, 32} /\ on(4) \in {0, 16}
      /\ on(5) \in {0, 8} /\ on(6) \in {0, 4} /\ on(7) \in {0, 2} /\ on(8) \in {0, 1}
      /\ (on(1) # 0 <=> here(1)) /\ (on(2) # 0 <=> here(2)) /\ (on(3) # 0 <=> here(3))
      /\ (on(4) # 0 <=> here(4)) /\ (on(5) # 0 <=> here(5)) /\ (on(6) # 0 <=> here(6))
      /\ (on(7) # 0 <=> here(7)) /\ (on(8) # 0 <=> here(8))
  BY <1>6
<1> HIDE DEF on
<1>10. (BitmapByte(r, k) \div Weight[j + 1]) % 2 = 1 <=> here(j + 1)
  <2>1. PICK on1 \in {0, 128}, on2 \in {0, 64}, on3 \in {0, 32}, on4 \in {0, 16},
             on5 \in {0, 8}, on6 \in {0, 4}, on7 \in {0, 2}, on8 \in {0, 1} :
          /\ on1 = on(1) /\ on2 = on(2) /\ on3 = on(3) /\ on4 = on(4)
          /\ on5 = on(5) /\ on6 = on(6) /\ on7 = on(7) /\ on8 = on(8)
    BY <1>9
  <2>2. PICK sum : /\ sum = on1 + on2 + on3 + on4 + on5 + on6 + on7 + on8
                   /\ sum = BitmapByte(r, k)
    BY <1>5, <2>1, Zenon
  <2>3. /\ (sum \div 128) % 2 = 1 <=> on1 # 0
        /\ (sum \div 64) % 2 = 1 <=> on2 # 0
        /\ (sum \div 32) % 2 = 1 <=> on3 # 0
        /\ (sum \div 16) % 2 = 1 <=> on4 # 0
        /\ (sum \div 8) % 2 = 1 <=> on5 # 0
        /\ (sum \div 4) % 2 = 1 <=> on6 # 0
        /\ (sum \div 2) % 2 = 1 <=> on7 # 0
        /\ (sum \div 1) % 2 = 1 <=> on8 # 0
    BY <2>2, BitOf
  <2>4. PICK byte : byte = BitmapByte(r, k)
    OBVIOUS
  <2>5. CASE j = 0
    <3>1. j + 1 = 1
      BY <2>5
    <3>2. (byte \div 128) % 2 = 1 <=> on(1) # 0
      BY <2>1, <2>2, <2>3, <2>4, Zenon
    <3>3. Weight[1] = 128 /\ (on(1) # 0 <=> here(1))
      BY <1>6, <1>9, Zenon
    <3> QED
      BY <2>4, <3>1, <3>2, <3>3, Zenon
  <2>6. CASE j = 1
    <3>1. j + 1 = 2
      BY <2>6
    <3>2. (byte \div 64) % 2 = 1 <=> on(2) # 0
      BY <2>1, <2>2, <2>3, <2>4, Zenon
    <3>3. Weight[2] = 64 /\ (on(2) # 0 <=> here(2))
      BY <1>6, <1>9, Zenon
    <3> QED
      BY <2>4, <3>1, <3>2, <3>3, Zenon
  <2>7. CASE j = 2
    <3>1. j + 1 = 3
      BY <2>7
    <3>2. (byte \div 32) % 2 = 1 <=> on(3) # 0
      BY <2>1, <2>2, <2>3, <2>4, Zenon
    <3>3. Weight[3] = 32 /\ (on(3) # 0 <=> here(3))
      BY <1>6, <1>9, Zenon
    <3> QED
      BY <2>4, <3>1, <3>2, <3>3, Zenon
  <2>8. CASE j = 3
    <3>1. j + 1 = 4
      BY <2>8
    <3>2. (byte \div 16) % 2 = 1 <=> on(4) # 0
      BY <2>1, <2>2, <2>3, <2>4, Zenon
    <3>3. Weight[4] = 16 /\ (on(4) # 0 <=> here(4))
      BY <1>6, <1>9, Zenon
    <3> QED
      BY <2>4, <3>1, <3>2, <3>3, Zenon
  <2>9. CASE j = 4
    <3>1. j + 1 = 5
      BY <2>9
    <3>2. (byte \div 8) % 2 = 1 <=> on(5) # 0
      BY <2>1, <2>2, <2>3, <2>4, Zenon
    <3>3. Weight[5] = 8 /\ (on(5) # 0 <=> here(5))
      BY <1>6, <1>9, Zenon
    <3> QED
      BY <2>4, <3>1, <3>2, <3>3, Zenon
  <2>10. CASE j = 5
    <3>1. j + 1 = 6
      BY <2>10
    <3>2. (byte \div 4) % 2 = 1 <=> on(6) # 0
      BY <2>1, <2>2, <2>3, <2>4, Zenon
    <3>3. Weight[6] = 4 /\ (on(6) # 0 <=> here(6))
      BY <1>6, <1>9, Zenon
    <3> QED
      BY <2>4, <3>1, <3>2, <3>3, Zenon
  <2>11. CASE j = 6
    <3>1. j + 1 = 7
      BY <2>11
    <3>2. (byte \div 2) % 2 = 1 <=> on(7) # 0
      BY <2>1, <2>2, <2>3, <2>4, Zenon
    <3>3. Weight[7] = 2 /\ (on(7) # 0 <=> here(7))
      BY <1>6, <1>9, Zenon
    <3> QED
      BY <2>4, <3>1, <3>2, <3>3, Zenon
  <2>12. CASE j = 7
    <3>1. j + 1 = 8
      BY <2>12
    <3>2. (byte \div 1) % 2 = 1 <=> on(8) # 0
      BY <2>1, <2>2, <2>3, <2>4, Zenon
    <3>3. Weight[8] = 1 /\ (on(8) # 0 <=> here(8))
      BY <1>6, <1>9, Zenon
    <3> QED
      BY <2>4, <3>1, <3>2, <3>3, Zenon
  <2> QED
    BY <2>5, <2>6, <2>7, <2>8, <2>9, <2>10, <2>11, <2>12
<1> QED
  BY <1>1, <1>3, <1>7, <1>8, <1>10, Zenon

-----------------------------------------------------------------------------
(***************************************************************************)
(* What is kept where.                                                     *)
(***************************************************************************)

LEMMA ElementIs ==
  ASSUME NEW S, NEW s \in Seq(S), NEW i \in 1..Len(s)
  PROVE  s[i] \in S
OBVIOUS

LEMMA LeastNumber ==
  ASSUME NEW S \in SUBSET Nat, S # {}
  PROVE  \E k \in S : \A j \in S : ~(j < k)
<1>1. PICK k \in S : \A j \in S : ~(<<j, k>> \in OpToRel(<, Nat))
  BY NatLessThanWellFounded, WFMin
<1> QED
  BY <1>1 DEF OpToRel

\* What does not fall from one number to the next does not fall at all.
LEMMA Ascends ==
  ASSUME NEW s, NEW n \in Nat, \A i \in 1..n : s[i] \in Int,
         \A i \in 1..(n - 1) : s[i] <= s[i + 1], NEW i \in 1..n, NEW j \in i..n
  PROVE  s[i] <= s[j]
<1> DEFINE S == {k \in i..n : ~(s[i] <= s[k])}
<1> SUFFICES ASSUME S # {}
             PROVE  FALSE
  OBVIOUS
<1>1. PICK k \in S : \A m \in S : ~(m < k)
  <2>1. S \in SUBSET Nat
    OBVIOUS
  <2> QED
    BY <2>1, LeastNumber
<1>2. k \in i..n /\ ~(s[i] <= s[k]) /\ k # i
  <2>1. k \in i..n /\ ~(s[i] <= s[k])
    OBVIOUS
  <2>2. s[i] <= s[i]
    OBVIOUS
  <2> QED
    BY <2>1, <2>2
<1>3. k - 1 \in i..n /\ k - 1 < k /\ k - 1 \in 1..(n - 1) /\ (k - 1) + 1 = k
  BY <1>2
<1>4. s[i] <= s[k - 1]
  BY <1>1, <1>3
<1>5. s[k - 1] <= s[k]
  BY <1>3
<1>6. s[i] \in Int /\ s[k - 1] \in Int /\ s[k] \in Int
  BY <1>2, <1>3
<1> QED
  BY <1>2, <1>4, <1>5, <1>6

LEMMA AllocationAt ==
  ASSUME NEW id \in AllocIds
  PROVE  \E p \in DOMAIN PageMap : \E i \in 0..(NumAllocs(p) - 1) :
           /\ id = MakeHeapId(p, i)
           /\ FirstByte(id) = p * PageMax + PageMap[p][i + 1]
           /\ StreamSize(id) = PageMap[p][i + 2] - PageMap[p][i + 1]
<1> DEFINE p == HeapPage(id)
           i == HeapIndex(id)
           n == NumAllocs(p)
<1>1. id \in Nat \ {0} /\ ~IsSubnodeId(id) /\ p \in DOMAIN PageMap /\ i \in 0..(n - 1)
  BY AllocIdIs
<1>2. n = NumAllocs(p)
  OBVIOUS
<1> HIDE DEF p, i, n
<1>3. /\ p \in Nat /\ PageMax \in Nat /\ n \in Nat /\ n < 2048
      /\ PageMap[p][i + 1] \in Nat /\ PageMap[p][i + 2] \in Nat
      /\ PageMap[p][i + 1] <= PageMap[p][i + 2]
  <2>1. /\ p \in Nat /\ PageMax \in Nat /\ n \in Nat /\ n < 2048
        /\ \A j \in 0..n : PageMap[p][j + 1] \in Nat
        /\ \A j \in 0..(n - 1) : PageMap[p][j + 1] <= PageMap[p][j + 2]
    BY <1>1, <1>2, PageMaps
  <2>2. i \in 0..n /\ i + 1 \in 0..n /\ (i + 1) + 1 = i + 2
    BY <1>1, <2>1
  <2> QED
    BY <1>1, <2>1, <2>2
<1>4. Allocs(p, i, 0) = PageMap[p][i + 1] /\ Allocs(p, i + 1, 0) = PageMap[p][i + 2]
  <2>1. i <= n /\ i + 1 <= n /\ (i + 1) + 1 = i + 2
    BY <1>1, <1>3
  <2> QED
    BY <2>1, <1>2 DEF Allocs
<1>5. Minus(PageMap[p][i + 2], PageMap[p][i + 1]) = PageMap[p][i + 2] - PageMap[p][i + 1]
  BY <1>3 DEF Minus
<1>6. ~(i > NumAllocs(p))
  BY <1>1, <1>2, <1>3
<1>7. AllocSize(id, 0) = Value(PageMap[p][i + 2] - PageMap[p][i + 1])
  BY <1>1, <1>4, <1>5, <1>6 DEF AllocSize, p, i
<1>8. StreamSize(id) = PageMap[p][i + 2] - PageMap[p][i + 1]
  BY <1>1, <1>7 DEF StreamSize, Value
<1>9. FirstByte(id) = p * PageMax + PageMap[p][i + 1]
  <2>1. id \notin Subnodes
    BY <1>1, SubnodesAssumption
  <2> QED
    BY <1>1, <1>4, <2>1 DEF FirstByte, p, i
<1>10. id = MakeHeapId(p, i)
  <2>1. i < 2047
    BY <1>1, <1>3
  <2> QED
    BY <1>1, <2>1, IdIs DEF p, i
<1> QED
  BY <1>1, <1>2, <1>8, <1>9, <1>10

\* An allocation lies in its page.
LEMMA AllocationLies ==
  ASSUME NEW p \in DOMAIN PageMap, NEW i \in 0..(NumAllocs(p) - 1)
  PROVE  /\ p \in Nat /\ PageMax \in Nat /\ NumAllocs(p) \in Nat
         /\ PageMap[p][i + 1] \in Nat /\ PageMap[p][i + 2] \in Nat
         /\ PageMap[p][i + 1] <= PageMap[p][i + 2] /\ PageMap[p][i + 2] <= PageMax
         /\ \A j \in 0..(NumAllocs(p) - 1) : i < j => PageMap[p][i + 2] <= PageMap[p][j + 1]
<1>1. PICK n : n = NumAllocs(p)
  OBVIOUS
<1>2. /\ p \in Nat /\ PageMax \in Nat /\ n \in Nat
      /\ \A k \in 0..n : PageMap[p][k + 1] \in Nat
      /\ \A k \in 0..(n - 1) : PageMap[p][k + 1] <= PageMap[p][k + 2]
  BY <1>1, PageMaps
<1>3. i \in 0..n /\ i + 1 \in 0..n /\ (i + 1) + 1 = i + 2 /\ i \in 0..(n - 1)
  BY <1>1, <1>2
<1>4. PageMap[p][i + 2] \in Nat /\ PageMap[p][i + 2] <= PageMax
  <2>1. PageMap[p] \in Seq(0..PageMax) /\ Len(PageMap[p]) \in Nat /\ n = Len(PageMap[p]) - 1
    BY <1>1, HeapAssumption DEF NumAllocs
  <2>2. i + 2 \in 1..Len(PageMap[p])
    BY <1>3, <2>1
  <2>3. PageMap[p][i + 2] \in 0..PageMax
    <3>1. PICK m \in 1..Len(PageMap[p]) : m = i + 2
      BY <2>2
    <3>2. PageMap[p][m] \in 0..PageMax
      BY <2>1, ElementIs, Zenon
    <3> QED
      BY <3>1, <3>2
  <2> QED
    BY <1>2, <2>3
<1>5. PICK s : s = PageMap[p]
  OBVIOUS
<1>6. ASSUME NEW j \in 0..(n - 1), i < j
      PROVE  s[i + 2] <= s[j + 1]
  <2>1. PICK m \in Nat : m = n + 1
    BY <1>2
  <2>2. \A k \in 1..m : s[k] \in Int
    <3>1. ASSUME NEW k \in 1..m
          PROVE  s[k] \in Int
      <4>1. k - 1 \in 0..n /\ (k - 1) + 1 = k
        BY <1>2, <2>1
      <4> QED
        BY <1>2, <1>5, <4>1
    <3> QED
      BY <3>1
  <2>3. \A k \in 1..(m - 1) : s[k] <= s[k + 1]
    <3>1. ASSUME NEW k \in 1..(m - 1)
          PROVE  s[k] <= s[k + 1]
      <4>1. k - 1 \in 0..(n - 1) /\ (k - 1) + 1 = k /\ (k - 1) + 2 = k + 1
        BY <1>2, <2>1
      <4> QED
        BY <1>2, <1>5, <4>1
    <3> QED
      BY <3>1
  <2>4. PICK a \in 1..m, b \in 1..m : a = i + 2 /\ b = j + 1
    BY <1>2, <1>3, <1>6, <2>1
  <2>5. b \in a..m
    BY <1>3, <1>6, <2>4
  <2>6. s[a] <= s[b]
    BY <2>2, <2>3, <2>5, Ascends
  <2> QED
    BY <2>4, <2>6
<1> QED
  BY <1>1, <1>2, <1>3, <1>4, <1>5, <1>6

\* No two allocations or subnodes have a byte in common.
LEMMA BytesApart ==
  ASSUME NEW x \in AllocIds \cup Subnodes, NEW y \in AllocIds \cup Subnodes, x # y
  PROVE  Apart(FirstByte(x), StreamSize(x), FirstByte(y), StreamSize(y))
<1>1. \A n \in Subnodes : n # 0 /\ FirstByte(n) = SubnodeAt[n] /\ StreamSize(n) = SubnodeSize[n]
  <2>1. \A n \in Subnodes : n # 0
    BY SubnodesAssumption DEF IsSubnodeId
  <2> QED
    BY <2>1, SubnodesAssumption DEF FirstByte, StreamSize
<1>2. ASSUME NEW id \in AllocIds, NEW n \in Subnodes
      PROVE  /\ Apart(FirstByte(id), StreamSize(id), FirstByte(n), StreamSize(n))
             /\ Apart(FirstByte(n), StreamSize(n), FirstByte(id), StreamSize(id))
  <2>1. PICK p \in DOMAIN PageMap : \E i \in 0..(NumAllocs(p) - 1) :
          /\ FirstByte(id) = p * PageMax + PageMap[p][i + 1]
          /\ StreamSize(id) = PageMap[p][i + 2] - PageMap[p][i + 1]
    BY AllocationAt
  <2>2. PICK i \in 0..(NumAllocs(p) - 1) :
          /\ FirstByte(id) = p * PageMax + PageMap[p][i + 1]
          /\ StreamSize(id) = PageMap[p][i + 2] - PageMap[p][i + 1]
    BY <2>1
  <2>3. PICK from \in Nat, to \in Nat :
          /\ from = PageMap[p][i + 1] /\ to = PageMap[p][i + 2] /\ from <= to /\ to <= PageMax
    BY AllocationLies
  <2>4. PICK page \in Nat : page = p * PageMax
    BY AllocationLies
  <2>5. PageMax \in Nat
    BY AllocationLies
  <2>6. PICK at \in Int, size \in Nat : at = SubnodeAt[n] /\ size = SubnodeSize[n]
    BY SubnodesAssumption
  <2>7. Apart(at, size, page, PageMax)
    BY <2>4, <2>6, SubnodesAssumption
  <2>8. at + size <= page \/ page + PageMax <= at
    BY <2>7 DEF Apart
  <2>9. /\ FirstByte(id) = page + from /\ StreamSize(id) = to - from
        /\ FirstByte(n) = at /\ StreamSize(n) = size
    BY <1>1, <2>2, <2>3, <2>4, <2>6
  <2>10. (page + from) + (to - from) <= at \/ at + size <= page + from
    BY <2>3, <2>5, <2>8
  <2> QED
    BY <2>9, <2>10 DEF Apart
<1>3. CASE x \in Subnodes /\ y \in Subnodes
  <2>1. Apart(SubnodeAt[x], SubnodeSize[x], SubnodeAt[y], SubnodeSize[y])
    BY <1>3, SubnodesAssumption
  <2> QED
    BY <1>1, <1>3, <2>1
<1>4. CASE x \in AllocIds /\ y \in AllocIds
  <2>1. PICK p \in DOMAIN PageMap : \E i \in 0..(NumAllocs(p) - 1) :
          /\ x = MakeHeapId(p, i)
          /\ FirstByte(x) = p * PageMax + PageMap[p][i + 1]
          /\ StreamSize(x) = PageMap[p][i + 2] - PageMap[p][i + 1]
    BY <1>4, AllocationAt
  <2>2. PICK i \in 0..(NumAllocs(p) - 1) :
          /\ x = MakeHeapId(p, i)
          /\ FirstByte(x) = p * PageMax + PageMap[p][i + 1]
          /\ StreamSize(x) = PageMap[p][i + 2] - PageMap[p][i + 1]
    BY <2>1
  <2>3. PICK q \in DOMAIN PageMap : \E j \in 0..(NumAllocs(q) - 1) :
          /\ y = MakeHeapId(q, j)
          /\ FirstByte(y) = q * PageMax + PageMap[q][j + 1]
          /\ StreamSize(y) = PageMap[q][j + 2] - PageMap[q][j + 1]
    BY <1>4, AllocationAt
  <2>4. PICK j \in 0..(NumAllocs(q) - 1) :
          /\ y = MakeHeapId(q, j)
          /\ FirstByte(y) = q * PageMax + PageMap[q][j + 1]
          /\ StreamSize(y) = PageMap[q][j + 2] - PageMap[q][j + 1]
    BY <2>3
  <2>5. PICK from \in Nat, to \in Nat :
          /\ from = PageMap[p][i + 1] /\ to = PageMap[p][i + 2] /\ from <= to /\ to <= PageMax
    BY AllocationLies
  <2>6. PICK qfrom \in Nat, qto \in Nat :
          /\ qfrom = PageMap[q][j + 1] /\ qto = PageMap[q][j + 2]
          /\ qfrom <= qto /\ qto <= PageMax
    BY AllocationLies
  <2>7. p \in Nat /\ q \in Nat /\ PageMax \in Nat
    BY AllocationLies
  <2>8. PICK page \in Nat, qpage \in Nat : page = p * PageMax /\ qpage = q * PageMax
    BY <2>7
  <2>9. /\ FirstByte(x) = page + from /\ StreamSize(x) = to - from
        /\ FirstByte(y) = qpage + qfrom /\ StreamSize(y) = qto - qfrom
    BY <2>2, <2>4, <2>5, <2>6, <2>8
  <2>10. (page + from) + (to - from) <= qpage + qfrom
           \/ (qpage + qfrom) + (qto - qfrom) <= page + from
    <3>1. CASE p < q
      <4>1. page + PageMax <= qpage
        BY <2>7, <2>8, <3>1, Whole
      <4> QED
        BY <2>5, <2>7, <4>1
    <3>2. CASE q < p
      <4>1. qpage + PageMax <= page
        BY <2>7, <2>8, <3>2, Whole
      <4> QED
        BY <2>6, <2>7, <4>1
    <3>3. CASE p = q
      <4>1. i # j /\ page = qpage
        BY <2>2, <2>4, <2>8, <3>3
      <4>2. NumAllocs(p) \in Nat /\ i \in Int /\ j \in Int /\ j \in 0..(NumAllocs(p) - 1)
        BY <3>3, AllocationLies
      <4>3. i < j => to <= qfrom
        BY <2>5, <2>6, <3>3, <4>2, AllocationLies
      <4>4. j < i => qto <= from
        BY <2>5, <2>6, <3>3, <4>2, AllocationLies
      <4> QED
        BY <4>1, <4>2, <4>3, <4>4
    <3> QED
      BY <2>7, <3>1, <3>2, <3>3
  <2> QED
    BY <2>9, <2>10 DEF Apart
<1> QED
  BY <1>2, <1>3, <1>4

-----------------------------------------------------------------------------
(***************************************************************************)
(* What is encoded can be decoded.                                         *)
(***************************************************************************)

LEMMA SequenceIs ==
  ASSUME NEW S, NEW n \in Nat, NEW s, s = [i \in 1..n |-> s[i]], \A i \in 1..n : s[i] \in S
  PROVE  s \in Seq(S) /\ Len(s) = n
<1>1. s \in [1..n -> S]
  OBVIOUS
<1>2. s \in Seq(S)
  BY <1>1, SeqDef
<1> QED
  BY <1>1, <1>2

LEMMA Same ==
  ASSUME NEW S, NEW s \in Seq(S)
  PROVE  s = [i \in 1..Len(s) |-> s[i]]
OBVIOUS

LEMMA ByteIs ==
  ASSUME NEW b \in Byte
  PROVE  b \in Nat
BY DEF Byte

LEMMA Utf16Is ==
  ASSUME NEW chars \in Seq(Byte)
  PROVE  Utf16(chars) \in Seq(Byte) /\ Wide(Utf16(chars)) = chars
<1>1. PICK n \in Nat : n = Len(chars)
  OBVIOUS
<1>2. PICK t : t = Utf16(chars)
  OBVIOUS
<1>3. t = [i \in 1..(2 * n) |-> IF i % 2 = 1 THEN chars[(i + 1) \div 2] ELSE 0]
  BY <1>1, <1>2 DEF Utf16
<1>4. ASSUME NEW i \in 1..(2 * n)
      PROVE  t[i] \in Byte
  <2>1. CASE i % 2 = 1
    <3>1. PICK j \in 1..n : j = (i + 1) \div 2
      BY <2>1
    <3>2. t[i] = chars[j]
      BY <1>3, <2>1, <3>1
    <3> QED
      BY <1>1, <3>2, ElementIs
  <2>2. CASE i % 2 # 1
    BY <1>3, <2>2 DEF Byte
  <2> QED
    BY <2>1, <2>2
<1>5. t \in Seq(Byte) /\ Len(t) = 2 * n
  <2>1. PICK m \in Nat : m = 2 * n
    OBVIOUS
  <2>2. t = [i \in 1..m |-> t[i]] /\ \A i \in 1..m : t[i] \in Byte
    BY <1>3, <1>4, <2>1
  <2> QED
    BY <2>1, <2>2, SequenceIs
<1>6. ASSUME NEW i \in 1..n
      PROVE  t[2 * i - 1] + 256 * t[2 * i] = chars[i]
  <2>1. /\ 2 * i - 1 \in 1..(2 * n) /\ (2 * i - 1) % 2 = 1 /\ ((2 * i - 1) + 1) \div 2 = i
        /\ 2 * i \in 1..(2 * n) /\ (2 * i) % 2 = 0
    OBVIOUS
  <2>2. t[2 * i - 1] = chars[i]
    BY <1>3, <2>1
  <2>3. t[2 * i] = 0
    BY <1>3, <2>1
  <2>4. chars[i] \in Nat
    <3>1. chars[i] \in Byte
      BY <1>1, ElementIs
    <3> QED
      BY <3>1, ByteIs
  <2> QED
    BY <2>2, <2>3, <2>4
<1>7. Wide(t) = chars
  <2>1. Len(t) \div 2 = n
    BY <1>5
  <2>2. Wide(t) = [i \in 1..n |-> t[2 * i - 1] + 256 * t[2 * i]]
    BY <2>1 DEF Wide
  <2>3. chars = [i \in 1..n |-> chars[i]]
    BY <1>1, Same
  <2> QED
    BY <1>6, <2>2, <2>3
<1> QED
  BY <1>2, <1>5, <1>7

LEMMA LongsAre ==
  ASSUME NEW v \in Seq(Numbers)
  PROVE  /\ Longs(v) \in Seq(Byte) /\ Len(Longs(v)) = 4 * Len(v)
         /\ \A i \in 0..(Len(v) - 1) : \A k \in 1..4 : Longs(v)[4 * i + k] = LE(v[i + 1], 4)[k]
<1>1. PICK n \in Nat : n = Len(v)
  OBVIOUS
<1>2. PICK t : t = Longs(v)
  OBVIOUS
<1>3. t = [i \in 1..(4 * n) |-> LE(v[(i - 1) \div 4 + 1], 4)[((i - 1) % 4) + 1]]
  BY <1>1, <1>2 DEF Longs
<1>4. ASSUME NEW i \in 1..(4 * n)
      PROVE  t[i] \in Byte
  <2>1. PICK j \in 1..n, k \in 1..4 : j = (i - 1) \div 4 + 1 /\ k = ((i - 1) % 4) + 1
    OBVIOUS
  <2>2. t[i] = LE(v[j], 4)[k]
    BY <1>3, <2>1
  <2>3. v[j] \in Numbers
    BY <1>1, ElementIs
  <2>4. LE(v[j], 4) \in [1..4 -> Byte]
    BY <2>3, LEIs
  <2> QED
    BY <2>2, <2>4
<1>5. t \in Seq(Byte) /\ Len(t) = 4 * n
  <2>1. PICK m \in Nat : m = 4 * n
    OBVIOUS
  <2>2. t = [i \in 1..m |-> t[i]] /\ \A i \in 1..m : t[i] \in Byte
    BY <1>3, <1>4, <2>1
  <2> QED
    BY <2>1, <2>2, SequenceIs
<1>6. ASSUME NEW i \in 0..(n - 1), NEW k \in 1..4
      PROVE  t[4 * i + k] = LE(v[i + 1], 4)[k]
  <2>1. /\ 4 * i + k \in 1..(4 * n) /\ ((4 * i + k) - 1) \div 4 = i
        /\ (((4 * i + k) - 1) % 4) + 1 = k
    OBVIOUS
  <2> QED
    BY <1>3, <2>1
<1> QED
  BY <1>1, <1>2, <1>5, <1>6

\* A number is read where it starts.
LEMMA LongRead ==
  ASSUME NEW v \in Seq(Numbers), NEW i \in Nat, i < Len(v),
         NEW bytes, \A b \in 1..(4 * Len(v)) : bytes[b] = Longs(v)[b]
  PROVE  FromLE(SubSeq(bytes, 4 * i + 1, 4 * i + 4)) = v[i + 1]
<1>1. PICK a \in Nat : a = 4 * i
  OBVIOUS
<1>2. PICK part : part = SubSeq(bytes, a + 1, a + 4)
  OBVIOUS
<1>3. part = [k \in 1..4 |-> bytes[a + k]] /\ Len(part) = 4
  BY <1>2, Part
<1>4. v[i + 1] \in Numbers
  <2>1. i + 1 \in 1..Len(v)
    OBVIOUS
  <2> QED
    BY <2>1, ElementIs
<1>5. ASSUME NEW k \in 1..4
      PROVE  part[k] = LE(v[i + 1], 4)[k]
  <2>1. a + k \in 1..(4 * Len(v)) /\ i \in 0..(Len(v) - 1)
    BY <1>1
  <2>2. part[k] = Longs(v)[4 * i + k]
    BY <1>1, <1>3, <2>1
  <2> QED
    BY <2>1, <2>2, LongsAre
<1>6. FromLE(part) = v[i + 1]
  BY <1>3, <1>4, <1>5, NumberRead
<1> QED
  BY <1>1, <1>2, <1>6

-----------------------------------------------------------------------------

(***************************************************************************)
(* Values of several elements.                                             *)
(***************************************************************************)

\* What Starts defines exists.
Startings(elements, s, m) ==
  s = [i \in 1..m |-> IF i = 1 THEN 4 + 4 * Len(elements) ELSE s[i - 1] + Len(elements[i - 1])]

LEMMA StartingsExist ==
  ASSUME NEW elements, NEW m \in Nat \ {0}
  PROVE  \E s : Startings(elements, s, m)
<1> DEFINE base == 4 + 4 * Len(elements)
           S == {k \in Nat \ {0} : ~\E s : Startings(elements, s, k)}
<1> SUFFICES ASSUME S # {}
             PROVE  FALSE
  OBVIOUS
<1>1. PICK k \in S : \A j \in S : ~(j < k)
  <2>1. S \in SUBSET Nat
    OBVIOUS
  <2> QED
    BY <2>1, LeastNumber
<1>2. k \in Nat \ {0} /\ ~\E s : Startings(elements, s, k)
  BY <1>1
<1>3. CASE k = 1
  <2> DEFINE s == [i \in 1..1 |-> base]
  <2>1. s = [i \in 1..1 |-> IF i = 1 THEN base ELSE s[i - 1] + Len(elements[i - 1])]
    OBVIOUS
  <2>2. Startings(elements, s, 1)
    BY <2>1 DEF Startings
  <2> QED
    BY <1>2, <1>3, <2>2
<1>4. CASE k # 1
  <2>1. k - 1 \in Nat \ {0} /\ k - 1 < k
    BY <1>2, <1>4
  <2>2. PICK s : Startings(elements, s, k - 1)
    BY <1>1, <2>1
  <2>3. \A i \in 1..(k - 1) :
          s[i] = IF i = 1 THEN base ELSE s[i - 1] + Len(elements[i - 1])
    BY <2>2 DEF Startings
  <2> HIDE DEF base
  <2> DEFINE next(i) == IF i = 1 THEN base ELSE s[i - 1] + Len(elements[i - 1])
             t == [i \in 1..k |-> next(i)]
  <2>4. ASSUME NEW i \in 1..k
        PROVE  next(i) = IF i = 1 THEN base ELSE t[i - 1] + Len(elements[i - 1])
    <3>1. CASE i = 1
      BY <3>1
    <3>2. CASE i # 1
      <4>1. i - 1 \in 1..(k - 1) /\ i - 1 \in 1..k
        BY <2>1, <3>2
      <4>2. t[i - 1] = next(i - 1)
        BY <4>1
      <4>3. s[i - 1] = next(i - 1)
        BY <2>3, <4>1
      <4> QED
        BY <3>2, <4>2, <4>3
    <3> QED
      BY <3>1, <3>2
  <2>5. t = [i \in 1..k |-> next(i)]
    OBVIOUS
  <2> HIDE DEF t, next
  <2>6. t = [i \in 1..k |-> IF i = 1 THEN base ELSE t[i - 1] + Len(elements[i - 1])]
    BY <2>4, <2>5
  <2>7. Startings(elements, t, k)
    BY <2>6 DEF Startings, base
  <2> QED
    BY <1>2, <2>7
<1> QED
  BY <1>3, <1>4

LEMMA StartsIs ==
  ASSUME NEW elements, Len(elements) \in Nat
  PROVE  Startings(elements, Starts(elements), Len(elements) + 1)
<1>1. \E s : Startings(elements, s, Len(elements) + 1)
  BY StartingsExist
<1> QED
  BY <1>1 DEF Starts, Startings

\* The elements lie one behind the other behind the table of contents.
LEMMA StartsAre ==
  ASSUME NEW e \in Seq(Seq(Byte))
  PROVE  /\ Len(e) \in Nat /\ Starts(e)[1] = 4 + 4 * Len(e)
         /\ \A i \in 1..Len(e) :
              Len(e[i]) \in Nat /\ Starts(e)[i + 1] = Starts(e)[i] + Len(e[i])
         /\ \A i \in 1..(Len(e) + 1) : Starts(e)[i] \in Nat
         /\ \A i \in 1..(Len(e) + 1) : \A j \in i..(Len(e) + 1) : Starts(e)[i] <= Starts(e)[j]
<1>1. PICK n \in Nat, m \in Nat : n = Len(e) /\ m = n + 1
  OBVIOUS
<1>2. PICK s : s = Starts(e)
  OBVIOUS
<1>3. s = [i \in 1..m |-> IF i = 1 THEN 4 + 4 * n ELSE s[i - 1] + Len(e[i - 1])]
  BY <1>1, <1>2, StartsIs DEF Startings
<1>4. s[1] = 4 + 4 * n
  BY <1>1, <1>3
<1>5. ASSUME NEW i \in 1..n
      PROVE  Len(e[i]) \in Nat /\ s[i + 1] = s[i] + Len(e[i])
  <2>1. e[i] \in Seq(Byte)
    BY <1>1, ElementIs
  <2>2. PICK j \in 1..m : j = i + 1 /\ j # 1 /\ j - 1 = i
    BY <1>1
  <2>3. s[j] = s[i] + Len(e[i])
    BY <1>3, <2>2
  <2> QED
    BY <2>1, <2>2, <2>3
<1>6. ASSUME NEW i \in 1..m
      PROVE  s[i] \in Nat
  <2> DEFINE S == {k \in 1..m : s[k] \notin Nat}
  <2> SUFFICES ASSUME S # {}
               PROVE  FALSE
    OBVIOUS
  <2>1. PICK k \in S : \A j \in S : ~(j < k)
    <3>1. S \in SUBSET Nat
      OBVIOUS
    <3> QED
      BY <3>1, LeastNumber
  <2>2. k \in 1..m /\ s[k] \notin Nat
    OBVIOUS
  <2>3. k # 1
    BY <1>4, <2>2
  <2>4. k - 1 \in 1..n /\ k - 1 \in 1..m /\ k - 1 < k /\ (k - 1) + 1 = k
    BY <1>1, <2>2, <2>3
  <2>5. s[k - 1] \in Nat
    BY <2>1, <2>4
  <2>6. s[k] = s[k - 1] + Len(e[k - 1]) /\ Len(e[k - 1]) \in Nat
    BY <1>5, <2>4
  <2> QED
    BY <2>2, <2>5, <2>6
<1>7. ASSUME NEW i \in 1..m, NEW j \in i..m
      PROVE  s[i] <= s[j]
  <2>1. \A k \in 1..m : s[k] \in Int
    BY <1>6
  <2>2. \A k \in 1..(m - 1) : s[k] <= s[k + 1]
    <3>1. ASSUME NEW k \in 1..(m - 1)
          PROVE  s[k] <= s[k + 1]
      <4>1. k \in 1..n /\ k \in 1..m
        BY <1>1
      <4> QED
        BY <1>5, <1>6, <4>1
    <3> QED
      BY <3>1
  <2> QED
    BY <2>1, <2>2, Ascends
<1> QED
  BY <1>1, <1>2, <1>4, <1>5, <1>6, <1>7

\* The bytes of WithToc.
Toc(e) == [i \in 1..(Len(e) + 1) |-> IF i = 1 THEN Len(e) ELSE Starts(e)[i - 1]]

LEMMA WithTocIs ==
  ASSUME NEW e \in Seq(Seq(Byte))
  PROVE  /\ WithToc(e) = [b \in 1..Starts(e)[Len(e) + 1] |-> WithToc(e)[b]]
         /\ Len(WithToc(e)) = Starts(e)[Len(e) + 1]
         /\ \A b \in 1..(4 + 4 * Len(e)) : WithToc(e)[b] = Longs(Toc(e))[b]
         /\ \A i \in 1..Len(e) : \A j \in 1..Len(e[i]) : WithToc(e)[Starts(e)[i] + j] = e[i][j]
<1>1. PICK n \in Nat, m \in Nat : n = Len(e) /\ m = n + 1
  OBVIOUS
<1>2. PICK s : s = Starts(e)
  OBVIOUS
<1>3. /\ s[1] = 4 + 4 * n
      /\ \A i \in 1..n : Len(e[i]) \in Nat /\ s[i + 1] = s[i] + Len(e[i])
      /\ \A i \in 1..m : s[i] \in Nat
      /\ \A i \in 1..m : \A j \in i..m : s[i] <= s[j]
  BY <1>1, <1>2, StartsAre
<1>4. PICK size \in Nat : size = s[m]
  BY <1>1, <1>3
<1>5. 4 + 4 * n <= size
  BY <1>1, <1>3, <1>4
<1> DEFINE of(b) == CHOOSE i \in 1..n : s[i] < b /\ b <= s[i + 1]
<1>6. PICK t : t = WithToc(e)
  OBVIOUS
<1>7. t = [b \in 1..size |-> IF b <= 4 + 4 * n THEN Longs(Toc(e))[b] ELSE e[of(b)][b - s[of(b)]]]
  <2>1. m = Len(e) + 1
    BY <1>1
  <2>2. WithToc(e) =
          LET there(b) == CHOOSE i \in 1..Len(e) : Starts(e)[i] < b /\ b <= Starts(e)[i + 1]
          IN [b \in 1..Starts(e)[Len(e) + 1] |->
                IF b <= 4 + 4 * Len(e) THEN Longs(Toc(e))[b]
                ELSE e[there(b)][b - Starts(e)[there(b)]]]
    BY Zenon DEF WithToc, Toc
  <2> QED
    BY <1>1, <1>2, <1>4, <1>6, <2>1, <2>2, Zenon
<1> HIDE DEF of
<1>8. t = [b \in 1..size |-> t[b]]
  BY <1>7
<1>9. ASSUME NEW b \in 1..(4 + 4 * n)
      PROVE  t[b] = Longs(Toc(e))[b]
  BY <1>5, <1>7
<1>10. ASSUME NEW i \in 1..n, NEW j \in 1..Len(e[i])
       PROVE  t[s[i] + j] = e[i][j]
  <2>1. i \in 1..m /\ i + 1 \in 1..m /\ Len(e[i]) \in Nat
    BY <1>1, <1>3
  <2>2. PICK from \in Nat, to \in Nat : from = s[i] /\ to = s[i + 1] /\ to = from + Len(e[i])
    BY <1>3, <2>1
  <2>3. 4 + 4 * n <= from /\ to <= size
    <3>1. s[1] <= s[i] /\ s[i + 1] <= s[m]
      <4>1. 1 \in 1..m /\ i \in 1..m /\ m \in (i + 1)..m
        BY <1>1, <2>1
      <4> QED
        BY <1>3, <2>1, <4>1
    <3> QED
      BY <1>3, <1>4, <2>2, <3>1
  <2>4. PICK b \in 1..size :
          b = from + j /\ ~(b <= 4 + 4 * n) /\ from < b /\ b <= to /\ b - from = j
    <3>1. PICK k \in Nat : k = Len(e[i])
      BY <2>1
    <3>2. j \in 1..k /\ to = from + k
      BY <2>2, <3>1
    <3> QED
      BY <2>3, <3>2
  <2>5. ASSUME NEW k \in 1..n, s[k] < b, b <= s[k + 1]
        PROVE  k = i
    <3>1. k \in 1..m /\ k + 1 \in 1..m
      BY <1>1
    <3>2. s[k] \in Nat /\ s[k + 1] \in Nat
      BY <1>3, <3>1
    <3>3. k < i => s[k + 1] <= from
      <4>1. k < i => i \in (k + 1)..m
        BY <2>1
      <4> QED
        BY <1>3, <2>2, <3>1, <4>1
    <3>4. i < k => to <= s[k]
      <4>1. i < k => k \in (i + 1)..m
        BY <3>1
      <4> QED
        BY <1>3, <2>1, <2>2, <4>1
    <3> QED
      BY <2>4, <2>5, <3>2, <3>3, <3>4
  <2>6. i \in 1..n /\ s[i] < b /\ b <= s[i + 1]
    BY <2>2, <2>4
  <2>7. of(b) = i
    BY <2>5, <2>6, Zenon DEF of
  <2>8. t[b] = e[of(b)][b - s[of(b)]]
    BY <1>7, <2>4
  <2> QED
    BY <2>2, <2>4, <2>7, <2>8
<1>11. Len(t) = size
  BY <1>8, LenIs
<1> QED
  BY <1>1, <1>2, <1>3, <1>4, <1>6, <1>8, <1>9, <1>10, <1>11

LEMMA TocRead ==
  ASSUME NEW e \in Seq(Seq(Byte)), Len(WithToc(e)) \in Numbers
  PROVE  TocElements(WithToc(e)) = Value(e)
<1>1. PICK n \in Nat, m \in Nat : n = Len(e) /\ m = n + 1
  OBVIOUS
<1>2. PICK s, t : s = Starts(e) /\ t = WithToc(e)
  OBVIOUS
<1>3. /\ s[1] = 4 + 4 * n
      /\ \A i \in 1..n : Len(e[i]) \in Nat /\ s[i + 1] = s[i] + Len(e[i])
      /\ \A i \in 1..m : s[i] \in Nat
      /\ \A i \in 1..m : \A j \in i..m : s[i] <= s[j]
  BY <1>1, <1>2, StartsAre
<1>4. /\ Len(t) = s[m]
      /\ \A b \in 1..(4 + 4 * n) : t[b] = Longs(Toc(e))[b]
      /\ \A i \in 1..n : \A j \in 1..Len(e[i]) : t[s[i] + j] = e[i][j]
  BY <1>1, <1>2, WithTocIs
<1>5. PICK size \in Numbers : size = Len(t)
  BY <1>2
<1>6. size \in Nat /\ size < 16777216 /\ 4 + 4 * n <= size /\ \A i \in 1..m : s[i] <= size
  BY <1>1, <1>3, <1>4, <1>5 DEF Numbers
<1>7. PICK toc : toc = Toc(e)
  OBVIOUS
<1>8. toc = [i \in 1..m |-> IF i = 1 THEN n ELSE s[i - 1]]
  BY <1>1, <1>2, <1>7 DEF Toc
<1>9. toc \in Seq(Numbers) /\ Len(toc) = m
  <2>1. ASSUME NEW i \in 1..m
        PROVE  toc[i] \in Numbers
    <3>1. CASE i = 1
      BY <1>6, <1>8, <3>1 DEF Numbers
    <3>2. CASE i # 1
      <4>1. i - 1 \in 1..m /\ toc[i] = s[i - 1]
        BY <1>8, <3>2
      <4>2. s[i - 1] \in Nat /\ s[i - 1] < 16777216
        BY <1>3, <1>6, <4>1
      <4> QED
        BY <4>1, <4>2 DEF Numbers
    <3> QED
      BY <3>1, <3>2
  <2>2. toc = [i \in 1..m |-> toc[i]]
    BY <1>8
  <2> QED
    BY <2>1, <2>2, SequenceIs
<1> DEFINE long(i) == FromLE(SubSeq(t, 4 * i + 1, 4 * i + 4))
<1>10. ASSUME NEW i \in 0..n
       PROVE  long(i) = toc[i + 1]
  <2>1. i \in Nat /\ i < Len(toc) /\ 4 * Len(toc) = 4 + 4 * n
    BY <1>1, <1>9
  <2>2. \A b \in 1..(4 * Len(toc)) : t[b] = Longs(toc)[b]
    BY <1>4, <1>7, <2>1
  <2> QED
    BY <1>9, <2>1, <2>2, LongRead
<1> HIDE DEF long
<1>11. long(0) = n
  BY <1>1, <1>8, <1>10
<1>12. ASSUME NEW i \in 1..n
       PROVE  long(i) = s[i]
  <2>1. i + 1 \in 1..m /\ i + 1 # 1 /\ (i + 1) - 1 = i /\ i \in 0..n
    BY <1>1
  <2> QED
    BY <1>8, <1>10, <2>1
<1> DEFINE end(i) == IF i = long(0) THEN Len(t) ELSE long(i + 1)
<1>13. ASSUME NEW i \in 1..n
       PROVE  end(i) = s[i + 1]
  <2>1. CASE i = n
    BY <1>1, <1>4, <1>11, <2>1
  <2>2. CASE i # n
    <3>1. i + 1 \in 1..n
      BY <2>2
    <3> QED
      BY <1>11, <1>12, <2>2, <3>1
  <2> QED
    BY <2>1, <2>2
<1> HIDE DEF end
<1>14. ASSUME NEW i \in 1..n
       PROVE  ~(end(i) < long(i)) /\ SubSeq(t, long(i) + 1, end(i)) = e[i]
  <2>1. i \in 1..m
    BY <1>1
  <2>2. PICK from \in Nat, k \in Nat : from = s[i] /\ k = Len(e[i]) /\ s[i + 1] = from + k
    BY <1>3, <2>1
  <2>3. long(i) = from /\ end(i) = from + k
    BY <1>12, <1>13, <2>2
  <2>4. SubSeq(t, from + 1, from + k) = [j \in 1..k |-> t[from + j]]
    BY Part
  <2>5. \A j \in 1..k : t[from + j] = e[i][j]
    BY <1>4, <2>2
  <2>6. e[i] = [j \in 1..k |-> e[i][j]]
    <3>1. e[i] \in Seq(Byte)
      BY <1>1, ElementIs
    <3> QED
      BY <2>2, <3>1, Same
  <2>7. SubSeq(t, from + 1, from + k) = e[i]
    BY <2>4, <2>5, <2>6
  <2> QED
    BY <2>3, <2>7
<1>15. TocElements(t) =
         IF Len(t) < 4 THEN Throws("length_error")
         ELSE IF Len(t) < 4 + 4 * long(0) THEN Throws("length_error")
         ELSE IF \E i \in 1..long(0) : end(i) < long(i) THEN Throws("length_error")
         ELSE Value([i \in 1..long(0) |-> SubSeq(t, long(i) + 1, end(i))])
  BY Zenon DEF TocElements, long, end
<1>16. [i \in 1..n |-> SubSeq(t, long(i) + 1, end(i))] = e
  <2>1. e = [i \in 1..n |-> e[i]]
    BY <1>1, Same
  <2> QED
    BY <1>14, <2>1
<1>17. ~(Len(t) < 4) /\ ~(Len(t) < 4 + 4 * n)
  BY <1>5, <1>6
<1>18. TocElements(t) = Value([i \in 1..n |-> SubSeq(t, long(i) + 1, end(i))])
  BY <1>11, <1>14, <1>15, <1>17
<1> QED
  BY <1>2, <1>16, <1>18

-----------------------------------------------------------------------------
(***************************************************************************)
(* What a property is kept as, and where.                                  *)
(***************************************************************************)

Types == Small \cup {"longlong", "binary", "string", "wstring",
                     "mv_long", "mv_binary", "mv_string", "mv_wstring"}

LEMMA PropIs ==
  ASSUME NEW v \in AllProps
  PROVE  /\ v.type \in Types /\ Valued(v.type, v.value) /\ v.hnid \in Numbers
         /\ v.type \in Small => v.hnid = 0
         /\ v.type \notin Small \cup {"longlong"} /\ v.hnid = 0 => Encoded(v.type, v.value) = <<>>
<1>1. Kept(v)
  BY StoreAssumption
<1>2. Valued(v.type, v.value)
  BY <1>1 DEF Kept
<1>3. v.type \in Types
  BY <1>2 DEF Valued, Types, Small
<1> QED
  BY <1>1, <1>2, <1>3 DEF Kept

\* Strings of wide characters
LEMMA WideIs ==
  ASSUME NEW v \in Seq(Seq(Byte))
  PROVE  [i \in DOMAIN v |-> Utf16(v[i])] \in Seq(Seq(Byte))
<1>1. PICK n \in Nat : n = Len(v) /\ DOMAIN v = 1..n
  OBVIOUS
<1>2. PICK t : t = [i \in DOMAIN v |-> Utf16(v[i])]
  OBVIOUS
<1>3. ASSUME NEW i \in 1..n
      PROVE  t[i] \in Seq(Byte)
  <2>1. v[i] \in Seq(Byte)
    BY <1>1, ElementIs
  <2> QED
    BY <1>1, <1>2, <2>1, Utf16Is
<1>4. t = [i \in 1..n |-> t[i]]
  BY <1>1, <1>2
<1>5. t \in Seq(Seq(Byte))
  BY <1>3, <1>4, SequenceIs
<1> QED
  BY <1>2, <1>5

LEMMA Encodings ==
  ASSUME NEW type, NEW v
  PROVE  /\ type = "longlong" => Encoded(type, v) = LE(v, 8)
         /\ type \in {"binary", "string"} => Encoded(type, v) = v
         /\ type = "wstring" => Encoded(type, v) = Utf16(v)
         /\ type = "mv_long" => Encoded(type, v) = Longs(v)
         /\ type \in {"mv_binary", "mv_string"} => Encoded(type, v) = WithToc(v)
         /\ type = "mv_wstring" => Encoded(type, v) = WithToc([i \in DOMAIN v |-> Utf16(v[i])])
BY DEF Encoded

LEMMA ValuesOf ==
  ASSUME NEW type, NEW v, Valued(type, v)
  PROVE  /\ type \in {"long", "longlong"} => v \in Numbers
         /\ type \in {"binary", "string", "wstring"} => v \in Seq(Byte)
         /\ type = "mv_long" => v \in Seq(Numbers)
         /\ type \in {"mv_binary", "mv_string", "mv_wstring"} => v \in Seq(Seq(Byte))
BY DEF Valued

\* What is kept is a sequence of bytes.
LEMMA EncodedIs ==
  ASSUME NEW v \in AllProps, v.type \notin Small, NEW bytes, bytes = Encoded(v.type, v.value)
  PROVE  Len(bytes) \in Nat /\ bytes = [i \in 1..Len(bytes) |-> bytes[i]]
<1>1. PICK type, value : type = v.type /\ value = v.value
  OBVIOUS
<1>2. type \in Types \ Small /\ Valued(type, value) /\ bytes = Encoded(type, value)
  BY <1>1, PropIs
<1>3. SUFFICES \E n \in Nat : bytes = [i \in 1..n |-> bytes[i]]
  BY LenIs
<1>4. CASE type = "longlong"
  <2>1. value \in Numbers /\ bytes = LE(value, 8)
    BY <1>2, <1>4, ValuesOf, Encodings, Zenon
  <2>2. bytes = [i \in 1..8 |-> bytes[i]]
    BY <2>1 DEF LE
  <2> QED
    BY <2>2
<1>5. ASSUME bytes \in Seq(Byte)
      PROVE  \E n \in Nat : bytes = [i \in 1..n |-> bytes[i]]
  BY <1>5, Same
<1>6. CASE type \in {"binary", "string"}
  <2>1. value \in Seq(Byte)
    BY <1>2, <1>6, ValuesOf
  <2>2. bytes = value
    BY <1>2, <1>6, Encodings
  <2> QED
    BY <1>5, <2>1, <2>2
<1>7. CASE type = "wstring"
  <2>1. value \in Seq(Byte) /\ bytes = Utf16(value)
    BY <1>2, <1>7, ValuesOf, Encodings
  <2> QED
    BY <1>5, <2>1, Utf16Is
<1>8. CASE type = "mv_long"
  <2>1. value \in Seq(Numbers) /\ bytes = Longs(value)
    BY <1>2, <1>8, ValuesOf, Encodings
  <2> QED
    BY <1>5, <2>1, LongsAre
<1>9. ASSUME NEW e \in Seq(Seq(Byte)), bytes = WithToc(e)
      PROVE  \E n \in Nat : bytes = [i \in 1..n |-> bytes[i]]
  <2>1. PICK n \in Nat : n = Starts(e)[Len(e) + 1]
    <3>1. Len(e) + 1 \in 1..(Len(e) + 1)
      OBVIOUS
    <3> QED
      BY <3>1, StartsAre
  <2> QED
    BY <1>9, <2>1, WithTocIs
<1>10. CASE type \in {"mv_binary", "mv_string"}
  <2>1. value \in Seq(Seq(Byte)) /\ bytes = WithToc(value)
    BY <1>2, <1>10, ValuesOf, Encodings
  <2> QED
    BY <1>9, <2>1
<1>11. CASE type = "mv_wstring"
  <2>1. value \in Seq(Seq(Byte)) /\ bytes = WithToc([i \in DOMAIN value |-> Utf16(value[i])])
    BY <1>2, <1>11, ValuesOf, Encodings
  <2> QED
    BY <1>9, <2>1, WideIs
<1> QED
  BY <1>2, <1>4, <1>6, <1>7, <1>8, <1>10, <1>11 DEF Types

LEMMA ContentIs ==
  ASSUME NEW v \in AllProps, v.hnid # 0
  PROVE  v.hnid \in DOMAIN Contents /\ Contents[v.hnid] = Encoded(v.type, v.value)
<1>1. PICK h : h = v.hnid /\ h # 0
  OBVIOUS
<1>2. PICK H : H = {w.hnid : w \in AllProps} \ {0}
  OBVIOUS
<1>3. h \in H
  BY <1>1, <1>2
<1>4. Contents = [x \in H |-> LET kept == CHOOSE w \in AllProps : w.hnid = x
                              IN Encoded(kept.type, kept.value)]
  BY <1>2 DEF Contents
<1>5. PICK kept \in AllProps : kept = (CHOOSE w \in AllProps : w.hnid = h) /\ kept.hnid = h
  <2>1. \E w \in AllProps : w.hnid = h
    BY <1>1
  <2> QED
    BY <2>1, Zenon
<1>6. Contents[h] = Encoded(kept.type, kept.value)
  BY <1>3, <1>4, <1>5, Zenon
<1>7. Encoded(kept.type, kept.value) = Encoded(v.type, v.value)
  BY <1>1, <1>5, StoreAssumption, Zenon
<1>8. DOMAIN Contents = H
  BY <1>4
<1> QED
  BY <1>1, <1>3, <1>6, <1>7, <1>8

LEMMA ContentsAre ==
  ASSUME NEW h \in DOMAIN Contents
  PROVE  /\ h # 0 /\ h \in AllocIds \cup Subnodes
         /\ Len(Contents[h]) \in Numbers /\ Len(Contents[h]) \in Nat
         /\ StreamSize(h) = Len(Contents[h]) /\ FirstByte(h) \in Int
         /\ Contents[h] = [i \in 1..Len(Contents[h]) |-> Contents[h][i]]
<1>1. PICK v \in AllProps : v.hnid = h /\ h # 0
  BY DEF Contents
<1>2. Contents[h] = Encoded(v.type, v.value)
  BY <1>1, ContentIs
<1>3. v.type \notin Small
  BY <1>1, PropIs
<1>4. h \in Opened /\ StreamSize(h) = Len(Contents[h]) /\ Len(Contents[h]) \in Numbers
  BY StoreAssumption
<1>5. h \in AllocIds \cup Subnodes /\ FirstByte(h) \in Int
  BY <1>1, <1>4, ArrayIs DEF Opened
<1>6. /\ Len(Contents[h]) \in Nat
      /\ Contents[h] = [i \in 1..Len(Contents[h]) |-> Contents[h][i]]
  BY <1>2, <1>3, EncodedIs
<1> QED
  BY <1>1, <1>4, <1>5, <1>6

\* The addresses of an allocation or a subnode are those of its bytes.
LEMMA MemoryIs ==
  ASSUME NEW h \in DOMAIN Contents
  PROVE  Bytes(Addresses(h, 0, Len(Contents[h]))) = Contents[h]
<1>1. PICK n \in Nat, first \in Int : n = Len(Contents[h]) /\ first = FirstByte(h)
  BY ContentsAre
<1>2. PICK addresses : addresses = Addresses(h, 0, n)
  OBVIOUS
<1>3. addresses = [i \in 1..n |-> first + 0 + i - 1]
  BY <1>1, <1>2 DEF Addresses
<1>4. ASSUME NEW i \in 1..n
      PROVE  /\ addresses[i] \in DOMAIN Memory
             /\ Memory[addresses[i]] = Contents[h][i]
  <2>1. PICK a \in Int : a = first + (i - 1) /\ a = addresses[i]
    BY <1>3
  <2>2. i - 1 \in 0..(n - 1) /\ a - first = i - 1 /\ a - first + 1 = i
    BY <2>1
  <2> DEFINE bytesOf(x) == {FirstByte(x) + k : k \in 0..(Len(Contents[x]) - 1)}
             holds(x) == a - FirstByte(x) \in 0..(Len(Contents[x]) - 1)
  <2>3. a \in bytesOf(h)
    BY <1>1, <2>1, <2>2
  <2>4. a \in UNION {bytesOf(x) : x \in DOMAIN Contents}
    BY <2>3
  <2>5. Memory =
          [b \in UNION {bytesOf(x) : x \in DOMAIN Contents} |->
             LET y == CHOOSE x \in DOMAIN Contents : b - FirstByte(x) \in 0..(Len(Contents[x]) - 1)
             IN Contents[y][b - FirstByte(y) + 1]]
    BY DEF Memory
  <2> HIDE DEF bytesOf
  <2>6. holds(h)
    BY <1>1, <2>2
  <2>7. ASSUME NEW x \in DOMAIN Contents, holds(x)
        PROVE  x = h
    <3>1. PICK m \in Nat, from \in Int : m = Len(Contents[x]) /\ from = FirstByte(x)
      BY ContentsAre
    <3>2. ~Apart(from, m, first, n)
      <4>1. a - from \in 0..(m - 1)
        BY <2>7, <3>1
      <4> QED
        BY <2>2, <4>1 DEF Apart
    <3> QED
      BY <1>1, <3>1, <3>2, ContentsAre, BytesApart
  <2>8. (CHOOSE x \in DOMAIN Contents : holds(x)) = h
    BY <2>6, <2>7, Zenon
  <2>9. Memory[a] = LET y == CHOOSE x \in DOMAIN Contents : holds(x)
                    IN Contents[y][a - FirstByte(y) + 1]
    BY <2>4, <2>5, Zenon
  <2> HIDE DEF holds
  <2>10. Memory[a] = Contents[h][a - FirstByte(h) + 1]
    BY <2>8, <2>9, Zenon
  <2>11. DOMAIN Memory = UNION {bytesOf(x) : x \in DOMAIN Contents}
    BY <2>5, Zenon
  <2> QED
    BY <1>1, <2>1, <2>2, <2>4, <2>10, <2>11
<1>5. Bytes(addresses) = [i \in 1..n |-> Contents[h][i]]
  <2>1. Bytes(addresses) =
          [i \in 1..n |-> IF addresses[i] \in DOMAIN Memory THEN Memory[addresses[i]] ELSE Stale]
    BY <1>3 DEF Bytes
  <2> QED
    BY <1>4, <2>1
<1> QED
  BY <1>1, <1>2, <1>5, ContentsAre

\* read_allocation and the size of what is found
LEMMA HnidRead ==
  ASSUME NEW h \in DOMAIN Contents
  PROVE  /\ ReadHnid(h) = Value(Contents[h])
         /\ (IF IsSubnodeId(h) THEN Value(SubnodeSize[h]) ELSE AllocSize(h, 0))
              = Value(Len(Contents[h]))
<1>1. /\ h # 0 /\ h \in AllocIds \cup Subnodes /\ StreamSize(h) = Len(Contents[h])
      /\ Len(Contents[h]) \in Nat
  BY ContentsAre
<1>2. CASE IsSubnodeId(h)
  <2>1. SubnodeSize[h] = Len(Contents[h])
    BY <1>1, <1>2 DEF StreamSize
  <2>2. ReadHnid(h) = Value(Bytes(Addresses(h, 0, SubnodeSize[h])))
    BY <1>2 DEF ReadHnid
  <2> QED
    BY <1>2, <2>1, <2>2, MemoryIs
<1>3. CASE ~IsSubnodeId(h)
  <2>1. h \in AllocIds
    BY <1>1, <1>3, SubnodesAssumption
  <2>2. AllocSize(h, 0) = Value(StreamSize(h))
    BY <2>1, AllocationIs
  <2>3. PICK n \in Nat : n = Len(Contents[h]) /\ AllocSize(h, 0) = Value(n)
    BY <1>1, <2>2
  <2>4. AllocSize(h, 0).throws = None /\ AllocSize(h, 0).value = n
    BY <2>3 DEF Value
  <2>5. ReadAll(h) = Value(Addresses(h, 0, n))
    BY <2>4 DEF ReadAll, Read
  <2>6. ReadAll(h).throws = None /\ ReadAll(h).value = Addresses(h, 0, n)
    BY <2>5 DEF Value
  <2>7. ReadHnid(h) = Value(Bytes(Addresses(h, 0, n)))
    BY <1>3, <2>4, <2>6 DEF ReadHnid, Then
  <2> QED
    BY <1>3, <2>3, <2>7, MemoryIs
<1> QED
  BY <1>2, <1>3

LEMMA NothingRead ==
  /\ ReadHnid(0) = Value(<<>>)
  /\ (IF IsSubnodeId(0) THEN Value(SubnodeSize[0]) ELSE AllocSize(0, 0)) = Value(0)
<1>1. ~IsSubnodeId(0) /\ AllocSize(0, 0) = Value(0)
  BY DEF IsSubnodeId, AllocSize
<1>2. AllocSize(0, 0).throws = None /\ AllocSize(0, 0).value = 0
  BY <1>1 DEF Value
<1>3. ReadAll(0) = Value(Addresses(0, 0, 0))
  BY <1>2 DEF ReadAll, Read
<1>4. ReadAll(0).throws = None /\ ReadAll(0).value = Addresses(0, 0, 0)
  BY <1>3 DEF Value
<1>5. ReadHnid(0) = Value(Bytes(Addresses(0, 0, 0)))
  BY <1>1, <1>2, <1>4 DEF ReadHnid, Then
<1>6. Bytes(Addresses(0, 0, 0)) = <<>>
  BY DEF Bytes, Addresses
<1> QED
  BY <1>1, <1>5, <1>6

-----------------------------------------------------------------------------
(***************************************************************************)
(* What an object finds.                                                   *)
(***************************************************************************)

LEMMA Results ==
  /\ \A v : Value(v).throws = None /\ Value(v).value = v
  /\ \A e \in {"out_of_range", "key_not_found", "length_error"} : Throws(e).throws # None
BY ProgramAssumption DEF Value, Throws, Errors

LEMMA ObjectIs ==
  ASSUME table \in Tables, NEW o \in Objects, o # Bag
  PROVE  /\ Len(table.rows) \in Nat /\ o.row \in 0..Len(table.rows)
         /\ IsThere(o) <=> o.row < Len(table.rows)
         /\ PropsOf(o) = table.rows[o.row + 1].props
         /\ IsThere(o) => table.place # "none" /\ o.row \in 0..(Len(table.rows) - 1)
<1>1. Len(table.rows) \in Nat /\ (table.place = "none" => Len(table.rows) = 0)
  BY TableIs
<1>2. o.row \in 0..Len(table.rows)
  BY DEF Objects, Row
<1> QED
  BY <1>1, <1>2 DEF IsThere, PropsOf

\* A cell and its bit of a row of the table, of any property,
LEMMA CellFound ==
  ASSUME table \in Tables, NEW i \in 0..(Len(table.rows) - 1), NEW p
  PROVE  /\ ExistsInRow(i, p) = Value(p \in DOMAIN table.rows[i + 1].props)
         /\ p \in DOMAIN table.rows[i + 1].props =>
              GetCellValue(i, p) = Value(InCell(table.rows[i + 1].props[p]))
         /\ p \notin DOMAIN table.rows[i + 1].props => GetCellValue(i, p) = Throws("key_not_found")
<1>1. /\ Len(table.rows) \in Nat /\ table.place # "none" /\ i \in 0..Len(table.rows)
      /\ i # Len(table.rows) /\ i + 1 \in 1..Len(table.rows)
  BY TableIs
<1>2. PICK r : r = table.rows[i + 1]
  OBVIOUS
<1>3. RowKept(r)
  BY <1>1, <1>2, RowIsKept
<1>4. \A q \in DOMAIN r.props : q \in DOMAIN Columns
  BY <1>3 DEF RowKept
<1>5. ASSUME NEW offset \in Nat, NEW size \in Nat, offset + size <= RowSize
      PROVE  ReadRow(i, offset, size) = Value(RowPart(r, offset, size))
  BY <1>1, <1>2, <1>5, RowRead
<1>6. CASE p \notin DOMAIN Columns
  <2>1. ExistsInRow(i, p) = Value(FALSE)
    BY <1>6 DEF ExistsInRow
  <2>2. GetCellValue(i, p) = Throws("key_not_found")
    BY <2>1, Results, Zenon DEF GetCellValue, Then
  <2>3. p \notin DOMAIN r.props
    BY <1>4, <1>6
  <2>4. (p \in DOMAIN r.props) = FALSE
    BY <2>3
  <2> QED
    BY <1>2, <2>1, <2>2, <2>3, <2>4, Zenon
<1>7. CASE p \in DOMAIN Columns
  <2>1. PICK bits : bits = RowPart(r, ExistsStart, RowSize - ExistsStart)
    OBVIOUS
  <2>2. ReadRow(i, ExistsStart, RowSize - ExistsStart) = Value(bits)
    <3>1. PICK start \in Nat, size \in Nat :
            start = ExistsStart /\ size = RowSize - ExistsStart /\ start + size <= RowSize
      BY RowIs
    <3> QED
      BY <1>5, <2>1, <3>1
  <2>3. ExistsInRow(i, p) = Value(TestBit(bits, Columns[p].bit))
    BY <1>7, <2>2, Results, Zenon DEF ExistsInRow, Then
  <2>4. TestBit(bits, Columns[p].bit) <=> p \in DOMAIN r.props
    BY <1>3, <1>7, <2>1, BitRead
  <2>5. TestBit(bits, Columns[p].bit) = (p \in DOMAIN r.props)
    <3>1. ASSUME p \in DOMAIN r.props
          PROVE  TestBit(bits, Columns[p].bit) = TRUE /\ (p \in DOMAIN r.props) = TRUE
      <4>1. TestBit(bits, Columns[p].bit)
        BY <2>4, <3>1
      <4>2. TestBit(bits, Columns[p].bit) = TRUE
        BY <4>1 DEF TestBit
      <4> QED
        BY <3>1, <4>2
    <3>2. ASSUME p \notin DOMAIN r.props
          PROVE  TestBit(bits, Columns[p].bit) = FALSE /\ (p \in DOMAIN r.props) = FALSE
      <4>1. ~TestBit(bits, Columns[p].bit)
        BY <2>4, <3>2
      <4>2. TestBit(bits, Columns[p].bit) = FALSE
        BY <4>1 DEF TestBit
      <4> QED
        BY <3>2, <4>2
    <3> QED
      BY <3>1, <3>2, Zenon
  <2>6. ExistsInRow(i, p) = Value(p \in DOMAIN r.props)
    BY <2>3, <2>5, Zenon
  <2>7. ASSUME p \in DOMAIN r.props
        PROVE  GetCellValue(i, p) = Value(InCell(r.props[p]))
    <3>1. PICK offset \in Nat, size \in {1, 2, 4, 8} :
            offset = Columns[p].offset /\ size = Columns[p].size /\ offset + size <= ExistsStart
      BY <1>7, ColumnIs
    <3>2. size \in Nat /\ offset + size <= RowSize
      BY <3>1, RowIs
    <3>3. ReadRow(i, Columns[p].offset, Columns[p].size)
            = Value(RowPart(r, Columns[p].offset, Columns[p].size))
      BY <1>5, <3>1, <3>2
    <3>4. FromLE(RowPart(r, Columns[p].offset, Columns[p].size)) = InCell(r.props[p])
      BY <1>3, <2>7, CellRead
    <3>5. GetCellValue(i, p) =
            Then(ReadRow(i, Columns[p].offset, Columns[p].size),
                 LAMBDA bytes : Value(FromLE(bytes)))
      BY <2>6, <2>7, Results, Zenon DEF GetCellValue, Then
    <3> QED
      BY <3>3, <3>4, <3>5, Results, Zenon DEF Then
  <2>8. ASSUME p \notin DOMAIN r.props
        PROVE  GetCellValue(i, p) = Throws("key_not_found")
    BY <2>6, <2>8, Results, Zenon DEF GetCellValue, Then
  <2> QED
    BY <1>2, <2>6, <2>7, <2>8, Zenon
<1> QED
  BY <1>6, <1>7

\* and of the row behind the last.
LEMMA CellBehind ==
  ASSUME table \in Tables, table.place # "none", NEW p
  PROVE  /\ p \notin DOMAIN Columns => ExistsInRow(Len(table.rows), p) = Value(FALSE)
         /\ p \in DOMAIN Columns => ExistsInRow(Len(table.rows), p) = Throws("out_of_range")
         /\ GetCellValue(Len(table.rows), p) \in {Throws("key_not_found"), Throws("out_of_range")}
<1>1. PICK i \in Nat : i = Len(table.rows) /\ i \in 0..Len(table.rows)
  BY TableIs
<1>2. CASE p \notin DOMAIN Columns
  <2>1. ExistsInRow(i, p) = Value(FALSE)
    BY <1>2 DEF ExistsInRow
  <2>2. GetCellValue(i, p) = Throws("key_not_found")
    BY <2>1, Results, Zenon DEF GetCellValue, Then
  <2> QED
    BY <1>1, <1>2, <2>1, <2>2
<1>3. CASE p \in DOMAIN Columns
  <2>1. PICK start \in Nat, size \in Nat :
          start = ExistsStart /\ size = RowSize - ExistsStart /\ start + size <= RowSize
    BY RowIs
  <2>2. ReadRow(i, ExistsStart, RowSize - ExistsStart) = Throws("out_of_range")
    BY <1>1, <2>1, RowRead
  <2>3. ExistsInRow(i, p) = Throws("out_of_range")
    BY <1>3, <2>2, Results, Zenon DEF ExistsInRow, Then
  <2>4. GetCellValue(i, p) = Throws("out_of_range")
    BY <2>3, Results, Zenon DEF GetCellValue, Then
  <2> QED
    BY <1>1, <1>3, <2>3, <2>4
<1> QED
  BY <1>2, <1>3

LEMMA Remainder ==
  ASSUME NEW n \in Numbers
  PROVE  n % Power256[3 + 1] = n /\ (n < 65536 => n % Power256[2 + 1] = n)
<1>1. n \in Nat /\ n < 16777216
  BY DEF Numbers
<1>2. Power256[3 + 1] = 16777216 /\ Power256[2 + 1] = 65536
  BY DEF Power256
<1> QED
  BY <1>1, <1>2

\* What get_value_2 and get_value_4 find.
Found(o, p) == IF o = Bag THEN Entry(p) ELSE InCell(PropsOf(o)[p])

LEMMA GetIs ==
  ASSUME table \in Tables, NEW o \in Objects, IsThere(o), NEW p, NEW size
  PROVE  /\ Has(o, p) => Get(o, p, size) = Value(Found(o, p) % Power256[size + 1])
         /\ ~Has(o, p) => Get(o, p, size) = Throws("key_not_found")
<1>1. CASE o = Bag
  <2>1. Has(o, p) <=> p \in DOMAIN BagProps
    BY <1>1 DEF Has, PropsOf, IsThere
  <2>2. Has(o, p) => Get(o, p, size) = Value(Found(o, p) % Power256[size + 1])
    BY <1>1, <2>1, Results, Zenon DEF Get, Then, Found
  <2>3. ~Has(o, p) => Get(o, p, size) = Throws("key_not_found")
    BY <1>1, <2>1, Results, Zenon DEF Get, Then
  <2> QED
    BY <2>2, <2>3
<1>2. CASE o # Bag
  <2>1. PICK i \in 0..(Len(table.rows) - 1) :
          i = o.row /\ PropsOf(o) = table.rows[i + 1].props /\ table.place # "none"
    BY <1>2, ObjectIs
  <2>2. Has(o, p) <=> p \in DOMAIN table.rows[i + 1].props
    BY <2>1 DEF Has
  <2>3. Get(o, p, size) =
          Then(GetCellValue(i, p), LAMBDA n : Value(n % Power256[size + 1]))
    BY <1>2, <2>1, Zenon DEF Get
  <2>4. Has(o, p) => GetCellValue(i, p) = Value(Found(o, p))
    BY <1>2, <2>1, <2>2, CellFound, Zenon DEF Found
  <2>5. ~Has(o, p) => GetCellValue(i, p) = Throws("key_not_found")
    BY <2>2, CellFound, Zenon
  <2>6. Has(o, p) => Get(o, p, size) = Value(Found(o, p) % Power256[size + 1])
    BY <2>3, <2>4, Results, Zenon DEF Then
  <2>7. ~Has(o, p) => Get(o, p, size) = Throws("key_not_found")
    BY <2>3, <2>5, Results, Zenon DEF Then
  <2> QED
    BY <2>6, <2>7
<1> QED
  BY <1>1, <1>2

\* A property that an object has
LEMMA HasIs ==
  ASSUME table \in Tables, NEW o \in Objects, NEW p, Has(o, p)
  PROVE  /\ PropsOf(o)[p] \in AllProps
         /\ Found(o, p) \in Numbers
         /\ Found(o, p) = IF PropsOf(o)[p].type \in Small \/
                             (o # Bag /\ PropsOf(o)[p].type = "longlong")
                          THEN Number(PropsOf(o)[p].type, PropsOf(o)[p].value)
                          ELSE PropsOf(o)[p].hnid
         /\ o = Bag /\ PropsOf(o)[p].type = "longlong" => PropsOf(o)[p].hnid # 0
         /\ PropType(o, p) = Value(PropsOf(o)[p].type)
<1>1. CASE o = Bag
  <2>1. p \in DOMAIN BagProps /\ PropsOf(o)[p] = BagProps[p]
    BY <1>1 DEF Has, PropsOf
  <2>2. PropsOf(o)[p] \in AllProps
    BY <2>1 DEF AllProps
  <2>3. PropsOf(o)[p].type = "longlong" => PropsOf(o)[p].hnid # 0
    BY <2>1, StoreAssumption
  <2>4. PropType(o, p) = Value(PropsOf(o)[p].type)
    BY <1>1, <2>1 DEF PropType
  <2>5. Found(o, p) = IF PropsOf(o)[p].type \in Small
                        THEN Number(PropsOf(o)[p].type, PropsOf(o)[p].value)
                        ELSE PropsOf(o)[p].hnid
    BY <1>1, <2>1 DEF Found, Entry
  <2> QED
    BY <1>1, <2>2, <2>3, <2>4, <2>5, NumberIs
<1>2. CASE o # Bag
  <2>1. PICK i \in 0..(Len(table.rows) - 1) :
          i = o.row /\ PropsOf(o) = table.rows[i + 1].props /\ table.place # "none"
    BY <1>2, ObjectIs DEF Has
  <2>2. RowKept(table.rows[i + 1])
    <3>1. i + 1 \in 1..Len(table.rows)
      BY <2>1, TableIs
    <3> QED
      BY <3>1, RowIsKept
  <2>3. /\ p \in DOMAIN Columns /\ PropsOf(o)[p].type = Columns[p].type
        /\ PropsOf(o)[p] \in AllProps
    BY <2>1, <2>2 DEF RowKept, Has
  <2>4. PropType(o, p) = Value(PropsOf(o)[p].type)
    BY <1>2, <2>1, <2>3 DEF PropType
  <2>5. Found(o, p) = IF PropsOf(o)[p].type \in Small \cup {"longlong"}
                        THEN Number(PropsOf(o)[p].type, PropsOf(o)[p].value)
                        ELSE PropsOf(o)[p].hnid
    BY <1>2 DEF Found, InCell
  <2>6. Found(o, p) \in Numbers
    BY <1>2, <2>3, InCellIs DEF Found
  <2> QED
    BY <1>2, <2>3, <2>4, <2>5, <2>6
<1> QED
  BY <1>1, <1>2

\* and the bytes of one that is kept elsewhere.
Outside(o, v) == v.type \in Types \ Small /\ (v.type = "longlong" => o = Bag)

LEMMA VariableIs ==
  ASSUME table \in Tables, NEW o \in Objects, NEW p, Has(o, p), Outside(o, PropsOf(o)[p])
  PROVE  /\ Variable(o, p) = Value(Encoded(PropsOf(o)[p].type, PropsOf(o)[p].value))
         /\ Len(Encoded(PropsOf(o)[p].type, PropsOf(o)[p].value)) \in Numbers
         /\ Get(o, p, 3) = Value(PropsOf(o)[p].hnid)
<1>1. PICK v \in AllProps : v = PropsOf(o)[p]
  BY HasIs
<1>2. /\ v.hnid \in Numbers /\ Found(o, p) = v.hnid
      /\ v.type = "longlong" => v.hnid # 0
  BY <1>1, HasIs DEF Outside
<1>3. Get(o, p, 3) = Value(v.hnid)
  <2>1. IsThere(o)
    BY DEF Has
  <2>2. Get(o, p, 3) = Value(Found(o, p) % Power256[3 + 1])
    BY <2>1, GetIs
  <2>3. v.hnid % Power256[3 + 1] = v.hnid
    BY <1>2, Remainder
  <2> QED
    BY <1>2, <2>2, <2>3, Zenon
<1>4. PICK bytes : bytes = Encoded(v.type, v.value)
  OBVIOUS
<1>5. ReadHnid(v.hnid) = Value(bytes) /\ Len(bytes) \in Numbers
  <2>1. CASE v.hnid = 0
    <3>1. bytes = <<>>
      BY <1>1, <1>2, <1>4, <2>1, PropIs DEF Outside
    <3>2. Len(bytes) \in Numbers
      BY <3>1 DEF Numbers
    <3> QED
      BY <2>1, <3>1, <3>2, NothingRead
  <2>2. CASE v.hnid # 0
    <3>1. v.hnid \in DOMAIN Contents /\ Contents[v.hnid] = bytes
      BY <1>4, <2>2, ContentIs
    <3> QED
      BY <3>1, HnidRead, ContentsAre
  <2> QED
    BY <2>1, <2>2
<1>6. Variable(o, p) = Value(bytes)
  <2>1. Variable(o, p) = ReadHnid(v.hnid)
    BY <1>3, Results, Zenon DEF Variable, Then
  <2> QED
    BY <1>5, <2>1
<1> QED
  BY <1>1, <1>3, <1>4, <1>5, <1>6

-----------------------------------------------------------------------------
(***************************************************************************)
(* What read_prop makes of it.                                             *)
(***************************************************************************)

\* The program reads a property as what it is kept as: any string as any other,
\* but wide strings of an array only as wide strings.
AsksAsKept ==
  \A a \in Asks :
    \/ a[1] = a[2] /\ a[1] \in Small \cup {"longlong", "binary"}
    \/ a[1] \in {"string", "wstring"} /\ a[2] \in {"string", "wstring"}
    \/ a[1] = "mv_long" /\ a[2] = "long"
    \/ a[1] = "mv_binary" /\ a[2] = "binary"
    \/ a[1] = "mv_string" /\ a[2] \in {"string", "wstring"}
    \/ a[1] = "mv_wstring" /\ a[2] = "wstring"

LEMMA AskIs ==
  ASSUME AsksAsKept, NEW type, NEW T, <<type, T>> \in Asks
  PROVE  \/ type = T /\ type \in Small \cup {"longlong", "binary"}
         \/ type \in {"string", "wstring"} /\ T \in {"string", "wstring"}
         \/ type = "mv_long" /\ T = "long"
         \/ type = "mv_binary" /\ T = "binary"
         \/ type = "mv_string" /\ T \in {"string", "wstring"}
         \/ type = "mv_wstring" /\ T = "wstring"
<1>1. PICK a \in Asks : a = <<type, T>>
  OBVIOUS
<1>2. a[1] = type /\ a[2] = T
  BY <1>1
<1> QED
  BY <1>2 DEF AsksAsKept

LEMMA ReadPropIs ==
  ASSUME table \in Tables, AsksAsKept, NEW o \in Objects, NEW p, Has(o, p), NEW T,
         <<PropsOf(o)[p].type, T>> \in Asks, PropsOf(o)[p].type \notin MultiValued
  PROVE  ReadProp(o, p, T) = Value(PropsOf(o)[p].value)
<1>1. PICK v \in AllProps : v = PropsOf(o)[p]
  BY HasIs
<1>2. PICK type, value : type = v.type /\ value = v.value
  OBVIOUS
<1>3. \/ type = T /\ type \in Small \cup {"longlong", "binary"}
      \/ type \in {"string", "wstring"} /\ T \in {"string", "wstring"}
  BY <1>1, <1>2, AskIs DEF MultiValued
<1>4. PICK n \in Numbers :
        /\ n = Found(o, p) /\ n % Power256[3 + 1] = n
        /\ n < 65536 => n % Power256[2 + 1] = n
  BY HasIs, Remainder
<1>5. ASSUME NEW size
      PROVE  Get(o, p, size) = Value(n % Power256[size + 1])
  <2>1. IsThere(o)
    BY DEF Has
  <2>2. Get(o, p, size) = Value(Found(o, p) % Power256[size + 1])
    BY <2>1, GetIs
  <2> QED
    BY <1>4, <2>2
<1>6. Get(o, p, 3) = Value(n)
  <2>1. Get(o, p, 3) = Value(n % Power256[3 + 1])
    BY <1>5
  <2> QED
    BY <1>4, <2>1
<1>7. type \in Small \/ (o # Bag /\ type = "longlong") => n = Number(type, value)
  BY <1>1, <1>2, <1>4, HasIs
<1>8. /\ type = "short" => value < 65536
      /\ type \in {"short", "long", "longlong"} => Number(type, value) = value
      /\ type = "boolean" => value \in BOOLEAN /\ Number(type, value) = IF value THEN 1 ELSE 0
  <2>1. /\ v.type = "short" => v.value < 65536
        /\ v.type \in {"short", "long", "longlong"} => Number(v.type, v.value) = v.value
        /\ v.type = "boolean" =>
             v.value \in BOOLEAN /\ Number(v.type, v.value) = IF v.value THEN 1 ELSE 0
    BY NumberIs
  <2> QED
    BY <1>2, <2>1
<1>9. CASE type = "short" /\ T = "short"
  <2>1. n = value /\ n < 65536
    BY <1>7, <1>9, <1>8 DEF Small
  <2>2. Get(o, p, 2) = Value(n)
    <3>1. Get(o, p, 2) = Value(n % Power256[2 + 1])
      BY <1>5
    <3> QED
      BY <1>4, <2>1, <3>1
  <2>3. ReadProp(o, p, T) = Get(o, p, 2)
    BY <1>9 DEF ReadProp
  <2> QED
    BY <1>1, <1>2, <2>1, <2>2, <2>3
<1>10. CASE type = "long" /\ T = "long"
  <2>1. n = value
    BY <1>7, <1>10, <1>8 DEF Small
  <2>2. ReadProp(o, p, T) = Get(o, p, 3)
    BY <1>10 DEF ReadProp
  <2> QED
    BY <1>1, <1>2, <1>6, <2>1, <2>2
<1>11. CASE type = "boolean" /\ T = "boolean"
  <2>1. value \in BOOLEAN /\ n = IF value THEN 1 ELSE 0
    BY <1>7, <1>11, <1>8 DEF Small
  <2>2. ReadProp(o, p, T) = Then(Get(o, p, 3), LAMBDA m : Value(m # 0))
    BY <1>11 DEF ReadProp
  <2>3. ReadProp(o, p, T) = Value(n # 0)
    BY <1>6, <2>2, Results, Zenon DEF Then
  <2>4. (n # 0) = value
    <3>1. CASE value = TRUE
      <4>1. n # 0
        BY <2>1, <3>1
      <4>2. (n # 0) = TRUE
        BY <4>1
      <4> QED
        BY <3>1, <4>2, Zenon
    <3>2. CASE value = FALSE
      <4>1. ~(n # 0)
        BY <2>1, <3>2
      <4>2. (n # 0) = FALSE
        BY <4>1
      <4> QED
        BY <3>2, <4>2, Zenon
    <3> QED
      BY <2>1, <3>1, <3>2
  <2> QED
    BY <1>1, <1>2, <2>3, <2>4, Zenon
<1>12. ASSUME Outside(o, v)
       PROVE  Variable(o, p) = Value(Encoded(type, value))
  BY <1>1, <1>2, <1>12, VariableIs, Zenon
<1>13. Valued(type, value) /\ PropType(o, p) = Value(type)
  BY <1>1, <1>2, PropIs, HasIs
<1>14. CASE type = "longlong" /\ T = "longlong"
  <2>1. ReadProp(o, p, T) = Get8(o, p)
    BY <1>14 DEF ReadProp
  <2>2. CASE o # Bag
    <3>1. n = value
      BY <1>7, <1>14, <1>8, <2>2
    <3>2. Get8(o, p) = Get(o, p, 3)
      BY <2>2 DEF Get8
    <3> QED
      BY <1>1, <1>2, <1>6, <2>1, <3>1, <3>2
  <2>3. CASE o = Bag
    <3>1. Outside(o, v)
      BY <1>2, <1>14, <2>3 DEF Outside, Types, Small
    <3>2. value \in Numbers /\ Encoded(type, value) = LE(value, 8)
      BY <1>13, <1>14, ValuesOf, Encodings, Zenon
    <3>3. PICK bytes : bytes = LE(value, 8)
      OBVIOUS
    <3>4. bytes \in [1..8 -> Byte] /\ Len(bytes) = 8
      BY <3>2, <3>3, LEIs
    <3>5. SubSeq(bytes, 1, 8) = bytes
      <4>1. SubSeq(bytes, 0 + 1, 0 + 8) = [i \in 1..8 |-> bytes[0 + i]]
        BY Part
      <4>2. bytes = [i \in 1..8 |-> bytes[i]]
        BY <3>4
      <4> QED
        BY <4>1, <4>2
    <3>6. FromLE(bytes) = value
      BY <3>2, <3>3, <3>4, NumberRead
    <3>7. Get8(o, p) = Then(Variable(o, p), LAMBDA b : Value(FromLE(SubSeq(b, 1, 8))))
      BY <2>3 DEF Get8
    <3>8. Variable(o, p) = Value(bytes)
      BY <1>12, <3>1, <3>2, <3>3
    <3>9. Get8(o, p) = Value(FromLE(SubSeq(bytes, 1, 8)))
      BY <3>7, <3>8, Results, Zenon DEF Then
    <3> QED
      BY <1>1, <1>2, <2>1, <3>5, <3>6, <3>9
  <2> QED
    BY <2>2, <2>3
<1>15. CASE type = "binary" /\ T = "binary"
  <2>1. Outside(o, v)
    BY <1>2, <1>15 DEF Outside, Types, Small
  <2>2. ReadProp(o, p, T) = Variable(o, p)
    BY <1>15 DEF ReadProp
  <2>3. Encoded(type, value) = value
    BY <1>15, Encodings
  <2> QED
    BY <1>1, <1>2, <1>12, <2>1, <2>2, <2>3
<1>16. CASE type \in {"string", "wstring"} /\ T \in {"string", "wstring"}
  <2>1. Outside(o, v)
    BY <1>2, <1>16 DEF Outside, Types, Small
  <2>2. ReadProp(o, p, T) =
          Then(Variable(o, p),
               LAMBDA bytes : Value(String(bytes, PropType(o, p).value # "string")))
    BY <1>16 DEF ReadProp
  <2>3. ReadProp(o, p, T) = Value(String(Encoded(type, value), PropType(o, p).value # "string"))
    BY <1>12, <2>1, <2>2, Results, Zenon DEF Then
  <2>4. PropType(o, p).value = type
    BY <1>13, Results
  <2>5. value \in Seq(Byte)
    BY <1>13, <1>16, ValuesOf
  <2>6. CASE type = "string"
    <3>1. Encoded(type, value) = value
      BY <2>6, Encodings
    <3>2. String(value, PropType(o, p).value # "string") = value
      BY <2>4, <2>6 DEF String
    <3> QED
      BY <1>1, <1>2, <2>3, <3>1, <3>2, Zenon
  <2>7. CASE type = "wstring"
    <3>1. Encoded(type, value) = Utf16(value) /\ Wide(Utf16(value)) = value
      BY <2>5, <2>7, Encodings, Utf16Is
    <3>2. String(Utf16(value), PropType(o, p).value # "string") = Wide(Utf16(value))
      BY <2>4, <2>7 DEF String
    <3> QED
      BY <1>1, <1>2, <2>3, <3>1, <3>2, Zenon
  <2> QED
    BY <1>16, <2>6, <2>7
<1> QED
  BY <1>3, <1>9, <1>10, <1>11, <1>14, <1>15, <1>16 DEF Small

LEMMA ReadArrayIs ==
  ASSUME table \in Tables, AsksAsKept, NEW o \in Objects, NEW p, Has(o, p), NEW T,
         <<PropsOf(o)[p].type, T>> \in Asks, PropsOf(o)[p].type \in MultiValued
  PROVE  ReadPropArray(o, p, T) = Value(PropsOf(o)[p].value)
<1>1. PICK v \in AllProps : v = PropsOf(o)[p]
  BY HasIs
<1>2. PICK type, value, bytes :
        type = v.type /\ value = v.value /\ bytes = Encoded(type, value)
  OBVIOUS
<1>3. \/ type = "mv_long" /\ T = "long"
      \/ type = "mv_binary" /\ T = "binary"
      \/ type = "mv_string" /\ T \in {"string", "wstring"}
      \/ type = "mv_wstring" /\ T = "wstring"
  BY <1>1, <1>2, AskIs DEF MultiValued, Small
<1>4. Variable(o, p) = Value(bytes) /\ Len(bytes) \in Numbers
  <2>1. Outside(o, v)
    BY <1>2, <1>3 DEF Outside, Types, Small
  <2> QED
    BY <1>1, <1>2, <2>1, VariableIs, Zenon
<1>5. Valued(type, value) /\ PropType(o, p).value = type
  BY <1>1, <1>2, PropIs, HasIs, Results
<1>6. CASE type = "mv_long" /\ T = "long"
  <2>1. value \in Seq(Numbers) /\ bytes = Longs(value)
    BY <1>2, <1>5, <1>6, ValuesOf, Encodings
  <2>2. PICK n \in Nat : n = Len(value)
    BY <2>1
  <2>3. Len(bytes) \div 4 = n
    <3>1. Len(bytes) = 4 * n
      BY <2>1, <2>2, LongsAre
    <3> QED
      BY <3>1
  <2>4. ASSUME NEW i \in 1..n
        PROVE  FromLE(SubSeq(bytes, 4 * i - 3, 4 * i)) = value[i]
    <3>1. PICK k \in Nat : k = i - 1 /\ k < Len(value) /\ k + 1 = i
      BY <2>2
    <3>2. 4 * k + 1 = 4 * i - 3 /\ 4 * k + 4 = 4 * i
      BY <3>1
    <3>3. FromLE(SubSeq(bytes, 4 * k + 1, 4 * k + 4)) = value[k + 1]
      BY <2>1, <3>1, LongRead
    <3> QED
      BY <3>1, <3>2, <3>3, Zenon
  <2>5. [i \in 1..n |-> FromLE(SubSeq(bytes, 4 * i - 3, 4 * i))] = value
    <3>1. value = [i \in 1..n |-> value[i]]
      BY <2>1, <2>2, Same
    <3> QED
      BY <2>4, <3>1
  <2>6. ReadPropArray(o, p, T) =
          Value([i \in 1..(Len(bytes) \div 4) |-> FromLE(SubSeq(bytes, 4 * i - 3, 4 * i))])
    BY <1>4, <1>6, Results, Zenon DEF ReadPropArray, Then
  <2> QED
    BY <1>1, <1>2, <2>3, <2>5, <2>6, Zenon
<1> DEFINE wide == PropType(o, p).value # "mv_string"
           Elements(e) == CASE T = "binary" -> Value(e)
                            [] T = "string" /\ wide -> Value(Strings(e))
                            [] OTHER -> Value([i \in DOMAIN e |-> String(e[i], wide)])
<1>7. ASSUME NEW e \in Seq(Seq(Byte)), bytes = WithToc(e), T # "long"
      PROVE  ReadPropArray(o, p, T) = Elements(e)
  <2>1. TocElements(bytes) = Value(e)
    BY <1>4, <1>7, TocRead
  <2>2. ReadPropArray(o, p, T) = Then(TocElements(bytes), LAMBDA elements : Elements(elements))
    BY <1>4, <1>7, Results, Zenon DEF ReadPropArray, Then
  <2> HIDE DEF Elements
  <2> QED
    BY <2>1, <2>2, Results, Zenon DEF Then
<1>8. CASE type = "mv_binary" /\ T = "binary"
  <2>1. value \in Seq(Seq(Byte)) /\ bytes = WithToc(value)
    BY <1>2, <1>5, <1>8, ValuesOf, Encodings
  <2>2. Elements(value) = Value(value)
    BY <1>8
  <2> QED
    BY <1>1, <1>2, <1>7, <1>8, <2>1, <2>2
<1>9. CASE type = "mv_string" /\ T \in {"string", "wstring"}
  <2>1. value \in Seq(Seq(Byte)) /\ bytes = WithToc(value)
    BY <1>2, <1>5, <1>9, ValuesOf, Encodings
  <2>2. ~wide
    BY <1>5, <1>9
  <2>3. Elements(value) = Value([i \in DOMAIN value |-> value[i]])
    BY <1>9, <2>2 DEF String
  <2>4. [i \in DOMAIN value |-> value[i]] = value
    BY <2>1
  <2> QED
    BY <1>1, <1>2, <1>7, <1>9, <2>1, <2>3, <2>4
<1>10. CASE type = "mv_wstring" /\ T = "wstring"
  <2>1. value \in Seq(Seq(Byte))
    BY <1>5, <1>10, ValuesOf
  <2>2. PICK e : e = [i \in DOMAIN value |-> Utf16(value[i])]
    OBVIOUS
  <2>3. e \in Seq(Seq(Byte)) /\ bytes = WithToc(e)
    BY <1>2, <1>10, <2>1, <2>2, WideIs, Encodings
  <2>4. wide
    BY <1>5, <1>10
  <2>5. Elements(e) = Value([i \in DOMAIN e |-> Wide(e[i])])
    BY <1>10, <2>4 DEF String
  <2>6. [i \in DOMAIN e |-> Wide(e[i])] = value
    <3>1. DOMAIN e = DOMAIN value
      BY <2>2
    <3>2. ASSUME NEW i \in DOMAIN value
          PROVE  Wide(e[i]) = value[i]
      <4>1. value[i] \in Seq(Byte)
        BY <2>1, ElementIs
      <4>2. e[i] = Utf16(value[i])
        BY <2>2
      <4> QED
        BY <4>1, <4>2, Utf16Is
    <3>3. value = [i \in DOMAIN value |-> value[i]]
      BY <2>1
    <3> QED
      BY <3>1, <3>2, <3>3
  <2> QED
    BY <1>1, <1>2, <1>7, <1>10, <2>3, <2>5, <2>6
<1> QED
  BY <1>3, <1>6, <1>8, <1>9, <1>10

-----------------------------------------------------------------------------
(***************************************************************************)
(* Every call is answered with what the store says.                        *)
(***************************************************************************)

Right(c, r) ==
  IF c.obj = Table \/ IsThere(c.obj) THEN r = Truth(c)
  ELSE \/ r.throws # None \/ c.op = "type"
       \/ c.op = "list" /\ r.value = {}
       \/ c.op = "exists" /\ ~r.value

LEMMA NoneIsTable ==
  ASSUME NEW o \in Objects
  PROVE  o # Table
<1>1. o.kind # "table"
  BY DEF Objects, Bag, Row
<1> QED
  BY <1>1 DEF Table

LEMMA CallIs ==
  ASSUME NEW c \in ObjectCalls
  PROVE  /\ c.obj \in Objects
         /\ c.op \in {"exists", "type", "list", "size", "stream", "prop", "array"}
         /\ c.op \in {"size", "stream"} /\ Has(c.obj, c.prop) =>
              PropsOf(c.obj)[c.prop].type \in Sized
         /\ c.op \in {"prop", "array"} =>
              /\ Suits(c.obj, c.prop, c.as)
              /\ Has(c.obj, c.prop) =>
                   (PropsOf(c.obj)[c.prop].type \in MultiValued) = (c.op = "array")
BY DEF ObjectCalls

\* What fails to find a property fails.
LEMMA Unfound ==
  ASSUME NEW o, NEW p, NEW e \in {"out_of_range", "key_not_found"}, Get(o, p, 3) = Throws(e)
  PROVE  /\ ReadProp(o, p, "long") = Throws(e) /\ ReadPropArray(o, p, "long") = Throws(e)
         /\ SizeOfProp(o, p) = Throws(e)
<1>1. Throws(e).throws # None
  BY Results
<1>2. ReadProp(o, p, "long") = Throws(e)
  BY DEF ReadProp
<1>3. Variable(o, p) = Throws(e)
  BY <1>1, Zenon DEF Variable, Then
<1>4. ReadPropArray(o, p, "long") = Throws(e)
  BY <1>1, <1>3, Zenon DEF ReadPropArray, Then
<1>5. SizeOfProp(o, p) = Throws(e)
  BY <1>1, Zenon DEF SizeOfProp, Then
<1> QED
  BY <1>2, <1>4, <1>5

\* The calls about all properties of an object
LEMMA ExistsIs ==
  ASSUME table \in Tables, NEW o \in Objects, IsThere(o), NEW p
  PROVE  Exists(o, p) = Value(p \in DOMAIN PropsOf(o))
<1>1. CASE o = Bag
  BY <1>1 DEF Exists, PropsOf
<1>2. CASE o # Bag
  <2>1. PICK i \in 0..(Len(table.rows) - 1) :
          i = o.row /\ PropsOf(o) = table.rows[i + 1].props /\ table.place # "none"
    BY <1>2, ObjectIs
  <2>2. ExistsInRow(i, p) = Value(p \in DOMAIN table.rows[i + 1].props)
    BY CellFound
  <2>3. Exists(o, p) = ExistsInRow(i, p)
    BY <1>2, <2>1, Zenon DEF Exists
  <2> QED
    BY <2>1, <2>2, <2>3, Zenon
<1> QED
  BY <1>1, <1>2

LEMMA ListIs ==
  ASSUME table \in Tables, NEW o \in Objects, IsThere(o)
  PROVE  PropList(o) = Value(DOMAIN PropsOf(o))
<1>1. CASE o = Bag
  BY <1>1 DEF PropList, PropsOf
<1>2. CASE o # Bag
  <2>1. PICK i \in 0..(Len(table.rows) - 1) :
          i = o.row /\ PropsOf(o) = table.rows[i + 1].props /\ table.place # "none"
    BY <1>2, ObjectIs
  <2>2. RowKept(table.rows[i + 1])
    <3>1. i + 1 \in 1..Len(table.rows)
      BY <2>1, TableIs
    <3> QED
      BY <3>1, RowIsKept
  <2>3. \A p \in DOMAIN PropsOf(o) : p \in DOMAIN Columns
    BY <2>1, <2>2 DEF RowKept
  <2>4. ASSUME NEW p
        PROVE  /\ Exists(o, p).throws = None
               /\ Exists(o, p).value <=> p \in DOMAIN PropsOf(o)
    <3>1. Exists(o, p) = Value(p \in DOMAIN PropsOf(o))
      BY ExistsIs
    <3>2. Exists(o, p).throws = None /\ Exists(o, p).value = (p \in DOMAIN PropsOf(o))
      BY <3>1, Results, Zenon
    <3> QED
      BY <3>2, Zenon
  <2>5. {p \in DOMAIN Columns : Exists(o, p).value} = DOMAIN PropsOf(o)
    BY <2>3, <2>4, Zenon
  <2>6. PropList(o) = Value({p \in DOMAIN Columns : Exists(o, p).value})
    BY <1>2, <2>1, <2>4, Zenon DEF PropList
  <2> QED
    BY <2>5, <2>6
<1> QED
  BY <1>1, <1>2

\* and about one.
LEMMA ObjectAnswers ==
  ASSUME table \in Tables, AsksAsKept, NEW c \in ObjectCalls, IsThere(c.obj)
  PROVE  Result(c) = Truth(c)
<1>1. PICK o \in Objects, p \in {c.prop} : o = c.obj
  BY CallIs
<1>2. IsThere(o)
  BY <1>1
<1>3. c.op \in {"exists", "type", "list", "size", "stream", "prop", "array"}
  BY CallIs
<1>4. CASE c.op = "exists"
  <2>1. Result(c) = Exists(o, p)
    BY <1>1, <1>4 DEF Result
  <2>2. Truth(c) = Value(Has(o, p))
    BY <1>1, <1>4 DEF Truth
  <2>3. Has(o, p) = (p \in DOMAIN PropsOf(o))
    <3>1. CASE p \in DOMAIN PropsOf(o)
      <4>1. Has(o, p)
        BY <1>2, <3>1 DEF Has
      <4>2. Has(o, p) = TRUE
        BY <4>1 DEF Has
      <4>3. (p \in DOMAIN PropsOf(o)) = TRUE
        BY <3>1
      <4> QED
        BY <4>2, <4>3, Zenon
    <3>2. CASE p \notin DOMAIN PropsOf(o)
      <4>1. ~Has(o, p)
        BY <3>2 DEF Has
      <4>2. Has(o, p) = FALSE
        BY <4>1 DEF Has
      <4>3. (p \in DOMAIN PropsOf(o)) = FALSE
        BY <3>2
      <4> QED
        BY <4>2, <4>3, Zenon
    <3> QED
      BY <3>1, <3>2
  <2>4. Exists(o, p) = Value(p \in DOMAIN PropsOf(o))
    BY <1>2, ExistsIs
  <2> QED
    BY <2>1, <2>2, <2>3, <2>4, Zenon
<1>5. CASE c.op = "list"
  <2>1. Result(c) = PropList(o) /\ Truth(c) = Value(DOMAIN PropsOf(o))
    BY <1>1, <1>5 DEF Result, Truth
  <2> QED
    BY <1>2, <2>1, ListIs
<1>6. CASE c.op = "type"
  <2>1. Result(c) = PropType(o, p)
    BY <1>1, <1>6 DEF Result
  <2>2. CASE o # Bag
    <3>1. table.place # "none"
      BY <1>2, <2>2, ObjectIs
    <3>2. CASE p \in DOMAIN Columns
      <4>1. Truth(c) = Value(Columns[p].type)
        BY <1>1, <1>6, <2>2, <3>2 DEF Truth
      <4>2. PropType(o, p) = Value(Columns[p].type)
        BY <2>2, <3>1, <3>2 DEF PropType
      <4> QED
        BY <2>1, <4>1, <4>2
    <3>3. CASE p \notin DOMAIN Columns
      <4>1. ~Has(o, p)
        <5>1. PICK i \in 0..(Len(table.rows) - 1) : PropsOf(o) = table.rows[i + 1].props
          BY <1>2, <2>2, ObjectIs
        <5>2. i + 1 \in 1..Len(table.rows)
          BY TableIs
        <5>3. RowKept(table.rows[i + 1])
          BY <5>2, RowIsKept
        <5> QED
          BY <3>3, <5>1, <5>3 DEF RowKept, Has
      <4>2. Truth(c) = Throws("key_not_found")
        BY <1>1, <1>6, <3>3, <4>1 DEF Truth
      <4>3. PropType(o, p) = Throws("key_not_found")
        BY <2>2, <3>1, <3>3 DEF PropType
      <4> QED
        BY <2>1, <4>2, <4>3
    <3> QED
      BY <3>2, <3>3
  <2>3. CASE o = Bag
    <3>1. Truth(c) = IF ~Has(o, p) THEN Throws("key_not_found") ELSE Value(PropsOf(o)[p].type)
      BY <1>1, <1>6, <2>3 DEF Truth
    <3>2. Has(o, p) <=> p \in DOMAIN BagProps
      BY <1>2, <2>3 DEF Has, PropsOf
    <3> QED
      BY <2>1, <2>3, <3>1, <3>2 DEF PropType, PropsOf
  <2> QED
    BY <2>2, <2>3
<1>7. CASE c.op \in {"size", "stream", "prop", "array"} /\ ~Has(o, p)
  <2>1. Get(o, p, 3) = Throws("key_not_found")
    BY <1>2, <1>7, GetIs
  <2>2. Truth(c) = Throws("key_not_found")
    BY <1>1, <1>7 DEF Truth
  <2>3. c.op \in {"prop", "array"} => c.as = "long"
    BY <1>1, <1>7, CallIs DEF Suits
  <2>4. Result(c) = Throws("key_not_found")
    BY <1>1, <1>7, <2>1, <2>3, Unfound DEF Result
  <2> QED
    BY <2>2, <2>4
<1>8. CASE c.op \in {"size", "stream"} /\ Has(o, p)
  <2>1. PICK v \in AllProps : v = PropsOf(o)[p]
    BY <1>8, HasIs
  <2>2. Outside(o, v)
    BY <1>1, <1>8, <2>1, CallIs DEF Outside, Sized, MultiValued, Types, Small
  <2>3. Get(o, p, 3) = Value(v.hnid)
    BY <1>8, <2>1, <2>2, VariableIs
  <2>4. CASE c.op = "stream"
    <3>1. Truth(c) = Value(v.hnid)
      BY <1>1, <1>8, <2>1, <2>4 DEF Truth
    <3>2. Result(c) = Get(o, p, 3)
      BY <1>1, <2>4 DEF Result
    <3> QED
      BY <2>3, <3>1, <3>2
  <2>5. CASE c.op = "size"
    <3>1. Truth(c) = Value(IF v.hnid = 0 THEN 0 ELSE Len(Contents[v.hnid]))
      BY <1>1, <1>8, <2>1, <2>5 DEF Truth
    <3>2. Result(c) = SizeOfProp(o, p)
      BY <1>1, <2>5 DEF Result
    <3>3. SizeOfProp(o, p) =
            IF IsSubnodeId(v.hnid) THEN Value(SubnodeSize[v.hnid]) ELSE AllocSize(v.hnid, 0)
      BY <2>3, Results, Zenon DEF SizeOfProp, Then
    <3>4. CASE v.hnid = 0
      BY <3>1, <3>2, <3>3, <3>4, NothingRead
    <3>5. CASE v.hnid # 0
      <4>1. v.hnid \in DOMAIN Contents
        BY <3>5, ContentIs
      <4> QED
        BY <3>1, <3>2, <3>3, <3>5, <4>1, HnidRead
    <3> QED
      BY <3>4, <3>5
  <2> QED
    BY <1>8, <2>4, <2>5
<1>9. CASE c.op \in {"prop", "array"} /\ Has(o, p)
  <2>1. Truth(c) = Value(PropsOf(o)[p].value)
    BY <1>1, <1>9 DEF Truth
  <2>2. <<PropsOf(o)[p].type, c.as>> \in Asks
    BY <1>1, <1>9, CallIs DEF Suits
  <2>3. (PropsOf(o)[p].type \in MultiValued) = (c.op = "array")
    BY <1>1, <1>9, CallIs
  <2>4. CASE c.op = "prop"
    <3>1. PropsOf(o)[p].type \notin MultiValued
      BY <2>3, <2>4
    <3>2. Result(c) = ReadProp(o, p, c.as)
      BY <1>1, <2>4 DEF Result
    <3> QED
      BY <1>9, <2>1, <2>2, <3>1, <3>2, ReadPropIs
  <2>5. CASE c.op = "array"
    <3>1. PropsOf(o)[p].type \in MultiValued
      BY <2>3, <2>5
    <3>2. Result(c) = ReadPropArray(o, p, c.as)
      BY <1>1, <2>5 DEF Result
    <3> QED
      BY <1>9, <2>1, <2>2, <3>1, <3>2, ReadArrayIs
  <2> QED
    BY <1>9, <2>4, <2>5
<1> QED
  BY <1>3, <1>4, <1>5, <1>6, <1>7, <1>8, <1>9

\* A row behind the last has nothing.
LEMMA BehindAnswers ==
  ASSUME table \in Tables, NEW c \in ObjectCalls, ~IsThere(c.obj)
  PROVE  \/ Result(c).throws # None \/ c.op = "type"
         \/ c.op = "list" /\ Result(c).value = {}
         \/ c.op = "exists" /\ ~Result(c).value
<1>1. PICK o \in Objects, p \in {c.prop} : o = c.obj
  BY CallIs
<1>2. o # Bag /\ o.row = Len(table.rows)
  <2>1. o # Bag
    BY <1>1 DEF IsThere
  <2> QED
    BY <1>1, <2>1, ObjectIs
<1>3. c.op \in {"exists", "type", "list", "size", "stream", "prop", "array"}
  BY CallIs
<1>4. \A q : \/ Exists(o, q).throws # None
             \/ q \notin DOMAIN Columns /\ ~Exists(o, q).value
  <2> TAKE q
  <2>1. CASE table.place = "none"
    BY <1>2, <2>1, Results DEF Exists
  <2>2. CASE table.place # "none"
    <3>1. Exists(o, q) = ExistsInRow(Len(table.rows), q)
      BY <1>2, <2>2, Zenon DEF Exists
    <3>2. CASE q \in DOMAIN Columns
      BY <2>2, <3>1, <3>2, CellBehind, Results
    <3>3. CASE q \notin DOMAIN Columns
      BY <2>2, <3>1, <3>3, CellBehind, Results
    <3> QED
      BY <3>2, <3>3
  <2> QED
    BY <2>1, <2>2
<1>5. PICK e \in {"out_of_range", "key_not_found"} : Get(o, p, 3) = Throws(e)
  <2>1. CASE table.place = "none"
    <3>1. Get(o, p, 3) = Throws("key_not_found")
      BY <1>2, <2>1, Results, Zenon DEF Get, Then
    <3> QED
      BY <3>1
  <2>2. CASE table.place # "none"
    <3>1. PICK e \in {"out_of_range", "key_not_found"} :
            GetCellValue(Len(table.rows), p) = Throws(e)
      BY <2>2, CellBehind
    <3>2. Throws(e).throws # None
      BY Results
    <3>3. Get(o, p, 3) = Throws(e)
      BY <1>2, <2>2, <3>1, <3>2, Zenon DEF Get, Then
    <3> QED
      BY <3>3
  <2> QED
    BY <2>1, <2>2
<1>6. CASE c.op = "exists"
  <2>1. Result(c) = Exists(o, p)
    BY <1>1, <1>6 DEF Result
  <2> QED
    BY <1>4, <1>6, <2>1
<1>7. CASE c.op = "list"
  <2>1. Result(c) = PropList(o)
    BY <1>1, <1>7 DEF Result
  <2>2. CASE table.place = "none"
    <3>1. PropList(o) = Value({})
      BY <1>2, <2>2, Zenon DEF PropList
    <3> QED
      BY <1>7, <2>1, <3>1, Results
  <2>3. CASE table.place # "none"
    <3>1. CASE \E q \in DOMAIN Columns : Exists(o, q).throws # None
      <4>1. PropList(o) = Throws("out_of_range")
        BY <1>2, <2>3, <3>1, Zenon DEF PropList
      <4> QED
        BY <2>1, <4>1, Results
    <3>2. CASE ~\E q \in DOMAIN Columns : Exists(o, q).throws # None
      <4>1. DOMAIN Columns = {}
        BY <1>4, <3>2
      <4>2. PropList(o) = Value({q \in DOMAIN Columns : Exists(o, q).value})
        BY <1>2, <2>3, <3>2, Zenon DEF PropList
      <4>3. {q \in DOMAIN Columns : Exists(o, q).value} = {}
        BY <4>1
      <4> QED
        BY <1>7, <2>1, <4>2, <4>3, Results
    <3> QED
      BY <3>1, <3>2
  <2> QED
    BY <2>2, <2>3
<1>8. CASE c.op \in {"size", "stream", "prop", "array"}
  <2>1. ~Has(o, p)
    BY <1>1 DEF Has
  <2>2. c.op \in {"prop", "array"} => c.as = "long"
    BY <1>1, <2>1, CallIs DEF Suits
  <2>3. Result(c) = Throws(e)
    BY <1>1, <1>5, <1>8, <2>2, Unfound DEF Result
  <2> QED
    BY <2>3, Results
<1> QED
  BY <1>3, <1>6, <1>7, <1>8

LEMMA TableAnswers ==
  ASSUME table \in Tables, NEW c \in TableCalls
  PROVE  Right(c, Result(c))
<1>1. PICK N \in Nat : N = Len(table.rows) /\ DOMAIN table.rows = 1..N
  BY TableIs
<1>2. CASE c.obj = Table /\ c.op = "table_size"
  <2>1. Result(c) = Value(TableSize) /\ Truth(c) = Value(Len(table.rows))
    BY <1>2 DEF Result, Truth
  <2> QED
    BY <1>2, <2>1, TableSizeIs DEF Right
<1>3. CASE c.obj = Table /\ c.op = "lookup_row"
  <2>1. RowIndex[table] =
          [id \in {table.rows[i].id : i \in DOMAIN table.rows} |->
             CHOOSE i \in 0..(Len(table.rows) - 1) : table.rows[i + 1].id = id]
    BY DEF RowIndex
  <2>2. c.prop \in DOMAIN RowIndex[table] <=> \E i \in DOMAIN table.rows : table.rows[i].id = c.prop
    BY <2>1
  <2>3. c.prop \in DOMAIN RowIndex[table] =>
          RowIndex[table][c.prop] =
            CHOOSE i \in 0..(Len(table.rows) - 1) : table.rows[i + 1].id = c.prop
    BY <2>1
  <2>4. c.prop \in DOMAIN RowIndex[table] => table.place # "none"
    <3>1. table.place = "none" => N = 0
      BY <1>1, TableIs
    <3> QED
      BY <1>1, <2>2, <3>1
  <2>5. Result(c) =
          IF table.place # "none" /\ c.prop \in DOMAIN RowIndex[table]
            THEN Value(RowIndex[table][c.prop]) ELSE Throws("key_not_found")
    BY <1>3 DEF Result
  <2>6. Truth(c) =
          IF \E i \in DOMAIN table.rows : table.rows[i].id = c.prop
            THEN Value(CHOOSE i \in 0..(Len(table.rows) - 1) : table.rows[i + 1].id = c.prop)
            ELSE Throws("key_not_found")
    BY <1>3 DEF Truth
  <2>7. Result(c) = Truth(c)
    BY <2>2, <2>3, <2>4, <2>5, <2>6
  <2> QED
    BY <1>3, <2>7 DEF Right
<1>4. CASE c.op = "row_id" /\ c.obj \in {Row(i) : i \in 0..Len(table.rows)}
  <2>1. PICK i \in 0..N : c.obj = Row(i)
    BY <1>1, <1>4
  <2>2. c.obj.row = i /\ c.obj # Bag /\ c.obj # Table
    <3>1. c.obj.row = i /\ c.obj.kind = "row"
      BY <2>1 DEF Row
    <3> QED
      BY <3>1 DEF Bag, Table
  <2>3. IsThere(c.obj) <=> i < N
    BY <1>1, <2>2 DEF IsThere
  <2>4. Result(c) =
          IF table.place = "none" THEN Throws("key_not_found")
          ELSE Then(ReadRow(i, 0, 4), LAMBDA bytes : Value(FromLE(bytes)))
    BY <1>4, <2>2 DEF Result
  <2>5. 0 + 4 <= RowSize
    BY RowIs
  <2>6. CASE i < N
    <3>1. table.place # "none" /\ i # Len(table.rows) /\ i + 1 \in 1..Len(table.rows)
          /\ i \in 0..Len(table.rows)
      BY <1>1, <2>6, TableIs
    <3>2. ReadRow(i, 0, 4) = Value(RowPart(table.rows[i + 1], 0, 4))
      BY <2>5, <3>1, RowRead
    <3>3. FromLE(RowPart(table.rows[i + 1], 0, 4)) = table.rows[i + 1].id
      BY <3>1, RowIsKept, IdRead
    <3>4. Result(c) = Then(ReadRow(i, 0, 4), LAMBDA bytes : Value(FromLE(bytes)))
      BY <2>4, <3>1
    <3>5. Result(c) = Value(table.rows[i + 1].id)
      BY <3>2, <3>3, <3>4, Results, Zenon DEF Then
    <3>6. Truth(c) = Value(table.rows[i + 1].id)
      BY <1>4, <2>2 DEF Truth
    <3> QED
      BY <2>3, <2>6, <3>5, <3>6 DEF Right
  <2>7. CASE ~(i < N)
    <3>1. i = Len(table.rows) /\ i \in 0..Len(table.rows)
      BY <1>1, <2>7
    <3>2. CASE table.place = "none"
      <4>1. Result(c).throws # None
        BY <2>4, <3>2, Results
      <4> QED
        BY <2>2, <2>3, <2>7, <4>1 DEF Right
    <3>3. CASE table.place # "none"
      <4>1. ReadRow(i, 0, 4) = Throws("out_of_range")
        BY <2>5, <3>1, <3>3, RowRead
      <4>2. Result(c) = Then(ReadRow(i, 0, 4), LAMBDA bytes : Value(FromLE(bytes)))
        BY <2>4, <3>3
      <4>3. Result(c).throws # None
        BY <4>1, <4>2, Results, Zenon DEF Then
      <4> QED
        BY <2>2, <2>3, <2>7, <4>3 DEF Right
    <3> QED
      BY <3>2, <3>3
  <2> QED
    BY <2>6, <2>7
<1> QED
  BY <1>2, <1>3, <1>4 DEF TableCalls

LEMMA CallAnswers ==
  ASSUME table \in Tables, AsksAsKept, NEW c \in ObjectCalls \cup TableCalls
  PROVE  Right(c, Result(c))
<1>1. CASE c \in TableCalls
  BY <1>1, TableAnswers
<1>2. CASE c \in ObjectCalls
  <2>1. c.obj # Table
    BY <1>2, CallIs, NoneIsTable
  <2>2. CASE IsThere(c.obj)
    BY <1>2, <2>2, ObjectAnswers DEF Right
  <2>3. CASE ~IsThere(c.obj)
    BY <1>2, <2>1, <2>3, BehindAnswers DEF Right
  <2> QED
    BY <2>2, <2>3
<1> QED
  BY <1>1, <1>2

\* The store says the same as long as the table is the same.
LEMMA TruthStays ==
  ASSUME UNCHANGED table, NEW c
  PROVE  Truth(c)' = Truth(c) /\ IsThere(c.obj)' = IsThere(c.obj)
BY DEF Truth, Has, IsThere, PropsOf

LEMMA CallRight ==
  ASSUME table \in Tables, AsksAsKept, NEW c \in ObjectCalls \cup TableCalls, Call(c)
  PROVE  AnswersRight'
<1>1. PICK r : r = Result(c)
  OBVIOUS
<1>2. Right(c, r)
  BY <1>1, CallAnswers
<1>3. /\ UNCHANGED table
      /\ answer' = [call |-> c, throws |-> r.throws,
                    value |-> IF r.throws # None THEN None
                              ELSE [kind \in {<<c.op, c.as>>} |-> r.value]]
  BY <1>1 DEF Call, Answers
<1>4. answer'.call = c /\ answer'.throws = r.throws
  BY <1>3
<1>5. r.throws = None => Returned' = r.value
  <2>1. r.throws = None => answer'.value = [kind \in {<<c.op, c.as>>} |-> r.value]
    BY <1>3
  <2>2. r.throws = None => answer'.value[<<c.op, c.as>>] = r.value
    BY <2>1
  <2> QED
    BY <1>4, <2>2 DEF Returned
<1>6. Truth(c)' = Truth(c) /\ IsThere(c.obj)' = IsThere(c.obj)
  BY <1>3, TruthStays
<1>7. CASE c.obj = Table \/ IsThere(c.obj)
  <2>1. r = Truth(c)
    BY <1>2, <1>7 DEF Right
  <2> QED
    BY <1>4, <1>5, <1>6, <1>7, <2>1 DEF AnswersRight
<1>8. CASE ~(c.obj = Table \/ IsThere(c.obj))
  <2>1. \/ r.throws # None \/ c.op = "type"
        \/ c.op = "list" /\ r.value = {}
        \/ c.op = "exists" /\ ~r.value
    BY <1>2, <1>8 DEF Right
  <2> QED
    BY <1>4, <1>5, <1>6, <1>8, <2>1 DEF AnswersRight
<1> QED
  BY <1>7, <1>8

\* Bags and rows answer every call of const_property_object with what the store
\* holds, and tables with their rows and ids, whatever the properties, columns, pages,
\* allocations and subnodes, or throw because a block cannot be read.
THEOREM ObjectsAnswer ==
  ASSUME AsksAsKept
  PROVE  PSSpec => []AnswersRight
<1>1. PSInit => table \in Tables /\ AnswersRight
  BY DEF PSInit, Init, AnswersRight
<1>2. ASSUME table \in Tables, AnswersRight, [PSNext]_ps_vars
      PROVE  (table \in Tables)' /\ AnswersRight'
  <2>1. UNCHANGED table
    BY <1>2 DEF PSNext, Calls, Call, CallFails, OpenPropStream, OpenStream, Use, GoOn, ps_vars, vars
  <2>2. CASE answer' = None
    BY <1>2, <2>1, <2>2 DEF AnswersRight
  <2>3. CASE UNCHANGED answer
    <3>1. PICK c : c = answer.call
      OBVIOUS
    <3>2. Truth(c)' = Truth(c) /\ IsThere(c.obj)' = IsThere(c.obj)
      BY <2>1, TruthStays
    <3> QED
      BY <1>2, <2>1, <2>3, <3>1, <3>2 DEF AnswersRight, Returned
  <2>4. CASE \E c \in ObjectCalls \cup TableCalls : Call(c)
    BY <1>2, <2>1, <2>4, CallRight
  <2>5. CASE \E c : CallFails(c)
    <3>1. answer'.throws = "failed"
      BY <2>5 DEF CallFails, Answers, Throws
    <3> QED
      BY <1>2, <2>1, <3>1 DEF AnswersRight
  <2>6. \/ answer' = None \/ UNCHANGED answer \/ \E c : CallFails(c)
        \/ \E c \in ObjectCalls \cup TableCalls : Call(c)
    BY <1>2 DEF PSNext, Calls, OpenPropStream, OpenStream, Use, GoOn, ps_vars, vars
  <2> QED
    BY <2>2, <2>3, <2>4, <2>5, <2>6
<1> QED
  BY <1>1, <1>2, PTL DEF PSSpec

-----------------------------------------------------------------------------
\* Whatever is read of allocations and subnodes, in buffers, as a whole and with
\* streams, is their bytes in order and once each: streams over properties too,
\* since the objects that open them have answered with what the store holds.
THEOREM HeapIsBytes ==
  ASSUME AsksAsKept
  PROVE  PSSpec => IsByteStore
<1>1. PSInit => Inv /\ Store!Init
  BY Initially
<1>2. Inv /\ AnswersRight /\ [PSNext]_ps_vars => Inv' /\ [Store!Next]_<<Seen, Told>>
  BY EveryStep
<1>3. PSSpec => []AnswersRight
  BY ObjectsAnswer
<1> QED
  BY <1>1, <1>2, <1>3, PTL DEF PSSpec, IsByteStore, Store!Spec, Store!vars, Seen, Told
=============================================================================
