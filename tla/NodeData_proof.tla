--------------------------- MODULE NodeData_proof ---------------------------
(***************************************************************************)
(* The tree of blocks of a node is an array of bytes: NodeData implements  *)
(* ByteStore, for nodes and blocks of any size, any number of streams,     *)
(* whichever blocks are in memory and whichever cannot be read, as long as *)
(* no program reads where a failed seek has left it.                       *)
(***************************************************************************)
EXTENDS NodeData, TLAPS

AnyBlock == [node : Nodes, level : 0..2, first : Nat]

AnyFrame ==
  [task : {"raw", "page"}, block : AnyBlock, offset : Nat, size : Nat, read : Nat]

PageCall == call.op \in {"page_buffer", "page_value"}

\* The array that the operation in progress reads, and how much it will read.
Array == IF PageCall THEN <<call.node, call.page>> ELSE call.node

ArraySize == IF PageCall THEN PageSize(call.node, call.page) ELSE Size[call.node]

Wanted == Smaller(call.count, ArraySize - call.offset)

\* The first m bytes of what it reads.
Part(m) == [i \in 1..m |-> Origin + i - 1]

CallInv ==
  /\ stream \in [Streams -> [node : Nodes, pos : Nat] \cup {None}]
  /\ call = None => stack = <<>> /\ dest = <<>>
  /\ call # None =>
       /\ reply = None
       /\ call.node \in Nodes /\ call.count \in Counts /\ call.offset \in Nat
       /\ call.op \in {"stream", "buffer", "value", "page_buffer", "page_value"}
       /\ call.op = "stream" =>
            /\ call.stream \in Streams
            /\ stream[call.stream] = [node |-> call.node, pos |-> call.offset]
            /\ call.offset <= Size[call.node]
       /\ call.op # "stream" => call.offset \in Offsets
       /\ PageCall => call.page \in Nat
       /\ Len(dest) \in Nat /\ dest = Part(Len(dest))
       /\ stack = <<>> => dest = <<>>

\* The address in the node at which frame f reads next.
Place(f) == f.block.first + f.offset

\* get_page has still to find the page of the call.
PageFrame(f) ==
  /\ Len(stack) = 1 /\ dest = <<>> /\ PageCall
  /\ f.block.first + f.offset * PageMax = call.page * PageMax
  /\ \/ f.block = Root(call.node)
     \/ f.block.first < Size[call.node] /\ f.offset * PageMax < MaxSize(f.block.level)

\* The bytes that a frame of read_raw has to read are in its block and among
\* those wanted.
RawFrame(f) ==
  /\ f.offset + f.size <= TotalSize(f.block)
  /\ Place(f) + f.size <= Origin + Wanted

\* The first frame reads all that is wanted.
FirstFrame(f) ==
  /\ PageCall => Array \in Pages
  /\ Place(f) = Origin + f.read
  /\ f.read + f.size = Wanted
  /\ call.op \in {"buffer", "page_buffer"} => call.offset < ArraySize
  /\ call.op \in {"value", "page_value"} => call.offset + call.count <= ArraySize

\* A frame that has been called by another began where that one still is.
NextFrame(f, caller) ==
  /\ caller.task = "raw"
  /\ Place(f) = Place(caller) + f.read
  /\ f.read + f.size <= caller.size

FrameInv(d) ==
  /\ stack[d].block.node = call.node
  /\ stack[d].block.first <= Size[call.node]
  /\ stack[d].task = "page" => PageFrame(stack[d])
  /\ stack[d].task = "raw" =>
       /\ RawFrame(stack[d])
       /\ d = 1 => FirstFrame(stack[d])
       /\ d > 1 => NextFrame(stack[d], stack[d - 1])
       /\ d = Len(stack) => Place(stack[d]) = Origin + Len(dest)

StackInv ==
  /\ stack \in Seq(AnyFrame)
  /\ \A d \in 1..Len(stack) : FrameInv(d)

Inv == CallInv /\ StackInv

-----------------------------------------------------------------------------
(***************************************************************************)
(* Numbers and sequences.                                                  *)
(***************************************************************************)

LEMMA Quotient ==
  ASSUME NEW c \in Nat \ {0}, NEW o \in Nat
  PROVE  /\ o \div c \in Nat /\ o % c \in Nat /\ o % c < c
         /\ o = (o \div c) * c + (o % c)
OBVIOUS

LEMMA Product ==
  ASSUME NEW a \in Nat \ {0}, NEW b \in Nat \ {0}
  PROVE  a * b \in Nat \ {0}
OBVIOUS

LEMMA Distributed ==
  ASSUME NEW i \in Nat, NEW k \in Nat, NEW o \in Nat, NEW p \in Nat, NEW first \in Nat
  PROVE  (first + i * (k * p)) + o * p = first + (i * k + o) * p
OBVIOUS

LEMMA NoFactor ==
  ASSUME NEW a \in Nat, NEW b \in Nat \ {0}, a * b = 0
  PROVE  a = 0
OBVIOUS

LEMMA BelowQuotient ==
  ASSUME NEW c \in Nat \ {0}, NEW t \in Nat, NEW i \in Nat, i < (t + c - 1) \div c
  PROVE  i * c < t
<1> DEFINE q == (t + c - 1) \div c
           r == (t + c - 1) % c
<1>1. t + c - 1 \in Nat
  OBVIOUS
<1>2. q \in Nat /\ t + c - 1 = q * c + r /\ r \in Nat
  BY <1>1, Quotient
<1>3. i + 1 <= q
  BY <1>2
<1> HIDE DEF q, r
<1>4. (i + 1) * c <= q * c
  BY <1>2, <1>3
<1> QED
  BY <1>2, <1>4

LEMMA AboveQuotient ==
  ASSUME NEW c \in Nat \ {0}, NEW t \in Nat, NEW i \in Nat, i * c < t
  PROVE  i < (t + c - 1) \div c
<1> DEFINE q == (t + c - 1) \div c
           r == (t + c - 1) % c
<1>1. t + c - 1 \in Nat
  OBVIOUS
<1>2. q \in Nat /\ t + c - 1 = q * c + r /\ r \in Nat /\ r < c
  BY <1>1, Quotient
<1> HIDE DEF q, r
<1>3. CASE i >= q
  <2>1. i * c >= q * c
    BY <1>2, <1>3
  <2> QED
    BY <1>2, <2>1
<1>4. i < q
  BY <1>2, <1>3
<1> QED
  BY <1>4 DEF q

LEMMA PartIsSeq ==
  ASSUME NEW m \in Nat, NEW o \in Nat
  PROVE  /\ [i \in 1..m |-> o + i - 1] \in Seq(Nat)
         /\ Len([i \in 1..m |-> o + i - 1]) = m
OBVIOUS

LEMMA PartsJoin ==
  ASSUME NEW m \in Nat, NEW k \in Nat, NEW o \in Nat
  PROVE  [i \in 1..m |-> o + i - 1] \o [i \in 1..k |-> o + m + i - 1]
           = [i \in 1..(m + k) |-> o + i - 1]
OBVIOUS

LEMMA NoPart ==
  ASSUME NEW m \in Int, m <= 0, NEW o
  PROVE  [i \in 1..m |-> o + i - 1] = <<>>
OBVIOUS

LEMMA AllButLast ==
  ASSUME NEW S, NEW s \in Seq(S), Len(s) > 1
  PROVE  /\ SubSeq(s, 1, Len(s) - 1) \in Seq(S)
         /\ Len(SubSeq(s, 1, Len(s) - 1)) = Len(s) - 1
         /\ \A i \in 1..(Len(s) - 1) : SubSeq(s, 1, Len(s) - 1)[i] = s[i]
OBVIOUS

LEMMA OneReplaced ==
  ASSUME NEW S, NEW s \in Seq(S), NEW i \in 1..Len(s), NEW x \in S
  PROVE  /\ [s EXCEPT ![i] = x] \in Seq(S)
         /\ Len([s EXCEPT ![i] = x]) = Len(s)
         /\ [s EXCEPT ![i] = x][i] = x
         /\ \A d \in 1..Len(s) : d # i => [s EXCEPT ![i] = x][d] = s[d]
OBVIOUS

-----------------------------------------------------------------------------
(***************************************************************************)
(* The blocks.                                                             *)
(***************************************************************************)

LEMMA MaxSizes ==
  /\ PageMax \in Nat \ {0} /\ MaxCount \in Nat \ {0}
  /\ MaxSize(0) = PageMax
  /\ MaxSize(1) = PageMax * MaxCount /\ MaxSize(1) \in Nat \ {0}
  /\ MaxSize(2) = PageMax * MaxCount * MaxCount /\ MaxSize(2) \in Nat \ {0}
<1>1. PageMax \in Nat \ {0} /\ MaxCount \in Nat \ {0}
  BY NodesAssumption
<1>2. PageMax * MaxCount \in Nat \ {0}
  BY <1>1, Product
<1>3. (PageMax * MaxCount) * MaxCount \in Nat \ {0}
  BY <1>1, <1>2, Product
<1> QED
  BY <1>1, <1>2, <1>3 DEF MaxSize

LEMMA NodeSizes ==
  ASSUME NEW n \in Nodes
  PROVE  /\ Level[n] \in 0..2 /\ Size[n] \in Nat /\ Size[n] <= MaxSize(Level[n])
         /\ Size[n] < UintMax /\ UintMax \in Nat
         /\ Root(n) \in AnyBlock /\ Root(n).node = n /\ Root(n).first = 0
         /\ Root(n).level = Level[n]
         /\ TotalSize(Root(n)) = Size[n]
<1>1. Level[n] \in 0..2 /\ Size[n] \in 0..MaxSize(Level[n]) /\ Size[n] < UintMax /\ UintMax \in Nat
  BY NodesAssumption, ProgramAssumption
<1>2. MaxSize(Level[n]) \in Nat
  BY <1>1, MaxSizes
<1>3. Size[n] \in Nat /\ Size[n] <= MaxSize(Level[n])
  BY <1>1, <1>2
<1>4. Root(n) \in AnyBlock /\ Root(n).node = n /\ Root(n).first = 0 /\ Root(n).level = Level[n]
  BY <1>1 DEF Root, AnyBlock
<1>5. TotalSize(Root(n)) = Size[n]
  BY <1>2, <1>3, <1>4 DEF TotalSize, Smaller
<1> QED
  BY <1>1, <1>3, <1>4, <1>5

LEMMA BlockSize ==
  ASSUME NEW b \in AnyBlock, b.first <= Size[b.node]
  PROVE  /\ TotalSize(b) \in Nat /\ b.first + TotalSize(b) <= Size[b.node]
         /\ Size[b.node] \in Nat /\ Size[b.node] < UintMax /\ UintMax \in Nat
<1>1. b.node \in Nodes /\ b.level \in 0..2 /\ b.first \in Nat
  BY DEF AnyBlock
<1>2. MaxSize(b.level) \in Nat /\ Size[b.node] \in Nat /\ Size[b.node] < UintMax /\ UintMax \in Nat
  BY <1>1, MaxSizes, NodeSizes
<1> QED
  BY <1>1, <1>2 DEF TotalSize, Smaller

LEMMA ChildCounts ==
  ASSUME NEW b \in AnyBlock, b.level > 0, b.first <= Size[b.node], NEW o \in Nat
  PROVE  /\ ChildMaxSize(b) \in Nat \ {0}
         /\ NumChildren(b) \in Nat
         /\ o \div ChildMaxSize(b) \in Nat
<1>1. b.level \in 1..2
  BY DEF AnyBlock
<1>2. ChildMaxSize(b) \in Nat \ {0}
  BY <1>1, MaxSizes DEF ChildMaxSize
<1>3. TotalSize(b) \in Nat
  BY BlockSize
<1>4. TotalSize(b) + ChildMaxSize(b) - 1 \in Nat
  BY <1>2, <1>3
<1> HIDE DEF ChildMaxSize
<1>5. (TotalSize(b) + ChildMaxSize(b) - 1) \div ChildMaxSize(b) \in Nat
  BY <1>2, <1>4, Quotient
<1>6. o \div ChildMaxSize(b) \in Nat
  BY <1>2, Quotient
<1> QED
  BY <1>2, <1>5, <1>6 DEF NumChildren, RoundedUp

LEMMA ChildPages ==
  ASSUME NEW b, b.level \in 1..2
  PROVE  ChildMaxPages(b) \in Nat \ {0} /\ ChildMaxSize(b) = ChildMaxPages(b) * PageMax
<1>1. CASE b.level = 1
  BY <1>1, MaxSizes DEF ChildMaxPages, ChildMaxSize
<1>2. CASE b.level = 2
  <2>1. PageMax * MaxCount = MaxCount * PageMax
    BY MaxSizes
  <2> QED
    BY <1>2, <2>1, MaxSizes DEF ChildMaxPages, ChildMaxSize
<1> QED
  BY <1>1, <1>2

\* A child holds the part of its block that its number says.
LEMMA ChildSize ==
  ASSUME NEW b \in AnyBlock, b.level > 0, b.first <= Size[b.node],
         NEW i \in Nat, i < NumChildren(b)
  PROVE  LET c == ChildOf(b, i)
         IN /\ c \in AnyBlock /\ c.node = b.node /\ c.level = b.level - 1
            /\ c.first = b.first + i * ChildMaxSize(b)
            /\ c.first < Size[b.node]
            /\ ChildMaxSize(b) \in Nat \ {0}
            /\ i * ChildMaxSize(b) \in Nat
            /\ TotalSize(c) = Smaller(ChildMaxSize(b), Size[b.node] - c.first)
<1> DEFINE m == ChildMaxSize(b)
           c == ChildOf(b, i)
           t == TotalSize(b)
<1>1. b.node \in Nodes /\ b.level \in 1..2 /\ b.first \in Nat
  BY DEF AnyBlock
<1>2. m \in Nat \ {0} /\ m = MaxSize(b.level - 1)
  BY <1>1, MaxSizes DEF ChildMaxSize
<1>3. t \in Nat /\ b.first + t <= Size[b.node] /\ Size[b.node] \in Nat
  BY BlockSize
<1>4. i < (t + m - 1) \div m
  BY DEF NumChildren, RoundedUp
<1>5. c.node = b.node /\ c.level = b.level - 1 /\ c.first = b.first + i * m
      /\ c = [node |-> b.node, level |-> b.level - 1, first |-> b.first + i * m]
  BY DEF ChildOf
<1> HIDE DEF m, c, t
<1>6. i * m < t
  BY <1>2, <1>3, <1>4, BelowQuotient
<1>7. i * m \in Nat
  BY <1>2
<1> DEFINE im == i * m
<1>8. im < t /\ im \in Nat /\ c.first = b.first + im
      /\ c = [node |-> b.node, level |-> b.level - 1, first |-> b.first + im]
  BY <1>5, <1>6, <1>7
<1> HIDE DEF im
<1>9. c \in AnyBlock /\ c.first < Size[b.node]
  BY <1>1, <1>3, <1>8 DEF AnyBlock
<1>10. TotalSize(c) = Smaller(m, Size[b.node] - c.first)
  BY <1>2, <1>5 DEF TotalSize
<1> QED
  BY <1>2, <1>5, <1>7, <1>9, <1>10 DEF m, c

\* The page of a block of the lowest level.
LEMMA PageIsArray ==
  ASSUME NEW n \in Nodes, NEW p \in Nat, NEW b \in AnyBlock,
         b.node = n, b.level = 0, b.first = p * PageMax,
         b = Root(n) \/ b.first < Size[n]
  PROVE  /\ <<n, p>> \in Pages
         /\ PageSize(n, p) = TotalSize(b) /\ b.first <= Size[n]
<1>1. PageMax \in Nat \ {0} /\ Size[n] \in Nat /\ b.first \in Nat
  BY MaxSizes, NodeSizes DEF AnyBlock
<1>2. PageSize(n, p) = TotalSize(b)
  BY MaxSizes DEF PageSize, TotalSize
<1>3. CASE b = Root(n)
  <2>1. Level[n] = 0 /\ b.first = 0
    BY <1>3, NodeSizes
  <2>2. p = 0
    BY <1>1, <2>1, NoFactor
  <2>3. p \in 0..(PageCount(n) - 1)
    BY <2>1, <2>2 DEF PageCount
  <2> QED
    BY <1>1, <1>2, <2>1, <2>3 DEF Pages
<1>4. CASE b.first < Size[n]
  <2> DEFINE q == Size[n] \div PageMax
             r == Size[n] % PageMax
  <2>1. q \in Nat /\ r \in Nat /\ r < PageMax /\ Size[n] = q * PageMax + r
    BY <1>1, Quotient
  <2>2. PageCount(n) = IF Level[n] = 0 THEN 1 ELSE q + (IF r # 0 THEN 1 ELSE 0)
    BY DEF PageCount
  <2> HIDE DEF q, r
  <2>3. p < q + (IF r # 0 THEN 1 ELSE 0)
    <3>1. CASE p >= q + 1
      <4>1. p * PageMax >= (q + 1) * PageMax
        BY <1>1, <2>1, <3>1
      <4> QED
        BY <1>1, <1>4, <2>1, <4>1
    <3>2. CASE p = q /\ r = 0
      BY <1>1, <1>4, <2>1, <3>2
    <3> QED
      BY <2>1, <3>1, <3>2
  <2>4. CASE Level[n] # 0
    <3>1. p \in 0..(PageCount(n) - 1)
      BY <2>1, <2>2, <2>3, <2>4
    <3> QED
      BY <1>1, <1>2, <1>4, <3>1 DEF Pages
  <2>5. CASE Level[n] = 0
    <3>1. Size[n] <= PageMax
      BY <2>5, NodeSizes, MaxSizes
    <3>2. p = 0
      <4>1. CASE p >= 1
        <5>1. p * PageMax >= 1 * PageMax
          BY <1>1, <4>1
        <5> QED
          BY <1>1, <1>4, <3>1, <5>1
      <4> QED
        BY <4>1
    <3>3. p \in 0..(PageCount(n) - 1)
      BY <2>2, <2>5, <3>2
    <3> QED
      BY <1>1, <1>2, <1>4, <3>3 DEF Pages
  <2> QED
    BY <2>4, <2>5
<1> QED
  BY <1>3, <1>4

\* A page that there is begins before the end of the data, if there are any.
LEMMA PageBegins ==
  ASSUME NEW n \in Nodes, NEW p \in Nat, <<n, p>> \in Pages, Size[n] > 0
  PROVE  p * PageMax < Size[n]
<1>1. PageMax \in Nat \ {0} /\ Size[n] \in Nat
  BY MaxSizes, NodeSizes
<1>2. p \in 0..(PageCount(n) - 1)
  BY DEF Pages
<1>3. CASE Level[n] = 0
  BY <1>1, <1>2, <1>3 DEF PageCount
<1>4. CASE Level[n] # 0
  <2> DEFINE q == Size[n] \div PageMax
             r == Size[n] % PageMax
  <2>1. q \in Nat /\ r \in Nat /\ r < PageMax /\ Size[n] = q * PageMax + r
    BY <1>1, Quotient
  <2>2. PageCount(n) = q + (IF r # 0 THEN 1 ELSE 0)
    BY <1>4 DEF PageCount
  <2> HIDE DEF q, r
  <2>3. CASE p + 1 <= q
    <3>1. (p + 1) * PageMax <= q * PageMax
      BY <1>1, <2>1, <2>3
    <3> QED
      BY <1>1, <2>1, <3>1
  <2>4. CASE p = q /\ r # 0
    BY <1>1, <2>1, <2>4
  <2> QED
    BY <1>2, <2>1, <2>2, <2>3, <2>4
<1> QED
  BY <1>3, <1>4

\* From block to block get_page does not miss a page that there is.
LEMMA PageIsAhead ==
  ASSUME NEW n \in Nodes, NEW p \in Nat, <<n, p>> \in Pages,
         NEW b \in AnyBlock, b.node = n, b.first <= Size[n], NEW o \in Nat,
         b.first + o * PageMax = p * PageMax,
         b = Root(n) \/ (b.first < Size[n] /\ o * PageMax < MaxSize(b.level))
  PROVE  IF b.level = 0 THEN o = 0 ELSE o \div ChildMaxPages(b) < NumChildren(b)
<1>1. /\ PageMax \in Nat \ {0} /\ Size[n] \in Nat /\ b.first \in Nat
      /\ b.level \in 0..2 /\ o * PageMax \in Nat /\ p * PageMax \in Nat
  BY MaxSizes, NodeSizes DEF AnyBlock
<1>2. b = Root(n) => b.first = 0 /\ b.level = Level[n] /\ Size[n] <= MaxSize(b.level)
  BY NodeSizes DEF Root
<1>3. CASE b.level = 0
  <2>1. CASE b = Root(n)
    <3>1. p = 0
      BY <1>2, <1>3, <2>1 DEF Pages, PageCount
    <3>2. p * PageMax = 0
      BY <1>1, <3>1
    <3>3. 0 + o * PageMax = p * PageMax
      BY <1>2, <2>1
    <3>4. o * PageMax = 0
      BY <1>1, <3>2, <3>3
    <3> QED
      BY <1>1, <1>3, <3>4, NoFactor
  <2>2. CASE o * PageMax < MaxSize(b.level)
    <3>1. o * PageMax < PageMax
      BY <1>3, <2>2, MaxSizes
    <3>2. CASE o >= 1
      <4>1. o * PageMax >= 1 * PageMax
        BY <1>1, <3>2
      <4> QED
        BY <1>1, <3>1, <4>1
    <3> QED
      BY <1>3, <3>2
  <2> QED
    BY <2>1, <2>2
<1>4. CASE b.level # 0
  <2> DEFINE k == ChildMaxPages(b)
             m == ChildMaxSize(b)
             i == o \div k
             t == TotalSize(b)
  <2>1. b.level \in 1..2
    BY <1>1, <1>4
  <2>2. k \in Nat \ {0} /\ m = k * PageMax
    BY <2>1, ChildPages
  <2>3. m \in Nat \ {0} /\ t \in Nat
    BY <2>1, ChildCounts, BlockSize
  <2>4. o * PageMax < t
    <3>1. Size[n] > 0
      BY <1>1, <1>2, <1>4, NodesAssumption
    <3>2. p * PageMax < Size[n]
      BY <3>1, PageBegins
    <3>3. o * PageMax < MaxSize(b.level)
      BY <1>1, <1>2, <3>2, MaxSizes
    <3> QED
      BY <1>1, <3>2, <3>3, MaxSizes DEF TotalSize, Smaller
  <2>5. i \in Nat /\ NumChildren(b) = (t + m - 1) \div m /\ o % k \in Nat /\ o = (i * k) + (o % k)
    BY <2>2, Quotient DEF NumChildren, RoundedUp
  <2> DEFINE r == o % k
  <2>6. r \in Nat /\ o = i * k + r
    BY <2>5
  <2> HIDE DEF k, m, i, t, r
  <2>7. i * m < t
    <3>1. (0 + i * (k * PageMax)) + r * PageMax = 0 + (i * k + r) * PageMax
      BY <1>1, <2>2, <2>5, <2>6, Distributed
    <3>2. i * m \in Nat /\ r * PageMax \in Nat
      BY <1>1, <2>3, <2>5, <2>6
    <3> QED
      BY <1>1, <2>2, <2>3, <2>4, <2>6, <3>1, <3>2
  <2>8. i < NumChildren(b)
    BY <2>3, <2>5, <2>7, AboveQuotient
  <2> QED
    BY <1>4, <2>8 DEF i, k
<1> QED
  BY <1>3, <1>4

-----------------------------------------------------------------------------
(***************************************************************************)
(* What a step is in ByteStore.                                            *)
(***************************************************************************)

\* The streams as ByteStore sees them.
Seen ==
  [s \in Streams |->
    IF stream[s] = None THEN None
    ELSE [array |-> stream[s].node,
          pos |-> IF stream[s].pos > Size[stream[s].node] THEN Lost ELSE stream[s].pos]]

Implements == Inv' /\ (Store!Next \/ UNCHANGED <<Seen, reply>>)

\* Nothing is in progress after the step.
LEMMA IdleInv ==
  ASSUME stream' \in [Streams -> [node : Nodes, pos : Nat] \cup {None}],
         call' = None, stack' = <<>>, dest' = <<>>
  PROVE  Inv'
<1>1. CallInv'
  BY DEF CallInv
<1>2. StackInv'
  BY DEF StackInv
<1> QED
  BY <1>1, <1>2 DEF Inv

LEMMA Moved ==
  ASSUME NEW s \in Streams, stream \in [Streams -> [node : Nodes, pos : Nat] \cup {None}],
         NEW n \in Nodes, NEW pos \in Nat, NEW k \in Nat, stream[s] = [node |-> n, pos |-> pos]
  PROVE  [stream EXCEPT ![s].pos = @ + k] \in [Streams -> [node : Nodes, pos : Nat] \cup {None}]
<1>1. [stream[s] EXCEPT !.pos = @ + k] = [node |-> n, pos |-> pos + k]
  OBVIOUS
<1>2. [stream EXCEPT ![s].pos = @ + k] = [stream EXCEPT ![s] = [stream[s] EXCEPT !.pos = @ + k]]
  OBVIOUS
<1>3. [node |-> n, pos |-> pos + k] \in [node : Nodes, pos : Nat]
  OBVIOUS
<1> QED
  BY <1>1, <1>2, <1>3

LEMMA FinishInv ==
  ASSUME Inv, call # None, NEW kind, NEW bytes, Len(bytes) \in Nat, Finish(kind, bytes)
  PROVE  Inv'
<1>1. stream' \in [Streams -> [node : Nodes, pos : Nat] \cup {None}]
  <2>1. CASE call.op = "stream"
    <3>1. /\ call.stream \in Streams /\ call.offset \in Nat /\ call.node \in Nodes
          /\ stream[call.stream] = [node |-> call.node, pos |-> call.offset]
          /\ stream \in [Streams -> [node : Nodes, pos : Nat] \cup {None}]
      BY <2>1 DEF Inv, CallInv
    <3>2. stream' = [stream EXCEPT ![call.stream].pos = @ + Len(bytes)]
      BY <2>1 DEF Finish
    <3> QED
      BY <3>1, <3>2, Moved
  <2>2. CASE call.op # "stream"
    BY <2>2 DEF Inv, CallInv, Finish
  <2> QED
    BY <2>1, <2>2
<1> QED
  BY <1>1, IdleInv DEF Finish

\* An operation that throws has done nothing.
LEMMA Throws ==
  ASSUME Inv, call # None, NEW kind \in {"failed", "out_of_range"}, Finish(kind, <<>>)
  PROVE  Implements
<1>1. stream' = stream
  <2>1. CASE call.op = "stream"
    <3>1. /\ call.stream \in Streams /\ call.offset \in Nat /\ call.node \in Nodes
          /\ stream[call.stream] = [node |-> call.node, pos |-> call.offset]
          /\ stream \in [Streams -> [node : Nodes, pos : Nat] \cup {None}]
      BY <2>1 DEF Inv, CallInv
    <3>2. stream' = [stream EXCEPT ![call.stream].pos = @ + 0]
      <4>1. stream' = [stream EXCEPT ![call.stream].pos = @ + Len(<<>>)]
        BY <2>1 DEF Finish
      <4>2. Len(<<>>) = 0
        OBVIOUS
      <4> QED
        BY <4>1, <4>2
    <3>3. stream' = [stream EXCEPT ![call.stream] = [node |-> call.node, pos |-> call.offset + 0]]
      <4>1. [stream[call.stream] EXCEPT !.pos = @ + 0] = [node |-> call.node, pos |-> call.offset + 0]
        BY <3>1
      <4>2. stream' = [stream EXCEPT ![call.stream] = [stream[call.stream] EXCEPT !.pos = @ + 0]]
        BY <3>2
      <4> QED
        BY <4>1, <4>2
    <3>4. [node |-> call.node, pos |-> call.offset + 0] = stream[call.stream]
      BY <3>1
    <3> QED
      BY <3>1, <3>3, <3>4
  <2>2. CASE call.op # "stream"
    BY <2>2 DEF Finish
  <2> QED
    BY <2>1, <2>2
<1>2. reply = None /\ reply' = [kind |-> kind, bytes |-> <<>>]
  BY DEF Inv, CallInv, Finish
<1>3. Store!Fail \/ Store!NoArray
  BY <1>1, <1>2 DEF Store!Fail, Store!NoArray, Store!Failed, Store!OutOfRange
<1>4. Inv'
  BY FinishInv
<1> QED
  BY <1>3, <1>4 DEF Implements, Store!Next

\* The array read and the bytes of it that are wanted, in ByteStore's terms.
LEMMA ArrayIs ==
  ASSUME Inv, call # None, PageCall => Array \in Pages
  PROVE  LET first == [x \in Nodes \cup Pages |-> IF x \in Nodes THEN 0 ELSE x[2] * PageMax]
             size == [x \in Nodes \cup Pages |-> IF x \in Nodes THEN Size[x] ELSE PageSize(x[1], x[2])]
         IN /\ size[Array] = ArraySize /\ first[Array] + call.offset = Origin
            /\ Store!BytesAt(Array, call.offset, call.count) = Part(Wanted)
            /\ Origin \in Nat /\ ArraySize \in Int
<1> DEFINE first == [x \in Nodes \cup Pages |-> IF x \in Nodes THEN 0 ELSE x[2] * PageMax]
           size == [x \in Nodes \cup Pages |-> IF x \in Nodes THEN Size[x] ELSE PageSize(x[1], x[2])]
<1>1. call.node \in Nodes /\ call.offset \in Nat /\ (PageCall => call.page \in Nat)
  BY DEF Inv, CallInv
<1>2. PageMax \in Nat \ {0} /\ Size[call.node] \in Nat
  BY <1>1, MaxSizes, NodeSizes
<1>3. size[Array] = ArraySize /\ ArraySize \in Int
  <2>1. CASE PageCall
    <3>1. Array = <<call.node, call.page>> /\ Array \in Pages /\ Array \notin Nodes
      BY <2>1, PagesAssumption DEF Array
    <3>2. size[Array] = PageSize(call.node, call.page)
      BY <3>1
    <3>3. call.page * PageMax \in Nat
      BY <1>1, <1>2, <2>1
    <3> QED
      BY <1>1, <1>2, <2>1, <3>2, <3>3 DEF ArraySize, PageSize, Smaller
  <2>2. CASE ~PageCall
    BY <1>1, <1>2, <2>2 DEF Array, ArraySize
  <2> QED
    BY <2>1, <2>2
<1>4. first[Array] + call.offset = Origin /\ Origin \in Nat /\ first[Array] \in Nat
  <2>1. CASE PageCall
    <3>1. Array = <<call.node, call.page>> /\ Array \in Pages /\ Array \notin Nodes
      BY <2>1, PagesAssumption DEF Array
    <3>2. first[Array] = call.page * PageMax
      BY <3>1
    <3>3. call.page * PageMax \in Nat
      BY <1>1, <1>2, <2>1
    <3>4. Origin = call.offset + call.page * PageMax
      BY <2>1 DEF Origin, PageCall
    <3> QED
      BY <1>1, <3>2, <3>3, <3>4
  <2>2. CASE ~PageCall
    <3>1. Origin = call.offset + 0
      BY <2>2 DEF Origin, PageCall
    <3> QED
      BY <1>1, <2>2, <3>1 DEF Array
  <2> QED
    BY <2>1, <2>2
<1>5. Store!BytesAt(Array, call.offset, call.count)
        = [i \in 1..Store!Smaller(call.count, size[Array] - call.offset) |->
             first[Array] + call.offset + i - 1]
  BY DEF Store!BytesAt
<1>6. Store!Smaller(call.count, size[Array] - call.offset) = Wanted
  BY <1>3 DEF Store!Smaller, Smaller, Wanted
<1> HIDE DEF first, size
<1>7. Store!BytesAt(Array, call.offset, call.count) = Part(Wanted)
  BY <1>4, <1>5, <1>6 DEF Part
<1> QED
  BY <1>3, <1>4, <1>7 DEF first, size

\* An operation that returns what it was asked for.
LEMMA Returns ==
  ASSUME Inv, call # None, PageCall => Array \in Pages,
         Finish("value", Part(Wanted)),
         call.op \in {"buffer", "page_buffer"} => call.count = 0 \/ call.offset < ArraySize,
         call.op \in {"value", "page_value"} => call.offset + call.count <= ArraySize
  PROVE  Implements
<1>1. /\ reply = None /\ call.node \in Nodes /\ call.count \in Counts /\ call.count \in Nat
      /\ call.offset \in Nat /\ reply' = Store!Value(Part(Wanted))
      /\ call.op \in {"stream", "buffer", "value", "page_buffer", "page_value"}
  BY ProgramAssumption DEF Inv, CallInv, Finish, Store!Value
<1> DEFINE size == [x \in Nodes \cup Pages |-> IF x \in Nodes THEN Size[x] ELSE PageSize(x[1], x[2])]
<1>2. /\ size[Array] = ArraySize /\ Array \in Nodes \cup Pages
      /\ Store!BytesAt(Array, call.offset, call.count) = Part(Wanted)
      /\ Origin \in Nat /\ ArraySize \in Int
  BY <1>1, ArrayIs DEF Array
<1>3. Len(Part(Wanted)) \in Nat /\ (Wanted \in Nat => Len(Part(Wanted)) = Wanted)
  <2>1. Wanted \in Int
    BY <1>1, <1>2 DEF Wanted, Smaller
  <2>2. CASE Wanted \in Nat
    BY <1>2, <2>2, PartIsSeq DEF Part
  <2>3. CASE Wanted \notin Nat
    <3>1. Part(Wanted) = <<>>
      BY <1>2, <2>1, <2>3, NoPart DEF Part
    <3> QED
      BY <2>3, <3>1
  <2> QED
    BY <2>2, <2>3
<1>4. Inv'
  BY <1>3, FinishInv
<1>5. CASE call.op = "stream"
  <2>1. /\ call.stream \in Streams /\ call.offset <= Size[call.node]
        /\ stream[call.stream] = [node |-> call.node, pos |-> call.offset]
        /\ stream \in [Streams -> [node : Nodes, pos : Nat] \cup {None}]
        /\ Size[call.node] \in Nat /\ Array = call.node /\ ArraySize = Size[call.node]
    BY <1>1, <1>5, NodeSizes DEF Inv, CallInv, Array, ArraySize, PageCall
  <2>2. Wanted \in Nat /\ call.offset + Wanted <= Size[call.node]
    BY <1>1, <2>1 DEF Wanted, Smaller
  <2>3. Seen[call.stream] = [array |-> call.node, pos |-> call.offset] /\ Seen[call.stream] # None
        /\ call.offset # Lost
    <3>1. [node |-> call.node, pos |-> call.offset] # None
      <4>1. [node |-> call.node, pos |-> call.offset] \in [node : Nodes, pos : Nat]
        BY <1>1
      <4> QED
        BY <4>1, ProgramAssumption
    <3>2. [array |-> call.node, pos |-> call.offset] # None
      <4>1. [array |-> call.node, pos |-> call.offset] \in [array : Nodes, pos : Nat \cup {Lost}]
        BY <1>1
      <4> QED
        BY <4>1, ProgramAssumption
    <3>3. ~(call.offset > Size[call.node])
      BY <1>1, <2>1
    <3> QED
      BY <1>1, <2>1, <3>1, <3>2, <3>3, ProgramAssumption DEF Seen
  <2>4. stream' = [stream EXCEPT ![call.stream] = [node |-> call.node, pos |-> call.offset + Wanted]]
    <3>1. stream' = [stream EXCEPT ![call.stream].pos = @ + Wanted]
      <4>1. stream' = [stream EXCEPT ![call.stream].pos = @ + Len(Part(Wanted))]
        BY <1>5 DEF Finish
      <4> QED
        BY <1>3, <2>2, <4>1
    <3>2. [stream[call.stream] EXCEPT !.pos = @ + Wanted]
            = [node |-> call.node, pos |-> call.offset + Wanted]
      BY <2>1
    <3>3. stream' = [stream EXCEPT ![call.stream] = [stream[call.stream] EXCEPT !.pos = @ + Wanted]]
      BY <3>1
    <3> QED
      BY <3>2, <3>3
  <2>5. Seen' = [Seen EXCEPT ![call.stream] = [array |-> call.node, pos |-> call.offset + Wanted]]
    <3>1. [node |-> call.node, pos |-> call.offset + Wanted] # None
      <4>1. [node |-> call.node, pos |-> call.offset + Wanted] \in [node : Nodes, pos : Nat]
        BY <1>1, <2>2
      <4> QED
        BY <4>1, ProgramAssumption
    <3>2. ~(call.offset + Wanted > Size[call.node])
      BY <1>1, <2>1, <2>2
    <3> QED
      BY <2>1, <2>4, <3>1, <3>2 DEF Seen
  <2>6. Seen' = [Seen EXCEPT ![call.stream].pos = @ + Len(Part(Wanted))]
    <3>1. [array |-> call.node, pos |-> call.offset + Wanted]
            = [Seen[call.stream] EXCEPT !.pos = @ + Wanted]
      BY <2>3
    <3>2. Seen' = [Seen EXCEPT ![call.stream] = [Seen[call.stream] EXCEPT !.pos = @ + Wanted]]
      BY <2>5, <3>1
    <3>3. Wanted = Len(Part(Wanted))
      BY <1>3, <2>2
    <3> QED
      BY <3>2, <3>3
  <2>7. Store!Read(call.stream, call.count)
    BY <1>1, <1>2, <2>1, <2>3, <2>6 DEF Store!Read, Seen
  <2>8. \E count \in Counts : Store!Read(call.stream, count)
    BY <1>1, <2>7 DEF Store!Read
  <2>9. Store!Next
    BY <2>1, <2>8 DEF Store!Next
  <2> QED
    BY <1>4, <2>9 DEF Implements
<1>6. CASE call.op \in {"buffer", "page_buffer", "value", "page_value"}
  <2>1. stream' = stream /\ call.offset \in Offsets
    BY <1>1, <1>6 DEF Inv, CallInv, Finish
  <2>2. CASE call.op \in {"buffer", "page_buffer"}
    <3>1. ~(call.count > 0 /\ call.offset >= size[Array])
      BY <1>1, <1>2, <2>2
    <3>2. Store!ReadAt(Array, call.offset, call.count)
      BY <1>1, <1>2, <2>1, <3>1 DEF Store!ReadAt
    <3> QED
      BY <1>1, <1>2, <1>4, <2>1, <3>2 DEF Implements, Store!Next
  <2>3. CASE call.op \in {"value", "page_value"}
    <3>1. ~(call.offset + call.count > size[Array])
      BY <1>1, <1>2, <2>3
    <3>2. Store!ReadValue(Array, call.offset, call.count)
      BY <1>1, <1>2, <2>1, <3>1 DEF Store!ReadValue
    <3> QED
      BY <1>1, <1>2, <1>4, <2>1, <3>2 DEF Implements, Store!Next
  <2> QED
    BY <1>6, <2>2, <2>3
<1> QED
  BY <1>1, <1>5, <1>6

-----------------------------------------------------------------------------
(***************************************************************************)
(* The frames.                                                             *)
(***************************************************************************)

\* The first call of read_raw, in a block that holds the array.
LEMMA FirstRaw ==
  ASSUME Inv, call # None, dest = <<>>, PageCall => Array \in Pages,
         NEW b \in AnyBlock, b.node = call.node, b.first <= Size[b.node],
         b.first + call.offset = Origin, TotalSize(b) = ArraySize, call.offset <= ArraySize,
         call.op \in {"buffer", "page_buffer"} => call.offset < ArraySize,
         call.op \in {"value", "page_value"} => call.offset + call.count <= ArraySize,
         Push(<<>>, Raw(b, call.count, call.offset))
  PROVE  Implements
<1> DEFINE f == Raw(b, call.count, call.offset)
<1>1. /\ call.count \in Nat /\ call.offset \in Nat /\ TotalSize(b) \in Nat /\ ArraySize \in Nat
      /\ b.first \in Nat
  BY BlockSize, ProgramAssumption DEF Inv, CallInv, AnyBlock
<1>2. /\ f.task = "raw" /\ f.block = b /\ f.offset = call.offset /\ f.read = 0
      /\ f.size = Wanted /\ Wanted \in Nat /\ call.offset + Wanted <= ArraySize
      /\ Wanted <= call.count
      /\ f = [task |-> "raw", block |-> b, offset |-> call.offset, read |-> 0, size |-> Wanted]
  BY <1>1 DEF Raw, Minus, Wanted, Smaller
<1> HIDE DEF f
<1>3. f \in AnyFrame
  BY <1>1, <1>2 DEF AnyFrame
<1>4. /\ stack' = <<f>> /\ UNCHANGED <<stream, call, dest, reply>>
  <2>1. stack' = Append(<<>>, f) /\ UNCHANGED <<stream, call, dest, reply>>
    BY DEF Push, f
  <2> QED
    BY <2>1
<1>5. stack' \in Seq(AnyFrame) /\ Len(stack') = 1 /\ stack'[1] = f
  BY <1>3, <1>4
<1>6. CallInv'
  BY <1>4, <1>5 DEF Inv, CallInv, PageCall, Part, Origin
<1>7. FrameInv(1)'
  BY <1>1, <1>2, <1>4, <1>5 DEF FrameInv, RawFrame, FirstFrame, Place, Origin, Wanted, ArraySize, Array, PageCall
<1>8. Inv'
  BY <1>5, <1>6, <1>7 DEF Inv, StackInv
<1> QED
  BY <1>4, <1>8 DEF Implements, Seen

\* data_block::read, of a block that holds the array.
LEMMA CheckedRead ==
  ASSUME Inv, call # None, dest = <<>>, PageCall => Array \in Pages,
         call.op # "stream",
         NEW b \in AnyBlock, b.node = call.node, b.first <= Size[b.node],
         b.first + call.offset = Origin, TotalSize(b) = ArraySize,
         NEW whole \in BOOLEAN, whole = (call.op \in {"value", "page_value"}),
         Checked(b, whole)
  PROVE  Implements
<1>1. /\ call.count \in Nat /\ call.offset \in Nat /\ TotalSize(b) \in Nat
      /\ call.op \in {"buffer", "value", "page_buffer", "page_value"}
  BY BlockSize, ProgramAssumption DEF Inv, CallInv
<1>2. Origin \in Nat
  BY ArrayIs
<1>3. CASE ~whole /\ call.count = 0
  <2>1. Finish("value", <<>>)
    BY <1>3 DEF Checked
  <2>2. Wanted \in Int /\ Wanted <= 0
    BY <1>1, <1>3 DEF Wanted, Smaller
  <2>3. Part(Wanted) = <<>>
    BY <1>2, <2>2, NoPart DEF Part
  <2>4. Finish("value", Part(Wanted))
    BY <2>1, <2>3
  <2> QED
    BY <1>1, <1>3, <2>4, Returns
<1>4. CASE /\ ~(~whole /\ call.count = 0)
           /\ call.offset >= TotalSize(b) \/ (whole /\ call.count + call.offset > TotalSize(b))
  <2>1. Finish("out_of_range", <<>>)
    BY <1>4 DEF Checked
  <2> QED
    BY <2>1, Throws
<1>5. CASE /\ ~(~whole /\ call.count = 0)
           /\ ~(call.offset >= TotalSize(b) \/ (whole /\ call.count + call.offset > TotalSize(b)))
  <2>1. Push(<<>>, Raw(b, call.count, call.offset))
    BY <1>5 DEF Checked
  <2>2. /\ call.offset <= ArraySize /\ call.offset < ArraySize
        /\ call.op \in {"value", "page_value"} => call.offset + call.count <= ArraySize
    <3>1. call.op \in {"value", "page_value"} => whole
      OBVIOUS
    <3>2. call.offset < TotalSize(b) /\ (whole => call.offset + call.count <= TotalSize(b))
      BY <1>1, <1>5
    <3> QED
      BY <1>1, <3>1, <3>2
  <2> QED
    BY <2>1, <2>2, FirstRaw
<1> QED
  BY <1>3, <1>4, <1>5

\* What the frame at the top knows.
LEMMA TopFrame ==
  ASSUME Inv, stack # <<>>
  PROVE  /\ call # None /\ Len(stack) \in Nat \ {0} /\ Top = stack[Len(stack)]
         /\ Top \in AnyFrame /\ FrameInv(Len(stack))
         /\ Top.block \in AnyBlock /\ Top.block.node = call.node
         /\ Top.block.first <= Size[Top.block.node]
         /\ TotalSize(Top.block) \in Nat
         /\ Top.block.first + TotalSize(Top.block) <= Size[call.node]
         /\ Top.block.first \in Nat /\ Top.offset \in Nat /\ Top.size \in Nat /\ Top.read \in Nat
<1>1. call # None
  BY DEF Inv, CallInv
<1>2. stack \in Seq(AnyFrame) /\ Len(stack) \in Nat \ {0}
  BY DEF Inv, StackInv
<1>3. Len(stack) \in 1..Len(stack)
  BY <1>2
<1>4. Top \in AnyFrame /\ FrameInv(Len(stack)) /\ Top = stack[Len(stack)]
  BY <1>2, <1>3 DEF Inv, StackInv, Top
<1>5. Top.block \in AnyBlock /\ Top.offset \in Nat /\ Top.size \in Nat /\ Top.read \in Nat
  BY <1>4 DEF AnyFrame
<1>6. Top.block.node = call.node /\ Top.block.first <= Size[Top.block.node]
  BY <1>4 DEF FrameInv
<1>7. Top.block.first \in Nat
  BY <1>5 DEF AnyBlock
<1> QED
  BY <1>1, <1>2, <1>4, <1>5, <1>6, <1>7, BlockSize

\* Above another frame there are frames of read_raw only, and the array exists.
LEMMA FirstIsRaw ==
  ASSUME Inv, stack # <<>>, Top.task = "raw"
  PROVE  PageCall => Array \in Pages
<1>1. Len(stack) \in Nat \ {0} /\ Top = stack[Len(stack)]
  BY TopFrame
<1>2. stack[1] \in AnyFrame /\ FrameInv(1) /\ (stack[1].task = "page" => Len(stack) = 1)
  <2>1. stack \in Seq(AnyFrame) /\ 1 \in 1..Len(stack) /\ FrameInv(1)
    BY <1>1 DEF Inv, StackInv
  <2> QED
    BY <2>1 DEF FrameInv, PageFrame
<1>3. stack[1].task = "raw"
  BY <1>1, <1>2 DEF AnyFrame
<1> QED
  BY <1>2, <1>3 DEF FrameInv, FirstFrame

LEMMA ResumedNumbers ==
  ASSUME NEW f \in AnyFrame, NEW caller \in AnyFrame, caller.block.first \in Nat,
         NEW k, k = f.read + f.size, f.read + f.size <= caller.size,
         NEW g, g.block = caller.block, g.offset = caller.offset + k,
         g.size = caller.size - k, g.read = caller.read + k,
         Place(f) = Place(caller) + f.read
  PROVE  /\ k \in Nat /\ g.size \in Nat
         /\ Place(caller) \in Nat /\ Place(g) = Place(caller) + k
         /\ Place(g) = Place(f) + f.size
         /\ g.offset + g.size = caller.offset + caller.size
         /\ g.read + g.size = caller.read + caller.size
         /\ Place(g) + g.size = Place(caller) + caller.size
<1>1. /\ f.read \in Nat /\ f.size \in Nat
      /\ caller.offset \in Nat /\ caller.size \in Nat /\ caller.read \in Nat
  BY DEF AnyFrame
<1>2. /\ Place(caller) = caller.block.first + caller.offset
      /\ Place(g) = caller.block.first + (caller.offset + k)
  BY DEF Place
<1>3. k \in Nat /\ k <= caller.size
  BY <1>1
<1>4. g.size \in Nat
  BY <1>1, <1>3
<1>5. Place(caller) \in Nat /\ Place(g) = Place(caller) + k
  BY <1>1, <1>2, <1>3
<1>6. Place(g) = Place(f) + f.size
  BY <1>1, <1>5
<1>7. /\ g.offset + g.size = caller.offset + caller.size
      /\ g.read + g.size = caller.read + caller.size
  BY <1>1, <1>3
<1>8. Place(g) + g.size = Place(caller) + caller.size
  BY <1>1, <1>3, <1>5
<1> QED
  BY <1>3, <1>4, <1>5, <1>6, <1>7, <1>8

\* Frame f, at the top, returns: its caller moves on by the k bytes read, to g.
Resuming(n, f, caller, k, g) ==
  /\ n = Len(stack) /\ n \in Nat /\ n > 1
  /\ f = stack[n] /\ f.task = "raw" /\ caller = stack[n - 1] /\ k = f.read + f.size
  /\ g \in AnyFrame /\ g.task = caller.task /\ g.block = caller.block
  /\ g.offset = caller.offset + k /\ g.size = caller.size - k /\ g.read = caller.read + k
  /\ call' = call /\ Len(stack') = n - 1 /\ stack'[n - 1] = g
  /\ \A d \in 1..(n - 2) : stack'[d] = stack[d]
  /\ Len(dest') = Len(dest) + f.size

LEMMA Resumed ==
  ASSUME Inv, NEW n, NEW f, NEW caller, NEW k, NEW g, Resuming(n, f, caller, k, g)
  PROVE  \A d \in 1..(n - 1) : FrameInv(d)'
<1>0. /\ n = Len(stack) /\ n \in Nat /\ n > 1
      /\ f = stack[n] /\ f.task = "raw" /\ caller = stack[n - 1] /\ k = f.read + f.size
      /\ g \in AnyFrame /\ g.task = caller.task /\ g.block = caller.block
      /\ g.offset = caller.offset + k /\ g.size = caller.size - k /\ g.read = caller.read + k
      /\ call' = call /\ Len(stack') = n - 1 /\ stack'[n - 1] = g
      /\ \A d \in 1..(n - 2) : stack'[d] = stack[d]
      /\ Len(dest') = Len(dest) + f.size
  BY DEF Resuming
<1>1. /\ f \in AnyFrame /\ caller \in AnyFrame /\ FrameInv(n) /\ FrameInv(n - 1)
      /\ n - 1 \in 1..n /\ n - 1 \in Nat
  BY <1>0 DEF Inv, StackInv
<1>2. call # None
  BY <1>0, <1>1 DEF Inv, CallInv
<1>3. /\ RawFrame(f) /\ NextFrame(f, caller) /\ Place(f) = Origin + Len(dest)
  BY <1>0, <1>1 DEF FrameInv
<1>4. /\ caller.task = "raw" /\ Place(f) = Place(caller) + f.read /\ f.read + f.size <= caller.size
  BY <1>0, <1>3 DEF NextFrame
<1>5. /\ f.read \in Nat /\ f.size \in Nat
      /\ caller.offset \in Nat /\ caller.size \in Nat /\ caller.read \in Nat
      /\ caller.block \in AnyBlock
  BY <1>0, <1>1 DEF AnyFrame
<1>6. /\ caller.block.node = call.node /\ caller.block.first <= Size[call.node]
      /\ RawFrame(caller)
      /\ n - 1 = 1 => FirstFrame(caller)
      /\ n - 1 > 1 => NextFrame(caller, stack[(n - 1) - 1])
  BY <1>0, <1>1, <1>4 DEF FrameInv
<1>7. caller.block.first \in Nat /\ TotalSize(caller.block) \in Nat
  BY <1>0, <1>5, <1>6, BlockSize DEF AnyBlock
<1>9. /\ k \in Nat /\ g.size \in Nat
      /\ Place(caller) \in Nat /\ Place(g) = Place(caller) + k
      /\ Place(g) = Place(f) + f.size
      /\ g.offset + g.size = caller.offset + caller.size
      /\ g.read + g.size = caller.read + caller.size
      /\ Place(g) + g.size = Place(caller) + caller.size
  BY <1>0, <1>1, <1>4, <1>7, ResumedNumbers
<1>10. ASSUME NEW d \in 1..(n - 2)
       PROVE  FrameInv(d)'
  <2>1. /\ d \in 1..n /\ d # n /\ d # n - 1 /\ d # Len(stack) /\ d # Len(stack') /\ d \in Nat
        /\ Len(stack) # 1
        /\ d > 1 => d - 1 \in 1..(n - 2)
    BY <1>0
  <2>2. /\ FrameInv(d) /\ stack'[d] = stack[d] /\ (d > 1 => stack'[d - 1] = stack[d - 1])
    BY <1>0, <2>1 DEF Inv, StackInv
  <2>3. stack[d].task # "page"
    BY <1>0, <2>1, <2>2 DEF FrameInv, PageFrame
  <2> QED
    BY <1>0, <2>1, <2>2, <2>3
    DEF FrameInv, RawFrame, FirstFrame, NextFrame, Place, Origin, Wanted, ArraySize, Array, PageCall
<1>11. FrameInv(n - 1)'
  <2> DEFINE o == Origin
             w == Wanted
  <2>1. /\ Origin' = o /\ Wanted' = w /\ Array' = Array /\ PageCall' = PageCall
        /\ ArraySize' = ArraySize
    BY <1>0 DEF Origin, Wanted, Array, ArraySize, PageCall
  <2>2. g.block.node = call'.node /\ g.block.first <= Size[call'.node] /\ g.task = "raw"
    BY <1>0, <1>4, <1>6
  <2>3. o \in Nat /\ Len(dest) \in Nat
    <3>1. PageCall => Array \in Pages
      <4>1. stack # <<>> /\ Top = f
        BY <1>0, <1>1 DEF Top
      <4> QED
        BY <1>0, <4>1, FirstIsRaw
    <3> QED
      BY <1>0, <1>2, <3>1, ArrayIs DEF Inv, CallInv
  <2>4. /\ g.offset + g.size <= TotalSize(g.block)
        /\ Place(g) + g.size <= o + w
    BY <1>0, <1>6, <1>9 DEF RawFrame
  <2>5. ASSUME n - 1 = 1
        PROVE  /\ PageCall => Array \in Pages
               /\ Place(g) = o + g.read
               /\ g.read + g.size = w
               /\ call.op \in {"buffer", "page_buffer"} => call.offset < ArraySize
               /\ call.op \in {"value", "page_value"} => call.offset + call.count <= ArraySize
    <3>1. FirstFrame(caller)
      BY <1>0, <1>6, <2>5
    <3>2. Place(caller) = o + caller.read /\ caller.read + caller.size = w
      BY <1>0, <3>1 DEF FirstFrame
    <3>3. Place(g) = o + g.read
      <4>1. Place(g) = (o + caller.read) + k
        BY <1>0, <1>9, <3>2
      <4> HIDE DEF o
      <4> QED
        BY <1>0, <1>5, <1>9, <2>3, <4>1
    <3> QED
      BY <1>0, <1>9, <3>1, <3>2, <3>3 DEF FirstFrame
  <2>6. ASSUME n - 1 > 1
        PROVE  LET below == stack[(n - 1) - 1]
               IN /\ below.task = "raw"
                  /\ Place(g) = Place(below) + g.read
                  /\ g.read + g.size <= below.size
    <3> DEFINE below == stack[(n - 1) - 1]
    <3>1. NextFrame(caller, below)
      BY <1>0, <1>6, <2>6
    <3>2. /\ below.task = "raw" /\ Place(caller) = Place(below) + caller.read
          /\ caller.read + caller.size <= below.size
      BY <1>0, <3>1 DEF NextFrame
    <3>3. Place(below) \in Int
      <4>1. (n - 1) - 1 \in 1..n
        BY <1>0, <2>6
      <4>2. below \in AnyFrame
        BY <1>0, <4>1 DEF Inv, StackInv
      <4>3. below.offset \in Nat /\ below.block.first \in Nat
        BY <1>0, <4>2 DEF AnyFrame, AnyBlock
      <4> QED
        BY <1>0, <4>3 DEF Place
    <3>4. Place(g) = Place(below) + g.read
      <4>1. Place(g) = (Place(below) + caller.read) + k
        BY <1>9, <3>2
      <4> HIDE DEF below
      <4> QED
        BY <1>0, <1>5, <1>9, <3>3, <4>1
    <3> QED
      BY <1>0, <1>9, <3>2, <3>4
  <2>7. Place(g) = o + Len(dest')
    <3>1. Place(g) = (o + Len(dest)) + f.size
      BY <1>0, <1>3, <1>9
    <3> HIDE DEF o
    <3> QED
      BY <1>0, <1>5, <2>3, <3>1
  <2> HIDE DEF o, w
  <2> QED
    BY <1>0, <2>1, <2>2, <2>4, <2>5, <2>6, <2>7 DEF FrameInv, Place, RawFrame, FirstFrame, NextFrame
<1> QED
  BY <1>0, <1>10, <1>11

\* A call of read_raw returns to the one that made it, or ends the operation.
LEMMA LeaveRead ==
  ASSUME Inv, stack # <<>>, Top.task = "raw", NEW bytes,
         bytes = [i \in 1..Top.size |-> Place(Top) + i - 1],
         Leave(bytes)
  PROVE  Implements
<1> DEFINE n == Len(stack)
           joined == dest \o bytes
<1>1. /\ call # None /\ n \in Nat \ {0} /\ Top = stack[n] /\ Top \in AnyFrame /\ FrameInv(n)
      /\ Top.block.first \in Nat /\ Top.offset \in Nat /\ Top.size \in Nat /\ Top.read \in Nat
  BY TopFrame
<1>2. /\ RawFrame(Top) /\ Place(Top) = Origin + Len(dest)
      /\ n = 1 => FirstFrame(Top)
      /\ n > 1 => NextFrame(Top, stack[n - 1])
  BY <1>1 DEF FrameInv
<1>3. PageCall => Array \in Pages
  BY FirstIsRaw
<1>4. Origin \in Nat
  BY <1>1, <1>3, ArrayIs
<1>5. Len(dest) \in Nat /\ dest = [i \in 1..Len(dest) |-> Origin + i - 1]
  BY <1>1 DEF Inv, CallInv, Part
<1>6. /\ bytes = [i \in 1..Top.size |-> Origin + Len(dest) + i - 1]
      /\ Len(bytes) = Top.size
  <2>1. Place(Top) \in Nat
    BY <1>1 DEF Place
  <2> QED
    BY <1>1, <1>2, <2>1, PartIsSeq
<1>7. joined = Part(Len(dest) + Top.size) /\ Len(joined) = Len(dest) + Top.size
  BY <1>1, <1>4, <1>5, <1>6, PartsJoin, PartIsSeq DEF Part
<1> HIDE DEF joined
<1>8. CASE n = 1
  <2>1. FirstFrame(Top)
    BY <1>2, <1>8
  <2>2. Len(dest) + Top.size = Wanted
    BY <1>1, <1>2, <1>4, <1>5, <2>1 DEF FirstFrame
  <2>3. Finish("value", joined)
    BY <1>8 DEF Leave, joined
  <2>4. Finish("value", Part(Wanted))
    BY <1>7, <2>2, <2>3
  <2> QED
    BY <1>1, <1>3, <2>1, <2>4, Returns DEF FirstFrame
<1>9. CASE n > 1
  <2> DEFINE caller == stack[n - 1]
             k == Top.read + Top.size
             g == [caller EXCEPT !.offset = @ + Top.read + Top.size,
                                 !.size = @ - Top.read - Top.size,
                                 !.read = @ + Top.read + Top.size]
  <2>1. /\ Below \in Seq(AnyFrame) /\ Len(Below) = n - 1 /\ n - 1 \in Nat \ {0}
        /\ \A d \in 1..(n - 1) : Below[d] = stack[d]
    BY <1>1, <1>9, AllButLast DEF Inv, StackInv, Below
  <2>2. /\ caller \in AnyFrame /\ Below[n - 1] = caller
    <3>1. n - 1 \in 1..n /\ n - 1 \in 1..(n - 1) /\ stack \in Seq(AnyFrame)
      BY <1>1, <1>9 DEF Inv, StackInv
    <3>2. caller \in AnyFrame
      BY <3>1
    <3> QED
      BY <2>1, <3>1, <3>2
  <2>3. Top.read + Top.size <= caller.size
    BY <1>1, <1>2, <1>9 DEF NextFrame
  <2>4. /\ g \in AnyFrame /\ g.task = caller.task /\ g.block = caller.block
        /\ g.offset = caller.offset + k /\ g.size = caller.size - k /\ g.read = caller.read + k
    <3>1. g = [caller EXCEPT !.offset = caller.offset + Top.read + Top.size,
                             !.size = caller.size - Top.read - Top.size,
                             !.read = caller.read + Top.read + Top.size]
      BY <2>2 DEF AnyFrame
    <3>2. caller.offset \in Nat /\ caller.size \in Nat /\ caller.read \in Nat
      BY <2>2 DEF AnyFrame
    <3> HIDE DEF g, caller
    <3>3. PICK x \in Nat, y \in Nat, z \in Nat :
            /\ x = caller.offset + k /\ y = caller.size - k /\ z = caller.read + k
      BY <1>1, <2>3, <3>2
    <3>4. /\ caller.offset + Top.read + Top.size = x
          /\ caller.size - Top.read - Top.size = y
          /\ caller.read + Top.read + Top.size = z
      BY <1>1, <3>2, <3>3
    <3>5. g = [caller EXCEPT !.offset = x, !.size = y, !.read = z]
      BY <3>1, <3>4
    <3>6. /\ g \in AnyFrame /\ g.task = caller.task /\ g.block = caller.block
          /\ g.offset = x /\ g.size = y /\ g.read = z
      BY <2>2, <3>5 DEF AnyFrame
    <3> QED
      BY <3>3, <3>6
  <2>5. stack' = [Below EXCEPT ![n - 1] = g] /\ dest' = joined /\ UNCHANGED <<stream, call, reply>>
    <3>1. /\ stack' = [Below EXCEPT ![n - 1].offset = @ + Top.read + Len(bytes),
                                    ![n - 1].size = @ - Top.read - Len(bytes),
                                    ![n - 1].read = @ + Top.read + Len(bytes)]
          /\ dest' = joined /\ UNCHANGED <<stream, call, reply>>
      <4>1. Len(stack) # 1 /\ Len(Below) = n - 1
        BY <1>9, <2>1
      <4>2. /\ stack' = [Below EXCEPT ![Len(Below)].offset = @ + Top.read + Len(bytes),
                                      ![Len(Below)].size = @ - Top.read - Len(bytes),
                                      ![Len(Below)].read = @ + Top.read + Len(bytes)]
            /\ dest' = joined /\ UNCHANGED <<stream, call, reply>>
        BY <4>1 DEF Leave, joined
      <4> QED
        BY <4>1, <4>2
    <3>2. [Below EXCEPT ![n - 1].offset = @ + Top.read + Top.size,
                        ![n - 1].size = @ - Top.read - Top.size,
                        ![n - 1].read = @ + Top.read + Top.size]
            = [Below EXCEPT ![n - 1] = g]
      BY <2>1, <2>2
    <3> QED
      BY <1>6, <3>1, <3>2
  <2> HIDE DEF g, k
  <2>6. /\ stack' \in Seq(AnyFrame) /\ Len(stack') = n - 1 /\ stack'[n - 1] = g
        /\ \A d \in 1..(n - 2) : stack'[d] = stack[d]
    <3>1. stack' = [Below EXCEPT ![n - 1] = g] /\ g \in AnyFrame
      BY <2>4, <2>5
    <3>2. n - 1 \in 1..Len(Below) /\ n \in Nat
      BY <1>1, <2>1
    <3>3. \A d \in 1..(n - 2) : d \in 1..(n - 1) /\ d # n - 1
      BY <3>2
    <3> HIDE DEF n
    <3> QED
      BY <2>1, <3>1, <3>2, <3>3, OneReplaced
  <2>7. CallInv'
    <3>1. Origin' = Origin /\ (Part(Len(dest)))' = [i \in 1..Len(dest') |-> Origin + i - 1]
      BY <2>5 DEF Origin, Part
    <3>2. Len(dest') \in Nat /\ dest' = (Part(Len(dest)))'
      BY <1>1, <1>5, <1>7, <2>5, <3>1 DEF Part
    <3>3. stack' # <<>>
      BY <1>1, <1>9, <2>6
    <3> QED
      BY <1>1, <2>5, <3>2, <3>3 DEF Inv, CallInv, PageCall
  <2>8. \A d \in 1..(n - 1) : FrameInv(d)'
    <3>1. Len(dest') = Len(dest) + Top.size
      BY <1>7, <2>5
    <3>2. Resuming(n, Top, caller, k, g)
      BY <1>1, <1>9, <2>4, <2>5, <2>6, <3>1 DEF Resuming, k
    <3> QED
      BY <3>2, Resumed
  <2>9. Inv'
    BY <2>6, <2>7, <2>8 DEF Inv, StackInv
  <2> QED
    BY <2>5, <2>9 DEF Implements, Seen
<1>10. n = 1 \/ n > 1
  <2>1. n \in Nat \ {0}
    BY <1>1
  <2> HIDE DEF n
  <2> QED
    BY <2>1
<1> QED
  BY <1>8, <1>9, <1>10
\* The call of read_raw on a child, from the loop over the children.
LEMMA ChildFrame ==
  ASSUME Inv, stack # <<>>, Top.task = "raw", Top.block.level > 0, Top.size > 0,
         NEW i, i = Top.offset \div ChildMaxSize(Top.block), i < NumChildren(Top.block),
         NEW f, f = Raw(ChildOf(Top.block, i), Top.size, Top.offset % ChildMaxSize(Top.block))
  PROVE  /\ f \in AnyFrame /\ f.task = "raw" /\ f.read = 0
         /\ f.block.node = call.node /\ f.block.first <= Size[call.node]
         /\ f.offset + f.size <= TotalSize(f.block)
         /\ f.size > 0 /\ f.size <= Top.size /\ Place(f) = Place(Top)
         /\ f.block.level = Top.block.level - 1
<1> DEFINE b == Top.block
           c == ChildMaxSize(b)
           o == Top.offset % c
           child == ChildOf(b, i)
           total == TotalSize(child)
<1>1. /\ b \in AnyBlock /\ b.node = call.node /\ b.first <= Size[b.node] /\ b.first \in Nat
      /\ TotalSize(b) \in Nat /\ b.first + TotalSize(b) <= Size[call.node]
      /\ Top.offset \in Nat /\ Top.size \in Nat
      /\ Size[call.node] \in Nat
  BY TopFrame, BlockSize
<1>2. Top.offset + Top.size <= TotalSize(b)
  BY TopFrame DEF FrameInv, RawFrame
<1>3. c \in Nat \ {0}
  <2>1. b.level \in 1..2
    BY <1>1 DEF AnyBlock
  <2> QED
    BY <2>1, MaxSizes DEF ChildMaxSize
<1> HIDE DEF c
<1>4. i \in Nat /\ o \in Nat /\ o < c /\ Top.offset = i * c + o
  BY <1>1, <1>3, Quotient DEF c
<1>5. /\ child \in AnyBlock /\ child.node = call.node /\ child.first = b.first + i * c
      /\ child.first < Size[call.node] /\ i * c \in Nat
      /\ child.level = b.level - 1
      /\ total = Smaller(c, Size[call.node] - child.first)
  BY <1>1, <1>4, ChildSize DEF c
<1> HIDE DEF b, o, child, total
<1>6. total \in Nat /\ o < total /\ child.first + o = b.first + Top.offset
  <2>1. PICK im \in Nat : im = i * c
    BY <1>5
  <2>2. /\ Top.offset = im + o /\ child.first = b.first + im
        /\ total = Smaller(c, Size[call.node] - (b.first + im))
    BY <1>4, <1>5, <2>1
  <2> QED
    <3>1. b.first + Top.offset < Size[call.node]
      <4>1. b.first \in Nat /\ TotalSize(b) \in Nat /\ b.first + TotalSize(b) <= Size[call.node]
        BY <1>1
      <4>2. Top.offset < TotalSize(b)
        BY <1>1, <1>2
      <4> QED
        BY <1>1, <4>1, <4>2
    <3>2. child.first + o = b.first + Top.offset
      BY <1>1, <1>4, <2>1, <2>2
    <3>3. child.first \in Nat
      BY <1>5 DEF AnyBlock
    <3>4. total = Smaller(c, Size[call.node] - child.first)
      BY <1>5
    <3>5. PICK left \in Int : left = Size[call.node] - child.first
      BY <1>1, <3>3
    <3>6. left \in Nat /\ o < left
      BY <1>1, <1>4, <3>1, <3>2, <3>3, <3>5
    <3>7. total = Smaller(c, left)
      BY <3>4, <3>5
    <3>8. total \in Nat /\ o < total
      BY <1>3, <1>4, <3>6, <3>7 DEF Smaller
    <3> QED
      BY <3>2, <3>8
<1>7. f = [task |-> "raw", block |-> child, offset |-> o, read |-> 0,
           size |-> IF o + Top.size > total THEN Minus(total, o) ELSE Top.size]
  BY DEF Raw, child, o, c, b, total
<1>8. /\ f.size \in Nat /\ f.size > 0 /\ o + f.size <= total /\ f.size <= Top.size
      /\ f = [task |-> "raw", block |-> child, offset |-> o, read |-> 0, size |-> f.size]
  BY <1>1, <1>4, <1>6, <1>7 DEF Minus
<1>9. /\ f \in AnyFrame /\ f.task = "raw" /\ f.read = 0 /\ f.block = child /\ f.offset = o
  BY <1>4, <1>5, <1>8 DEF AnyFrame
<1>10. f.block.first <= Size[call.node]
  BY <1>1, <1>5, <1>9 DEF AnyBlock
<1>11. Place(f) = Place(Top)
  BY <1>6, <1>9 DEF Place, b
<1> QED
  BY <1>5, <1>8, <1>9, <1>10, <1>11 DEF total, b

\* A frame of read_raw calls another.
LEMMA Called ==
  ASSUME Inv, stack # <<>>, Top.task = "raw",
         NEW f \in AnyFrame, f.task = "raw", f.read = 0,
         f.block.node = call.node, f.block.first <= Size[call.node],
         f.offset + f.size <= TotalSize(f.block),
         f.size <= Top.size, Place(f) = Place(Top),
         Push(stack, f)
  PROVE  Implements
<1> DEFINE n == Len(stack)
<1>1. /\ call # None /\ n \in Nat \ {0} /\ Top = stack[n] /\ FrameInv(n)
      /\ Top.block.first \in Nat /\ Top.offset \in Nat /\ Top.size \in Nat
  BY TopFrame
<1>2. RawFrame(Top) /\ Place(Top) = Origin + Len(dest)
  BY <1>1 DEF FrameInv
<1>3. Origin \in Nat /\ Wanted \in Int
  <2>1. Origin \in Nat /\ ArraySize \in Int
    BY <1>1, FirstIsRaw, ArrayIs
  <2>2. call.offset \in Nat /\ call.count \in Nat
    BY <1>1, ProgramAssumption DEF Inv, CallInv
  <2> QED
    BY <2>1, <2>2 DEF Wanted, Smaller
<1>4. f.size \in Nat
  BY DEF AnyFrame
<1>5. stack' = Append(stack, f) /\ UNCHANGED <<stream, call, dest, reply>>
  BY DEF Push
<1>6. /\ stack \in Seq(AnyFrame) /\ stack' \in Seq(AnyFrame) /\ Len(stack') = n + 1
      /\ stack'[n + 1] = f
      /\ \A d \in 1..n : stack'[d] = stack[d]
  BY <1>5 DEF Inv, StackInv
<1>7. CallInv'
  <2>1. stack' # <<>>
    BY <1>1, <1>6
  <2> QED
    BY <1>1, <1>5, <2>1 DEF Inv, CallInv, PageCall, Part, Origin
<1>8. PICK m : m = Len(stack)
  OBVIOUS
<1>9. ASSUME NEW d \in 1..m
      PROVE  FrameInv(d)'
  <2>1. /\ d \in 1..Len(stack) /\ d \in Nat /\ d # Len(stack')
        /\ d > 1 => d - 1 \in 1..Len(stack)
    BY <1>1, <1>6, <1>8
  <2>2. /\ FrameInv(d) /\ stack'[d] = stack[d] /\ (d > 1 => stack'[d - 1] = stack[d - 1])
    BY <1>6, <2>1 DEF Inv, StackInv
  <2>3. stack[d].task # "page"
    <3>1. CASE Len(stack) = 1
      <4>1. d = Len(stack)
        BY <2>1, <3>1
      <4> QED
        BY <1>1, <4>1
    <3>2. CASE Len(stack) # 1
      BY <2>2, <3>2 DEF FrameInv, PageFrame
    <3> QED
      BY <3>1, <3>2
  <2> QED
    BY <1>5, <2>1, <2>2, <2>3
    DEF FrameInv, RawFrame, FirstFrame, NextFrame, Place, Origin, Wanted, ArraySize, Array, PageCall
<1>10. ASSUME NEW d, d = m + 1
       PROVE  FrameInv(d)'
  <2>1. /\ d = Len(stack') /\ d # 1 /\ d > 1 /\ stack'[d] = f /\ stack'[d - 1] = Top
    BY <1>1, <1>6, <1>8, <1>10
  <2>2. Origin' = Origin /\ Wanted' = Wanted /\ call' = call /\ dest' = dest
    BY <1>5 DEF Origin, Wanted, ArraySize, Array, PageCall
  <2>3. /\ Place(f) + f.size <= Origin + Wanted
        /\ Place(f) = Place(Top) + f.read /\ f.read + f.size <= Top.size
        /\ Place(f) = Origin + Len(dest)
    <3>1. Place(Top) \in Nat /\ Place(Top) + Top.size <= Origin + Wanted
      BY <1>1, <1>2 DEF RawFrame, Place
    <3>2. Place(f) + f.size <= Origin + Wanted
      BY <1>1, <1>3, <1>4, <3>1
    <3> QED
      BY <1>1, <1>2, <1>4, <3>1, <3>2
  <2> QED
    BY <2>1, <2>2, <2>3 DEF FrameInv, RawFrame, NextFrame, Place
<1>11. Inv'
  <2>1. ASSUME NEW d \in 1..Len(stack')
        PROVE  FrameInv(d)'
    <3>1. d \in 1..m \/ d = m + 1
      BY <1>1, <1>6, <1>8
    <3> QED
      BY <1>9, <1>10, <3>1
  <2> QED
    BY <1>6, <1>7, <2>1 DEF Inv, StackInv
<1> QED
  BY <1>5, <1>11 DEF Implements, Seen

LEMMA LoopStep ==
  ASSUME Inv, Loop
  PROVE  Implements
<1> DEFINE i == Top.offset \div ChildMaxSize(Top.block)
           f == Raw(ChildOf(Top.block, i), Top.size, Top.offset % ChildMaxSize(Top.block))
<1>1. /\ stack # <<>> /\ Top.task = "raw" /\ Top.block.level > 0 /\ Top.size > 0
  BY DEF Loop, Running
<1>2. /\ call # None /\ Top.offset \in Nat /\ Top.block \in AnyBlock
      /\ Top.block.first <= Size[Top.block.node]
  BY <1>1, TopFrame
<1>3. CASE Finish("out_of_range", <<>>)
  BY <1>2, <1>3, Throws
<1>4. CASE Finish("failed", <<>>)
  BY <1>2, <1>4, Throws
<1>5. CASE i < NumChildren(Top.block) /\ Push(stack, f)
  BY <1>1, <1>5, ChildFrame, Called
<1>6. i \in Nat /\ NumChildren(Top.block) \in Nat
  BY <1>1, <1>2, ChildCounts
<1> QED
  BY <1>3, <1>4, <1>5, <1>6 DEF Loop, Child, Fetch

LEMMA LoopEndsStep ==
  ASSUME Inv, LoopEnds
  PROVE  Implements
<1>1. stack # <<>> /\ Top.task = "raw" /\ Top.size = 0 /\ Leave(<<>>)
  BY DEF LoopEnds, Running
<1>2. <<>> = [i \in 1..Top.size |-> Place(Top) + i - 1]
  BY <1>1, NoPart
<1> QED
  BY <1>1, <1>2, LeaveRead

LEMMA CopyStep ==
  ASSUME Inv, Copy
  PROVE  Implements
<1>1. stack # <<>> /\ Top.task = "raw" /\ Leave(Copied(Top))
  BY DEF Copy, Running
<1>2. /\ Top.block.first \in Nat /\ Top.offset \in Nat /\ Top.size \in Nat
      /\ TotalSize(Top.block) \in Nat
      /\ Top.offset + Top.size <= TotalSize(Top.block)
  BY <1>1, TopFrame DEF FrameInv, RawFrame
<1>3. Copied(Top) = [i \in 1..Top.size |-> Place(Top) + i - 1]
  BY <1>2 DEF Copied, Place
<1> QED
  BY <1>1, <1>3, LeaveRead

-----------------------------------------------------------------------------
(***************************************************************************)
(* The pages.                                                              *)
(***************************************************************************)

\* A call of get_page, the only one.
LEMMA CalledPage ==
  ASSUME Inv, call # None, PageCall, dest = <<>>,
         NEW b \in AnyBlock, NEW p \in Nat,
         b.node = call.node, b.first <= Size[call.node],
         b = Root(call.node) \/ (b.first < Size[call.node] /\ p * PageMax < MaxSize(b.level)),
         b.first + p * PageMax = call.page * PageMax,
         Push(<<>>, Page(b, p))
  PROVE  Implements
<1> DEFINE f == Page(b, p)
<1>1. f = [task |-> "page", block |-> b, offset |-> p, size |-> 0, read |-> 0]
  BY DEF Page
<1>2. stack' = Append(<<>>, f) /\ UNCHANGED <<stream, call, dest, reply>>
  BY DEF Push
<1> HIDE DEF f
<1>3. f \in AnyFrame /\ f.task = "page" /\ f.block = b /\ f.offset = p
  BY <1>1 DEF AnyFrame
<1>4. stack' = <<f>> /\ stack' \in Seq(AnyFrame) /\ Len(stack') = 1 /\ stack'[1] = f
  BY <1>2, <1>3
<1>5. CallInv'
  BY <1>2, <1>4 DEF Inv, CallInv, PageCall, Part, Origin
<1>6. FrameInv(1)'
  BY <1>2, <1>3, <1>4 DEF FrameInv, PageFrame, PageCall
<1>7. Inv'
  BY <1>4, <1>5, <1>6 DEF Inv, StackInv
<1> QED
  BY <1>2, <1>7 DEF Implements, Seen

\* What a call of get_page knows.
LEMMA TopPage ==
  ASSUME Inv, stack # <<>>, Top.task = "page"
  PROVE  /\ call # None /\ PageCall /\ call.page \in Nat /\ dest = <<>>
         /\ Top.block \in AnyBlock /\ Top.block.node = call.node
         /\ Top.block.first <= Size[Top.block.node] /\ Top.offset \in Nat
         /\ Below = <<>>
         /\ Top.block.first + Top.offset * PageMax = call.page * PageMax
         /\ \/ Top.block = Root(call.node)
            \/ /\ Top.block.first < Size[call.node]
               /\ Top.offset * PageMax < MaxSize(Top.block.level)
<1>1. /\ call # None /\ Top = stack[Len(stack)] /\ FrameInv(Len(stack))
      /\ Top.block \in AnyBlock /\ Top.block.node = call.node
      /\ Top.block.first <= Size[Top.block.node] /\ Top.offset \in Nat
  BY TopFrame
<1>2. PageFrame(Top)
  BY <1>1 DEF FrameInv
<1>3. Below = <<>>
  BY <1>2 DEF PageFrame, Below, Inv, StackInv
<1>4. call.page \in Nat
  BY <1>1, <1>2 DEF PageFrame, Inv, CallInv
<1> QED
  BY <1>1, <1>2, <1>3, <1>4 DEF PageFrame

LEMMA DescendStep ==
  ASSUME Inv, DescendToPage
  PROVE  Implements
<1> DEFINE b == Top.block
           k == ChildMaxPages(b)
           i == Top.offset \div k
           o == Top.offset % k
           child == ChildOf(b, i)
<1>1. stack # <<>> /\ Top.task = "page" /\ b.level > 0 /\ Child(i, Push(Below, Page(child, o)))
  BY DEF DescendToPage, Running
<1>2. /\ call # None /\ PageCall /\ call.page \in Nat /\ dest = <<>>
      /\ b \in AnyBlock /\ b.node = call.node
      /\ b.first <= Size[b.node] /\ Top.offset \in Nat
      /\ Below = <<>>
      /\ b.first + Top.offset * PageMax = call.page * PageMax
  BY <1>1, TopPage
<1>3. b.level \in 1..2 /\ b.first \in Nat
  BY <1>1, <1>2 DEF AnyBlock
<1>4. k \in Nat \ {0} /\ ChildMaxSize(b) = k * PageMax
  BY <1>3, ChildPages
<1> HIDE DEF k
<1>5. i \in Nat /\ o \in Nat /\ o < k /\ Top.offset = i * k + o
  BY <1>2, <1>4, Quotient
<1> HIDE DEF i, o
<1>6. NumChildren(b) \in Nat
  BY <1>1, <1>2, ChildCounts
<1>7. CASE Finish("out_of_range", <<>>)
  BY <1>2, <1>7, Throws
<1>8. CASE Finish("failed", <<>>)
  BY <1>2, <1>8, Throws
<1>9. CASE i < NumChildren(b) /\ Push(Below, Page(child, o))
  <2>1. /\ child \in AnyBlock /\ child.node = b.node /\ child.first = b.first + i * ChildMaxSize(b)
        /\ child.first < Size[b.node]
    BY <1>1, <1>2, <1>5, <1>9, ChildSize
  <2>2. child.first + o * PageMax = call.page * PageMax
    <3>1. (b.first + i * (k * PageMax)) + o * PageMax = b.first + (i * k + o) * PageMax
      BY <1>3, <1>4, <1>5, MaxSizes, Distributed
    <3> QED
      BY <1>2, <1>4, <1>5, <2>1, <3>1
  <2>3. o * PageMax < MaxSize(child.level)
    <3>1. (o + 1) * PageMax <= k * PageMax
      BY <1>4, <1>5, MaxSizes
    <3>2. MaxSize(child.level) = k * PageMax
      BY <1>4 DEF ChildMaxSize, ChildOf
    <3>3. (o + 1) * PageMax = o * PageMax + PageMax /\ o * PageMax \in Nat
      BY <1>5, MaxSizes
    <3>4. k * PageMax \in Nat
      BY <1>4, MaxSizes
    <3> QED
      BY <3>1, <3>2, <3>3, <3>4, MaxSizes
  <2> HIDE DEF child, b
  <2>4. child.first <= Size[call.node]
    <3>1. Size[call.node] \in Nat /\ child.first \in Nat
      BY <1>2, <2>1, NodeSizes DEF AnyBlock
    <3> QED
      BY <1>2, <2>1, <3>1
  <2> QED
    BY <1>2, <1>5, <1>9, <2>1, <2>2, <2>3, <2>4, CalledPage
<1> QED
  BY <1>1, <1>5, <1>6, <1>7, <1>8, <1>9 DEF Child, Fetch

LEMMA AtPageStep ==
  ASSUME Inv, AtPage
  PROVE  Implements
<1> DEFINE b == Top.block
           whole == (call.op = "page_value")
<1>1. /\ stack # <<>> /\ Top.task = "page" /\ ~(b.level > 0)
      /\ IF Top.offset # 0 THEN Finish("out_of_range", <<>>) ELSE Checked(b, whole)
  BY DEF AtPage, Running
<1>2. /\ call # None /\ PageCall /\ call.page \in Nat /\ dest = <<>>
      /\ b \in AnyBlock /\ b.node = call.node
      /\ b.first <= Size[b.node] /\ Top.offset \in Nat
      /\ b.first + Top.offset * PageMax = call.page * PageMax
      /\ b = Root(call.node) \/ b.first < Size[call.node]
  BY <1>1, TopPage
<1>3. CASE Top.offset # 0
  BY <1>1, <1>2, <1>3, Throws
<1>4. CASE Top.offset = 0
  <2>1. b.level = 0 /\ b.first \in Nat /\ call.node \in Nodes /\ call.offset \in Nat
    BY <1>1, <1>2 DEF AnyBlock, Inv, CallInv
  <2>2. b.first = call.page * PageMax
    BY <1>2, <1>4, <2>1, MaxSizes
  <2>3. /\ <<call.node, call.page>> \in Pages /\ PageSize(call.node, call.page) = TotalSize(b)
    BY <1>2, <2>1, <2>2, PageIsArray
  <2>4. b.first + call.offset = Origin
    BY <1>2, <2>1, <2>2 DEF Origin, PageCall
  <2>5. Array \in Pages /\ TotalSize(b) = ArraySize /\ call.op # "stream"
    BY <1>2, <2>3 DEF Array, ArraySize, PageCall
  <2>6. whole \in BOOLEAN /\ whole = (call.op \in {"value", "page_value"}) /\ Checked(b, whole)
    BY <1>1, <1>2, <1>4 DEF PageCall
  <2> HIDE DEF whole, b
  <2> QED
    BY <1>2, <2>4, <2>5, <2>6, CheckedRead
<1> QED
  BY <1>3, <1>4

LEMMA EnterStep ==
  ASSUME Inv, Enter
  PROVE  Implements
<1> DEFINE b == Root(call.node)
<1>1. /\ call # None /\ stack = <<>> /\ dest = <<>>
      /\ call.node \in Nodes /\ call.offset \in Nat
      /\ call.op \in {"stream", "buffer", "value", "page_buffer", "page_value"}
  BY DEF Enter, Inv, CallInv
<1>2. /\ b \in AnyBlock /\ b.node = call.node /\ b.first = 0 /\ TotalSize(b) = Size[call.node]
      /\ Size[call.node] \in Nat /\ b.first <= Size[b.node]
  BY <1>1, NodeSizes
<1>3. CASE Finish("failed", <<>>)
  BY <1>1, <1>3, Throws
<1>4. CASE PageCall /\ Push(<<>>, Page(b, call.page))
  <2>1. call.page \in Nat
    BY <1>1, <1>4 DEF Inv, CallInv
  <2>2. b.first + call.page * PageMax = call.page * PageMax
    BY <1>2, <2>1, MaxSizes
  <2>3. b = Root(call.node)
    OBVIOUS
  <2> HIDE DEF b
  <2> QED
    BY <1>1, <1>2, <1>4, <2>1, <2>2, <2>3, CalledPage
<1>5. ASSUME ~PageCall
      PROVE  b.first + call.offset = Origin /\ TotalSize(b) = ArraySize
  BY <1>1, <1>2, <1>5 DEF Origin, PageCall, ArraySize
<1>6. CASE call.op \in {"buffer", "value"} /\ Checked(b, call.op = "value")
  <2> DEFINE whole == (call.op = "value")
  <2>1. whole \in BOOLEAN /\ whole = (call.op \in {"value", "page_value"}) /\ Checked(b, whole)
    BY <1>6
  <2>2. ~PageCall /\ call.op # "stream"
    BY <1>6 DEF PageCall
  <2> HIDE DEF whole, b
  <2> QED
    BY <1>1, <1>2, <1>5, <2>1, <2>2, CheckedRead
<1>7. CASE call.op = "stream" /\ Push(<<>>, Raw(b, call.count, call.offset))
  <2>1. ~PageCall /\ call.op \notin {"buffer", "page_buffer", "value", "page_value"}
    BY <1>7 DEF PageCall
  <2>2. call.offset <= ArraySize
    BY <1>1, <1>2, <1>5, <1>7, <2>1 DEF Inv, CallInv
  <2> HIDE DEF b
  <2> QED
    BY <1>1, <1>2, <1>5, <1>7, <2>1, <2>2, FirstRaw
<1> QED
  <2>1. \/ Finish("failed", <<>>)
        \/ CASE call.op = "stream" -> Push(<<>>, Raw(b, call.count, call.offset))
             [] call.op \in {"buffer", "value"} -> Checked(b, call.op = "value")
             [] OTHER -> Push(<<>>, Page(b, call.page))
    BY DEF Enter, Fetch
  <2>2. CASE call.op = "stream"
    BY <1>3, <1>7, <2>1, <2>2
  <2>3. CASE call.op \in {"buffer", "value"}
    <3>1. call.op # "stream"
      BY <2>3
    <3> QED
      BY <1>3, <1>6, <2>1, <2>3, <3>1
  <2>4. CASE call.op \in {"page_buffer", "page_value"}
    <3>1. call.op # "stream" /\ call.op \notin {"buffer", "value"} /\ PageCall
      BY <2>4 DEF PageCall
    <3> QED
      BY <1>3, <1>4, <2>1, <3>1
  <2> QED
    BY <1>1, <2>2, <2>3, <2>4
-----------------------------------------------------------------------------
(***************************************************************************)
(* The operations.                                                         *)
(***************************************************************************)

\* An operation begins, and nothing is seen of it.
LEMMA Started ==
  ASSUME Inv, NEW c, Start(c),
         c.node \in Nodes, c.count \in Counts, c.offset \in Nat,
         c.op \in {"stream", "buffer", "value", "page_buffer", "page_value"},
         c.op = "stream" =>
           /\ c.stream \in Streams
           /\ stream[c.stream] = [node |-> c.node, pos |-> c.offset]
           /\ c.offset <= Size[c.node],
         c.op # "stream" => c.offset \in Offsets,
         c.op \in {"page_buffer", "page_value"} => c.page \in Nat
  PROVE  Implements
<1>1. /\ call' = c /\ UNCHANGED <<stream, stack, dest, reply>>
      /\ stack = <<>> /\ dest = <<>> /\ reply = None
      /\ stream \in [Streams -> [node : Nodes, pos : Nat] \cup {None}]
  BY DEF Start, Idle, Inv, CallInv
<1>2. Len(dest') = 0 /\ dest' = Part(0)'
  <2>1. Len(<<>>) = 0
    OBVIOUS
  <2>2. Part(0)' = [i \in 1..0 |-> Origin' + i - 1]
    BY DEF Part
  <2>3. [i \in 1..0 |-> Origin' + i - 1] = <<>>
    BY NoPart
  <2> QED
    BY <1>1, <2>1, <2>2, <2>3
<1>3. CallInv'
  <2>1. dest' = Part(Len(dest))'
    <3>1. Part(Len(dest))' = [i \in 1..Len(dest') |-> Origin' + i - 1]
      BY DEF Part
    <3>2. Part(0)' = [i \in 1..0 |-> Origin' + i - 1]
      BY DEF Part
    <3> QED
      BY <1>2, <3>1, <3>2
  <2> QED
    BY <1>1, <1>2, <2>1 DEF CallInv, PageCall
<1>4. StackInv'
  BY <1>1 DEF StackInv
<1> QED
  BY <1>1, <1>3, <1>4 DEF Implements, Inv, Seen

\* A stream as ByteStore sees it,
LEMMA SeenAt ==
  ASSUME stream \in [Streams -> [node : Nodes, pos : Nat] \cup {None}],
         NEW s \in Streams, stream[s] # None
  PROVE  /\ stream[s].node \in Nodes /\ stream[s].pos \in Nat
         /\ stream[s] = [node |-> stream[s].node, pos |-> stream[s].pos]
         /\ Seen[s] # None
         /\ Seen[s] = [array |-> stream[s].node,
                       pos |-> IF stream[s].pos > Size[stream[s].node] THEN Lost ELSE stream[s].pos]
<1> DEFINE n == stream[s].node
           p == stream[s].pos
           seen == IF p > Size[n] THEN Lost ELSE p
<1>1. n \in Nodes /\ p \in Nat /\ stream[s] = [node |-> n, pos |-> p]
  OBVIOUS
<1>2. [array |-> n, pos |-> seen] # None
  <2>1. [array |-> n, pos |-> seen] \in [array : Nodes, pos : Nat \cup {Lost}]
    BY <1>1
  <2> QED
    BY <2>1, ProgramAssumption
<1> QED
  BY <1>1, <1>2 DEF Seen

\* and as it sees it move.
LEMMA SeenMoved ==
  ASSUME stream \in [Streams -> [node : Nodes, pos : Nat] \cup {None}],
         NEW s \in Streams, stream[s] # None, NEW q \in Nat,
         stream' = [stream EXCEPT ![s].pos = q]
  PROVE  /\ stream' \in [Streams -> [node : Nodes, pos : Nat] \cup {None}]
         /\ Seen' = [Seen EXCEPT ![s].pos = IF q > Size[stream[s].node] THEN Lost ELSE q]
<1> DEFINE n == stream[s].node
           p == stream[s].pos
           seen(x) == IF x > Size[n] THEN Lost ELSE x
<1>1. n \in Nodes /\ p \in Nat /\ stream[s] = [node |-> n, pos |-> p]
  OBVIOUS
<1>2. stream' = [stream EXCEPT ![s] = [node |-> n, pos |-> q]]
  <2>1. [stream[s] EXCEPT !.pos = q] = [node |-> n, pos |-> q]
    BY <1>1
  <2>2. stream' = [stream EXCEPT ![s] = [stream[s] EXCEPT !.pos = q]]
    OBVIOUS
  <2> QED
    BY <2>1, <2>2
<1>3. stream' \in [Streams -> [node : Nodes, pos : Nat] \cup {None}]
  BY <1>1, <1>2
<1>4. [node |-> n, pos |-> q] # None
  <2>1. [node |-> n, pos |-> q] \in [node : Nodes, pos : Nat]
    BY <1>1
  <2> QED
    BY <2>1, ProgramAssumption
<1>5. Seen[s] = [array |-> n, pos |-> seen(p)]
  BY SeenAt
<1>6. Seen' = [Seen EXCEPT ![s] = [array |-> n, pos |-> seen(q)]]
  BY <1>1, <1>2, <1>4 DEF Seen
<1>7. [Seen[s] EXCEPT !.pos = seen(q)] = [array |-> n, pos |-> seen(q)]
  BY <1>5
<1>8. Seen' = [Seen EXCEPT ![s] = [Seen[s] EXCEPT !.pos = seen(q)]]
  BY <1>6, <1>7
<1> QED
  BY <1>3, <1>8

LEMMA OpenStep ==
  ASSUME Inv, NEW s \in Streams, NEW n \in Nodes, Open(s, n)
  PROVE  Implements
<1>1. /\ stream' = [stream EXCEPT ![s] = [node |-> n, pos |-> 0]]
      /\ UNCHANGED <<call, stack, dest, reply>>
      /\ call = None /\ reply = None /\ stack = <<>> /\ dest = <<>>
      /\ stream \in [Streams -> [node : Nodes, pos : Nat] \cup {None}]
  BY DEF Open, Idle, Inv, CallInv
<1>2. stream' \in [Streams -> [node : Nodes, pos : Nat] \cup {None}]
  BY <1>1
<1>3. Inv'
  BY <1>1, <1>2, IdleInv
<1>4. [node |-> n, pos |-> 0] # None /\ ~(0 > Size[n])
  <2>1. [node |-> n, pos |-> 0] \in [node : Nodes, pos : Nat]
    OBVIOUS
  <2> QED
    BY <2>1, NodeSizes, ProgramAssumption
<1>5. Seen' = [Seen EXCEPT ![s] = [array |-> n, pos |-> 0]]
  BY <1>1, <1>4 DEF Seen
<1>6. Store!Open(s, n)
  BY <1>1, <1>5 DEF Store!Open, Seen
<1>7. Store!Next
  BY <1>6 DEF Store!Next
<1> QED
  BY <1>3, <1>7 DEF Implements

LEMMA StreamReadStep ==
  ASSUME Careful, Inv, NEW s \in Streams, NEW count \in Counts, StreamRead(s, count)
  PROVE  Implements
<1> DEFINE c == [op |-> "stream", stream |-> s, node |-> stream[s].node,
                 count |-> count, offset |-> stream[s].pos]
<1>1. /\ stream \in [Streams -> [node : Nodes, pos : Nat] \cup {None}]
      /\ stream[s] # None /\ stream[s].pos <= Size[stream[s].node]
      /\ Start(c)
  BY DEF StreamRead, Placed, Inv, CallInv
<1>2. /\ stream[s].node \in Nodes /\ stream[s].pos \in Nat
      /\ stream[s] = [node |-> stream[s].node, pos |-> stream[s].pos]
  BY <1>1
<1>3. /\ c.op = "stream" /\ c.stream = s /\ c.node = stream[s].node /\ c.count = count
      /\ c.offset = stream[s].pos
  OBVIOUS
<1> HIDE DEF c
<1> QED
  BY <1>1, <1>2, <1>3, Started

LEMMA ReadStep ==
  ASSUME Inv, NEW n \in Nodes, NEW count \in Counts, NEW offset \in Offsets \cap Nat,
         NEW op \in {"buffer", "value"}, Read(n, op, count, offset)
  PROVE  Implements
<1> DEFINE c == [op |-> op, node |-> n, count |-> count, offset |-> offset]
<1>1. Start(c)
  BY DEF Read
<1>2. /\ c.op = op /\ c.op # "stream" /\ c.op \notin {"page_buffer", "page_value"}
      /\ c.node = n /\ c.count = count /\ c.offset = offset
  OBVIOUS
<1> HIDE DEF c
<1> QED
  BY <1>1, <1>2, Started

LEMMA ReadPageStep ==
  ASSUME Inv, NEW n \in Nodes, NEW count \in Counts, NEW offset \in Offsets \cap Nat,
         NEW op \in {"page_buffer", "page_value"}, NEW page \in PageNums,
         ReadPage(n, op, page, count, offset)
  PROVE  Implements
<1> DEFINE c == [op |-> op, node |-> n, page |-> page, count |-> count, offset |-> offset]
<1>1. Start(c)
  BY DEF ReadPage
<1>2. /\ c.op = op /\ c.op # "stream" /\ c.node = n /\ c.count = count /\ c.offset = offset
      /\ c.page = page
  OBVIOUS
<1>3. page \in Nat
  BY ProgramAssumption
<1> HIDE DEF c
<1> QED
  BY <1>1, <1>2, <1>3, Started

LEMMA SeekStep ==
  ASSUME Careful, Inv, NEW s \in Streams, NEW off \in Offsets, NEW way \in Ways, Seek(s, off, way)
  PROVE  Implements
<1> DEFINE n == stream[s].node
           p == stream[s].pos
           pos == Sought(s, off, way)
           size == [x \in Nodes \cup Pages |-> IF x \in Nodes THEN Size[x] ELSE PageSize(x[1], x[2])]
<1>1. /\ call = None /\ reply = None /\ stack = <<>> /\ dest = <<>>
      /\ UNCHANGED <<call, stack, dest>>
      /\ stream \in [Streams -> [node : Nodes, pos : Nat] \cup {None}]
      /\ stream[s] # None /\ (way = "cur" => p <= Size[n])
      /\ \/ /\ stream' = [stream EXCEPT ![s].pos = Clamped(pos, Size[n])]
            /\ reply' = reply
         \/ /\ way = "end" \/ pos >= 0
            /\ stream' = [stream EXCEPT ![s].pos = IF way = "end" THEN @ ELSE pos]
            /\ reply' = [kind |-> "failed", bytes |-> <<>>]
  BY DEF Seek, Idle, Placed, Inv, CallInv
<1>2. n \in Nodes /\ p \in Nat /\ Size[n] \in Nat /\ off \in Int /\ stream[s] = [node |-> n, pos |-> p]
      /\ way \in {"beg", "cur", "end"}
  <2>1. n \in Nodes /\ p \in Nat /\ stream[s] = [node |-> n, pos |-> p]
    BY <1>1
  <2> QED
    BY <2>1, NodeSizes, ProgramAssumption DEF Ways
<1>3. pos \in Int
  BY <1>2 DEF Sought, Ways
<1>4. /\ Seen[s] # None /\ Seen[s].array = n
      /\ p <= Size[n] => Seen[s].pos = p
  <2>1. Seen[s] # None /\ Seen[s] = [array |-> n, pos |-> IF p > Size[n] THEN Lost ELSE p]
    BY <1>1, SeenAt
  <2>2. p <= Size[n] => ~(p > Size[n])
    BY <1>2
  <2> QED
    BY <2>1, <2>2
<1>5. /\ size[n] = Size[n]
      /\ way = "cur" => Seen[s].pos = p /\ Seen[s].pos # Lost
  BY <1>1, <1>2, <1>4, ProgramAssumption
<1>6. Store!MaySeek(s, way)
  BY <1>1, <1>4, <1>5 DEF Store!MaySeek, Seen
<1>7. Store!Target(s, off, way) = Clamped(pos, Size[n])
  <2>1. Store!Target(s, off, way) = Store!Clamp(Store!Base(s, way) + off, size[Seen[s].array])
    BY DEF Store!Target, Seen
  <2>2. Store!Base(s, way) = CASE way = "beg" -> 0
                               [] way = "cur" -> Seen[s].pos
                               [] way = "end" -> size[Seen[s].array]
    BY DEF Store!Base, Seen
  <2>3. Store!Base(s, way) + off = pos
    <3>1. CASE way = "beg"
      <4>1. Store!Base(s, way) = 0 /\ pos = off
        BY <2>2, <3>1 DEF Sought
      <4> QED
        BY <1>2, <4>1
    <3>2. CASE way = "cur"
      <4>1. Store!Base(s, way) = p /\ pos = p + off
        BY <1>5, <2>2, <3>2 DEF Sought
      <4> QED
        BY <4>1
    <3>3. CASE way = "end"
      <4>1. Store!Base(s, way) = Size[n] /\ pos = Size[n] + off
        BY <1>4, <1>5, <2>2, <3>3 DEF Sought
      <4> QED
        BY <4>1
    <3> QED
      BY <1>2, <3>1, <3>2, <3>3
  <2> QED
    BY <1>4, <1>5, <2>1, <2>3 DEF Store!Clamp, Clamped, Store!Smaller, Smaller
<1> HIDE DEF pos, size
<1>8. CASE /\ stream' = [stream EXCEPT ![s].pos = Clamped(pos, Size[n])]
           /\ reply' = reply
  <2>1. PICK q : q = Clamped(pos, Size[n])
    OBVIOUS
  <2>2. q \in Nat /\ ~(q > Size[n])
    BY <1>2, <1>3, <2>1 DEF Clamped, Smaller
  <2>3. stream' = [stream EXCEPT ![s].pos = q]
    BY <1>8, <2>1
  <2>4. /\ stream' \in [Streams -> [node : Nodes, pos : Nat] \cup {None}]
        /\ Seen' = [Seen EXCEPT ![s].pos = IF q > Size[stream[s].node] THEN Lost ELSE q]
    BY <1>1, <2>2, <2>3, SeenMoved
  <2>5. Seen' = [Seen EXCEPT ![s].pos = Store!Target(s, off, way)]
    BY <1>7, <2>1, <2>2, <2>4
  <2>6. Store!Seek(s, off, way)
    BY <1>6, <1>8, <2>5 DEF Store!Seek, Seen
  <2>7. Store!Next
    BY <1>2, <2>6 DEF Store!Next
  <2> QED
    BY <1>1, <2>4, <2>7, IdleInv DEF Implements
<1>9. CASE /\ way # "end" /\ pos >= 0
           /\ stream' = [stream EXCEPT ![s].pos = pos]
           /\ reply' = [kind |-> "failed", bytes |-> <<>>]
  <2>1. PICK q : q = pos
    OBVIOUS
  <2>2. q \in Nat
    BY <1>3, <1>9, <2>1
  <2>3. stream' = [stream EXCEPT ![s].pos = q]
    BY <1>9, <2>1
  <2>4. /\ stream' \in [Streams -> [node : Nodes, pos : Nat] \cup {None}]
        /\ Seen' = [Seen EXCEPT ![s].pos = IF q > Size[stream[s].node] THEN Lost ELSE q]
    BY <1>1, <2>2, <2>3, SeenMoved
  <2>5. q <= Size[n] => Store!Target(s, off, way) = q
    BY <1>2, <1>7, <2>1, <2>2 DEF Clamped, Smaller
  <2>6. \/ Seen' = [Seen EXCEPT ![s].pos = Store!Target(s, off, way)]
        \/ Seen' = [Seen EXCEPT ![s].pos = Lost]
    <3>1. CASE q > Size[n]
      BY <2>4, <3>1
    <3>2. CASE ~(q > Size[n])
      <4>1. q <= Size[n]
        BY <1>2, <2>2, <3>2
      <4> QED
        BY <2>4, <2>5, <3>2, <4>1
    <3> QED
      BY <3>1, <3>2
  <2>7. \E x \in {Store!Target(s, off, way), Lost} : Seen' = [Seen EXCEPT ![s].pos = x]
    BY <2>6
  <2>8. Store!SeekFails(s, off, way)
    BY <1>6, <1>9, <2>7 DEF Store!SeekFails, Store!Failed, Seen
  <2>9. Store!Next
    BY <1>2, <2>8 DEF Store!Next
  <2> QED
    BY <1>1, <2>4, <2>9, IdleInv DEF Implements
<1>10. CASE /\ way = "end"
            /\ stream' = [stream EXCEPT ![s].pos = @]
            /\ reply' = [kind |-> "failed", bytes |-> <<>>]
  <2>1. stream' = stream
    <3>1. [stream[s] EXCEPT !.pos = @] = stream[s]
      BY <1>2
    <3>2. stream' = [stream EXCEPT ![s] = [stream[s] EXCEPT !.pos = @]]
      BY <1>10
    <3>3. [stream EXCEPT ![s] = stream[s]] = stream
      BY <1>1
    <3> QED
      BY <3>1, <3>2, <3>3
  <2>2. Store!Fail
    BY <1>1, <1>10, <2>1 DEF Store!Fail, Store!Failed
  <2>3. Store!Next
    BY <2>2 DEF Store!Next
  <2> QED
    BY <1>1, <2>1, <2>3, IdleInv DEF Implements
<1> QED
  <2>1. \/ way = "end" /\ (IF way = "end" THEN TRUE ELSE FALSE)
        \/ way # "end"
    OBVIOUS
  <2> QED
    BY <1>1, <1>8, <1>9, <1>10, <2>1

LEMMA TakeStep ==
  ASSUME Inv, Take
  PROVE  Implements
<1>1. reply # None /\ reply' = None /\ UNCHANGED <<stream, call, stack, dest>>
  BY DEF Take
<1>2. CallInv'
  BY <1>1 DEF Inv, CallInv, PageCall, Part, Origin
<1>3. call = None
  BY <1>1 DEF Inv, CallInv
<1>4. stack = <<>>
  BY <1>3 DEF Inv, CallInv
<1>5. StackInv'
  BY <1>1, <1>4 DEF StackInv
<1>6. Store!Take
  BY <1>1 DEF Store!Take
<1>7. Store!Next
  BY <1>6 DEF Store!Next
<1> QED
  BY <1>2, <1>5, <1>7 DEF Implements, Inv

-----------------------------------------------------------------------------

LEMMA Initially ==
  ASSUME Init
  PROVE  Inv /\ Store!Init
<1>1. /\ stream = [s \in Streams |-> None] /\ call = None /\ stack = <<>> /\ dest = <<>>
      /\ reply = None
  BY DEF Init
<1>2. Inv
  BY <1>1 DEF Inv, CallInv, StackInv
<1>3. Store!Init
  BY <1>1 DEF Store!Init
<1> QED
  BY <1>2, <1>3

LEMMA EveryStep ==
  ASSUME Careful, Inv, [Next]_vars
  PROVE  Inv' /\ (Store!Next \/ UNCHANGED <<Seen, reply>>)
<1>1. CASE Operation
  <2>1. ASSUME NEW s \in Streams, NEW n \in Nodes, Open(s, n)
        PROVE  Implements
    BY <2>1, OpenStep
  <2>2. ASSUME NEW s \in Streams, NEW count \in Counts, StreamRead(s, count)
        PROVE  Implements
    BY <2>2, StreamReadStep
  <2>3. ASSUME NEW s \in Streams, NEW off \in Offsets, NEW way \in Ways, Seek(s, off, way)
        PROVE  Implements
    BY <2>3, SeekStep
  <2>4. ASSUME NEW n \in Nodes, NEW count \in Counts, NEW offset \in Offsets \cap Nat,
               NEW op \in {"buffer", "value"}, Read(n, op, count, offset)
        PROVE  Implements
    BY <2>4, ReadStep
  <2>5. ASSUME NEW n \in Nodes, NEW count \in Counts, NEW offset \in Offsets \cap Nat,
               NEW op \in {"page_buffer", "page_value"}, NEW page \in PageNums,
               ReadPage(n, op, page, count, offset)
        PROVE  Implements
    BY <2>5, ReadPageStep
  <2> QED
    BY <1>1, <2>1, <2>2, <2>3, <2>4, <2>5 DEF Operation, Implements
<1>2. CASE Enter
  BY <1>2, EnterStep DEF Implements
<1>3. CASE DescendToPage
  BY <1>3, DescendStep DEF Implements
<1>4. CASE AtPage
  BY <1>4, AtPageStep DEF Implements
<1>5. CASE Copy
  BY <1>5, CopyStep DEF Implements
<1>6. CASE Loop
  BY <1>6, LoopStep DEF Implements
<1>7. CASE LoopEnds
  BY <1>7, LoopEndsStep DEF Implements
<1>8. CASE Take
  BY <1>8, TakeStep DEF Implements
<1>9. CASE UNCHANGED vars
  <2>1. UNCHANGED <<stream, call, stack, dest, reply>>
    BY <1>9 DEF vars
  <2>2. CallInv'
    BY <2>1 DEF Inv, CallInv, PageCall, Part, Origin
  <2>3. StackInv'
    BY <2>1 DEF Inv, StackInv, FrameInv, PageFrame, RawFrame, FirstFrame, NextFrame, Place,
                Origin, Wanted, ArraySize, Array, PageCall
  <2> QED
    BY <2>1, <2>2, <2>3 DEF Inv, Seen
<1> QED
  BY <1>1, <1>2, <1>3, <1>4, <1>5, <1>6, <1>7, <1>8, <1>9 DEF Next, Step

\* What BufferInStep says of the buffer and of each call follows from where
\* the calls are.
LEMMA InvImpliesBufferInStep ==
  ASSUME Inv
  PROVE  BufferInStep
<1>1. ASSUME call # None, PageCall => Array \in Pages
      PROVE  Origin \in Nat /\ Wanted \in Int /\ Wanted <= call.count
  <2>1. Origin \in Nat /\ ArraySize \in Int
    BY <1>1, ArrayIs
  <2>2. call.offset \in Nat /\ call.count \in Nat
    BY <1>1, ProgramAssumption DEF Inv, CallInv
  <2> QED
    BY <2>1, <2>2 DEF Wanted, Smaller
<1>2. ASSUME call # None
      PROVE  Len(dest) <= call.count
  <2>1. call.count \in Nat /\ Len(dest) \in Nat
    BY <1>2, ProgramAssumption DEF Inv, CallInv
  <2>2. CASE dest = <<>>
    BY <2>1, <2>2
  <2>3. CASE dest # <<>>
    <3>1. stack # <<>>
      BY <1>2, <2>3 DEF Inv, CallInv
    <3>2. /\ Top = stack[Len(stack)] /\ FrameInv(Len(stack)) /\ Top \in AnyFrame
          /\ Top.block.first \in Nat /\ Top.offset \in Nat /\ Top.size \in Nat
      BY <3>1, TopFrame
    <3>3. Top.task = "raw"
      BY <2>3, <3>2 DEF AnyFrame, FrameInv, PageFrame
    <3>4. Place(Top) = Origin + Len(dest) /\ Place(Top) + Top.size <= Origin + Wanted
      BY <3>2, <3>3 DEF FrameInv, RawFrame
    <3>5. Origin \in Nat /\ Wanted \in Int /\ Wanted <= call.count
      BY <1>1, <1>2, <3>1, <3>3, FirstIsRaw
    <3> QED
      BY <2>1, <3>2, <3>4, <3>5
  <2> QED
    BY <2>2, <2>3
<1>3. ASSUME NEW d \in DOMAIN stack, stack[d].task = "raw"
      PROVE  /\ stack[d].offset + stack[d].size <= TotalSize(stack[d].block)
             /\ stack[d].read + stack[d].size <= IF d = 1 THEN call.count ELSE stack[d - 1].size
             /\ d = Len(stack) =>
                  stack[d].block.first + stack[d].offset = Origin + Len(dest)
  <2>1. d \in 1..Len(stack) /\ FrameInv(d) /\ stack # <<>>
    BY DEF Inv, StackInv
  <2>2. /\ RawFrame(stack[d]) /\ (d = 1 => FirstFrame(stack[d]))
        /\ d > 1 => NextFrame(stack[d], stack[d - 1])
        /\ d = Len(stack) => Place(stack[d]) = Origin + Len(dest)
    BY <1>3, <2>1 DEF FrameInv
  <2>3. call # None
    BY <2>1, TopFrame
  <2>4. CASE d = 1
    <3>1. PageCall => Array \in Pages
      BY <2>2, <2>4 DEF FirstFrame
    <3> QED
      BY <1>1, <2>2, <2>3, <2>4, <3>1 DEF RawFrame, FirstFrame, Place
  <2>5. CASE d # 1
    <3>1. d > 1
      BY <2>1, <2>5
    <3> QED
      BY <2>2, <2>5, <3>1 DEF RawFrame, NextFrame, Place
  <2> QED
    BY <2>4, <2>5
<1>4. ASSUME NEW d \in DOMAIN stack, stack[d].task = "page",
             <<call.node, call.page>> \in Pages
      PROVE  PageAhead(stack[d])
  <2>1. d = Len(stack) /\ stack # <<>> /\ PageFrame(stack[d])
    BY <1>4 DEF Inv, StackInv, FrameInv, PageFrame
  <2>2. Top = stack[d] /\ Top.task = "page"
    BY <1>4, <2>1 DEF Top
  <2>3. /\ call.page \in Nat /\ Top.block \in AnyBlock /\ Top.block.node = call.node
        /\ Top.block.first <= Size[call.node] /\ Top.offset \in Nat
        /\ Top.block.first + Top.offset * PageMax = call.page * PageMax
        /\ \/ Top.block = Root(call.node)
           \/ /\ Top.block.first < Size[call.node]
              /\ Top.offset * PageMax < MaxSize(Top.block.level)
    BY <2>1, <2>2, TopPage
  <2>4. call.node \in Nodes
    BY <2>3 DEF AnyBlock
  <2> QED
    BY <1>4, <2>2, <2>3, <2>4, PageIsAhead DEF PageAhead
<1> QED
  BY <1>2, <1>3, <1>4 DEF BufferInStep

\* The tree of blocks below a node delivers the bytes of the node in order and
\* once each, to streams, buffers, values and pages: data_block::read,
\* get_page, read_raw and node_stream_device implement arrays of bytes.
THEOREM NodeIsBytes ==
  ASSUME Careful
  PROVE  Spec => IsByteStore
<1>1. Init => Inv /\ Store!Init
  BY Initially
<1>2. Inv /\ [Next]_vars => Inv'
  BY EveryStep
<1>3. Inv /\ [Next]_vars => [Store!Next]_<<Seen, reply>>
  BY EveryStep
<1> QED
  BY <1>1, <1>2, <1>3, PTL DEF Spec, IsByteStore, Store!Spec, Store!vars, Seen

\* The caller's buffer is never overrun, and the nested calls of read_raw agree
\* on where in the node they are and on how much each has to read.
THEOREM BufferStaysInStep ==
  ASSUME Careful
  PROVE  Spec => []BufferInStep
<1>1. Init => Inv
  BY Initially
<1>2. Inv /\ [Next]_vars => Inv'
  BY EveryStep
<1>3. Inv => BufferInStep
  BY InvImpliesBufferInStep
<1> QED
  BY <1>1, <1>2, <1>3, PTL DEF Spec
-----------------------------------------------------------------------------
(***************************************************************************)
(* Types.  Blocks begin at a multiple of their size, as children are all   *)
(* full but the last.                                                      *)
(***************************************************************************)

LEMMA Multiple ==
  ASSUME NEW m \in Nat \ {0}, NEW k \in Nat
  PROVE  k * m \in Nat /\ (k * m) % m = 0
<1> DEFINE t == k * m
           q == t \div m
           r == t % m
<1>1. t \in Nat
  OBVIOUS
<1>2. q \in Nat /\ r \in Nat /\ r < m /\ t = q * m + r
  BY <1>1, Quotient
<1>3. t = k * m
  OBVIOUS
<1> HIDE DEF t, q, r
<1>4. ~(k > q)
  <2>1. k > q => k * m >= (q + 1) * m
    BY <1>2
  <2> QED
    BY <1>2, <1>3, <2>1
<1>5. ~(k < q)
  <2>1. k < q => q * m >= (k + 1) * m
    BY <1>2
  <2> QED
    BY <1>2, <1>3, <2>1
<1>6. k = q
  BY <1>2, <1>4, <1>5
<1>7. r = 0
  BY <1>1, <1>2, <1>3, <1>6
<1> QED
  BY <1>7 DEF r, t

LEMMA BlockIs ==
  ASSUME NEW b
  PROVE  b \in Blocks <=>
           /\ b.node \in Nodes /\ b.level \in 0..Level[b.node] /\ b.first \in 0..Size[b.node]
           /\ b = [node |-> b.node, level |-> b.level, first |-> b.first]
           /\ b.first % MaxSize(b.level) = 0
           /\ b = Root(b.node) \/ b.first < Size[b.node]
BY DEF Blocks

LEMMA BlockIsAny ==
  ASSUME NEW b \in Blocks
  PROVE  b \in AnyBlock /\ b.first <= Size[b.node]
<1>1. /\ b.node \in Nodes /\ b.level \in 0..Level[b.node] /\ b.first \in 0..Size[b.node]
      /\ b = [node |-> b.node, level |-> b.level, first |-> b.first]
  BY BlockIs
<1>2. Level[b.node] \in 0..2 /\ Size[b.node] \in Nat
  BY <1>1, NodeSizes
<1> QED
  BY <1>1, <1>2 DEF AnyBlock

LEMMA RootIsBlock ==
  ASSUME NEW n \in Nodes
  PROVE  Root(n) \in Blocks
<1>1. /\ Level[n] \in 0..2 /\ Size[n] \in Nat
      /\ Root(n).node = n /\ Root(n).first = 0 /\ Root(n).level = Level[n]
      /\ Root(n) = [node |-> n, level |-> Level[n], first |-> 0]
  BY NodeSizes DEF Root
<1>2. MaxSize(Level[n]) \in Nat \ {0}
  BY <1>1, MaxSizes
<1>3. 0 % MaxSize(Level[n]) = 0
  BY <1>2, Multiple, 0 * MaxSize(Level[n]) = 0
<1> QED
  BY <1>1, <1>3, BlockIs

LEMMA ChildIsBlock ==
  ASSUME NEW b \in Blocks, b.level > 0, NEW i \in Nat, i < NumChildren(b)
  PROVE  ChildOf(b, i) \in Blocks
<1> DEFINE c == ChildOf(b, i)
           m == ChildMaxSize(b)
<1>1. /\ b.node \in Nodes /\ b.level \in 1..Level[b.node] /\ b.first \in Nat
      /\ b.first % MaxSize(b.level) = 0
      /\ Level[b.node] \in 0..2 /\ Size[b.node] \in Nat
  BY BlockIs, NodeSizes
<1>2. b \in AnyBlock /\ b.first <= Size[b.node]
  BY BlockIsAny
<1>3. /\ c \in AnyBlock /\ c.node = b.node /\ c.level = b.level - 1
      /\ c.first = b.first + i * m /\ c.first < Size[b.node] /\ m \in Nat \ {0}
  BY <1>2, ChildSize
<1>4. /\ m = MaxSize(c.level) /\ MaxCount \in Nat \ {0}
      /\ MaxSize(b.level) = m * MaxCount /\ MaxSize(b.level) \in Nat \ {0}
  <2>1. m = MaxSize(b.level - 1) /\ c.level = b.level - 1 /\ MaxCount \in Nat \ {0}
    BY <1>3, MaxSizes DEF ChildMaxSize
  <2>2. CASE b.level = 1
    <3>1. b.level - 1 = 0
      BY <2>2
    <3> QED
      BY <2>1, <2>2, <3>1, MaxSizes
  <2>3. CASE b.level = 2
    <3>1. b.level - 1 = 1
      BY <2>3
    <3> QED
      BY <2>1, <2>3, <3>1, MaxSizes
  <2> QED
    BY <1>1, <2>2, <2>3
<1> DEFINE q == b.first \div MaxSize(b.level)
<1>5. q \in Nat /\ b.first = q * MaxSize(b.level)
  BY <1>1, <1>4, Quotient
<1>6. c = [node |-> c.node, level |-> c.level, first |-> c.first]
  BY <1>3 DEF AnyBlock
<1> HIDE DEF c, m, q
<1>7. b.first + i * m = (q * MaxCount + i) * m
  BY <1>3, <1>4, <1>5
<1>8. q * MaxCount + i \in Nat
  BY <1>4, <1>5
<1>9. c.first % MaxSize(c.level) = 0 /\ c.first \in Nat
  BY <1>3, <1>4, <1>7, <1>8, Multiple
<1>10. c.level \in 0..Level[c.node] /\ c.first \in 0..Size[c.node] /\ c.first < Size[c.node]
  BY <1>1, <1>3, <1>9
<1>11. c \in Blocks
  BY <1>1, <1>3, <1>6, <1>9, <1>10, BlockIs
<1> QED
  BY <1>11 DEF c

GoodFrame(f) ==
  /\ f.block \in Blocks
  /\ f.task = "page" => f.offset \in 0..UintMax /\ f.size = 0 /\ f.read = 0

Reply == [kind : {"value", "out_of_range", "failed"}, bytes : Seq(Nat)]

\* What Inv does not say of types.
TypeInv ==
  /\ loaded \subseteq Blocks
  /\ call \in Call \cup {None}
  /\ \A d \in 1..Len(stack) : GoodFrame(stack[d])
  /\ reply \in Reply \cup {None}

Typed(stack1, reply1) ==
  /\ \A d \in 1..Len(stack1) : GoodFrame(stack1[d])
  /\ reply1 \in Reply \cup {None}

\* What the operation in progress has read.
LEMMA DestIsBytes ==
  ASSUME Inv
  PROVE  dest \in Seq(Nat)
<1>1. CASE dest = <<>>
  BY <1>1
<1>2. CASE dest # <<>>
  <2>1. call # None /\ stack # <<>> /\ Len(dest) \in Nat /\ dest = Part(Len(dest))
    BY <1>2 DEF Inv, CallInv
  <2>2. call.offset \in Nat /\ (PageCall => call.page \in Nat) /\ PageMax \in Nat
    BY <2>1, MaxSizes DEF Inv, CallInv
  <2>3. PageCall => call.page * PageMax \in Nat
    BY <2>2
  <2>4. Origin \in Nat
    BY <2>2, <2>3 DEF Origin, PageCall
  <2> QED
    BY <2>1, <2>4, PartIsSeq DEF Part
<1> QED
  BY <1>1, <1>2

LEMMA CopiedIsBytes ==
  ASSUME Inv, stack # <<>>, Top.task = "raw"
  PROVE  Copied(Top) \in Seq(Nat)
<1>1. /\ Top.block.first \in Nat /\ Top.offset \in Nat /\ Top.size \in Nat
      /\ TotalSize(Top.block) \in Nat
      /\ Top.offset + Top.size <= TotalSize(Top.block)
  BY TopFrame DEF FrameInv, RawFrame
<1>2. Copied(Top) = [i \in 1..Top.size |-> Place(Top) + i - 1]
  BY <1>1 DEF Copied, Place
<1>3. Place(Top) \in Nat
  BY <1>1 DEF Place
<1> QED
  BY <1>1, <1>2, <1>3, PartIsSeq

LEMMA FinishTyped ==
  ASSUME NEW kind \in {"value", "out_of_range", "failed"}, NEW bytes \in Seq(Nat),
         Finish(kind, bytes)
  PROVE  Typed(stack', reply') /\ call' = None
BY DEF Finish, Typed, Reply

LEMMA PushTyped ==
  ASSUME Inv, TypeInv, NEW frames, frames = <<>> \/ frames = stack,
         NEW f, GoodFrame(f), Push(frames, f)
  PROVE  Typed(stack', reply') /\ call' = call
<1> DEFINE S == AnyFrame \cup {f}
<1>1. stack \in Seq(AnyFrame)
  BY DEF Inv, StackInv
<1>2. frames \in Seq(S) /\ f \in S /\ \A d \in 1..Len(frames) : GoodFrame(frames[d])
  <2>1. stack \in Seq(S) /\ <<>> \in Seq(S) /\ 1..Len(<<>>) = {}
    BY <1>1
  <2>2. \A d \in 1..Len(stack) : GoodFrame(stack[d])
    BY DEF TypeInv
  <2> HIDE DEF S
  <2>3. frames \in Seq(S) /\ \A d \in 1..Len(frames) : GoodFrame(frames[d])
    BY <2>1, <2>2
  <2> QED
    BY <2>3 DEF S
<1>3. stack' = Append(frames, f) /\ reply' = reply /\ call' = call
  BY DEF Push
<1> HIDE DEF S
<1>4. /\ Len(stack') = Len(frames) + 1 /\ stack'[Len(frames) + 1] = f
      /\ \A d \in 1..Len(frames) : stack'[d] = frames[d]
      /\ Len(frames) \in Nat
  BY <1>2, <1>3
<1>5. \A d \in 1..Len(stack') : d \in 1..Len(frames) \/ d = Len(frames) + 1
  BY <1>4
<1>6. \A d \in 1..Len(stack') : GoodFrame(stack'[d])
  BY <1>2, <1>4, <1>5
<1> QED
  BY <1>3, <1>6 DEF Typed, TypeInv

LEMMA LeaveTyped ==
  ASSUME Inv, TypeInv, stack # <<>>, Top.task = "raw", NEW bytes \in Seq(Nat), Leave(bytes)
  PROVE  Typed(stack', reply') /\ call' \in {call, None}
<1>1. dest \o bytes \in Seq(Nat)
  BY DestIsBytes
<1>2. CASE Len(stack) = 1
  BY <1>1, <1>2, FinishTyped DEF Leave
<1>3. CASE Len(stack) # 1
  <2> DEFINE n == Len(stack)
             caller == stack[n - 1]
             g == [caller EXCEPT !.offset = @ + Top.read + Len(bytes),
                                 !.size = @ - Top.read - Len(bytes),
                                 !.read = @ + Top.read + Len(bytes)]
  <2>1. stack \in Seq(AnyFrame) /\ n \in Nat /\ n > 1 /\ caller \in AnyFrame
    <3>1. stack \in Seq(AnyFrame) /\ n \in Nat \ {0} /\ n # 1
      BY <1>3, TopFrame DEF Inv, StackInv
    <3> HIDE DEF n
    <3>2. n \in Nat /\ n > 1 /\ n - 1 \in 1..n
      BY <3>1
    <3>3. stack[n - 1] \in AnyFrame
      BY <3>1, <3>2 DEF n
    <3> QED
      BY <3>1, <3>2, <3>3
  <2>2. caller.task = "raw"
    BY <2>1, TopFrame DEF FrameInv, NextFrame
  <2>3. g.task = "raw" /\ g.block = caller.block
    BY <2>1, <2>2 DEF AnyFrame
  <2>4. Below \in Seq(AnyFrame) /\ Len(Below) = n - 1 /\ \A d \in 1..(n - 1) : Below[d] = stack[d]
    BY <2>1, AllButLast DEF Below
  <2>5. stack' = [Below EXCEPT ![n - 1] = g] /\ reply' = reply /\ call' = call
    <3>1. Len(Below) = n - 1 /\ n - 1 \in 1..(n - 1) /\ Below[n - 1] = caller
      BY <2>1, <2>4
    <3>2. /\ stack' = [Below EXCEPT ![Len(Below)].offset = @ + Top.read + Len(bytes),
                                    ![Len(Below)].size = @ - Top.read - Len(bytes),
                                    ![Len(Below)].read = @ + Top.read + Len(bytes)]
          /\ UNCHANGED <<call, reply>>
      BY <1>3 DEF Leave
    <3>3. /\ stack' = [Below EXCEPT ![n - 1].offset = @ + Top.read + Len(bytes),
                                    ![n - 1].size = @ - Top.read - Len(bytes),
                                    ![n - 1].read = @ + Top.read + Len(bytes)]
      BY <3>1, <3>2
    <3>4. [Below EXCEPT ![n - 1].offset = @ + Top.read + Len(bytes),
                        ![n - 1].size = @ - Top.read - Len(bytes),
                        ![n - 1].read = @ + Top.read + Len(bytes)]
            = [Below EXCEPT ![n - 1] = g]
      BY <2>1, <2>4, <3>1
    <3> QED
      BY <3>2, <3>3, <3>4
  <2>6. \A d \in 1..n : GoodFrame(stack[d])
    BY DEF TypeInv
  <2>7. GoodFrame(g)
    BY <2>1, <2>3, <2>6 DEF GoodFrame
  <2> HIDE DEF g, n
  <2>8. \A d \in 1..Len(stack') : GoodFrame(stack'[d])
    BY <2>1, <2>4, <2>5, <2>6, <2>7
  <2> QED
    BY <2>5, <2>8 DEF Typed, TypeInv
<1> QED
  BY <1>2, <1>3

LEMMA CutIsFrame ==
  ASSUME NEW b \in Blocks, NEW size \in Nat, NEW offset \in Nat
  PROVE  GoodFrame(Raw(b, size, offset))
BY DEF GoodFrame, Raw

LEMMA CheckedTyped ==
  ASSUME Inv, TypeInv, call # None, NEW b \in Blocks, NEW whole \in BOOLEAN, Checked(b, whole)
  PROVE  Typed(stack', reply') /\ call' \in {call, None}
<1>1. call.count \in Nat /\ call.offset \in Nat
  BY ProgramAssumption DEF Inv, CallInv
<1>2. <<>> \in Seq(Nat)
  OBVIOUS
<1>3. CASE Finish("value", <<>>) \/ Finish("out_of_range", <<>>)
  BY <1>2, <1>3, FinishTyped
<1>4. CASE Push(<<>>, Raw(b, call.count, call.offset))
  BY <1>1, <1>4, CutIsFrame, PushTyped
<1> QED
  BY <1>3, <1>4 DEF Checked

LEMMA ThrowTyped ==
  ASSUME NEW kind \in {"out_of_range", "failed"}, Finish(kind, <<>>)
  PROVE  Typed(stack', reply') /\ call' = None
<1>1. <<>> \in Seq(Nat)
  OBVIOUS
<1> QED
  BY <1>1, FinishTyped

LEMMA AllTyped ==
  ASSUME TypeInv, loaded' \subseteq Blocks, Typed(stack', reply'), call' \in Call \cup {None}
  PROVE  TypeInv'
BY DEF TypeInv, Typed

LEMMA EnterTyped ==
  ASSUME Inv, TypeInv, Enter
  PROVE  TypeInv'
<1> DEFINE b == Root(call.node)
<1>1. /\ call # None /\ stack = <<>> /\ call \in Call
      /\ call.node \in Nodes /\ call.offset \in Nat /\ call.count \in Nat
      /\ call.op \in {"stream", "buffer", "value", "page_buffer", "page_value"}
  BY ProgramAssumption DEF Enter, Inv, CallInv, TypeInv
<1>2. b \in Blocks
  BY <1>1, RootIsBlock
<1>3. /\ loaded' = loaded \/ loaded' = loaded \cup {b}
      /\ \/ Finish("failed", <<>>)
         \/ CASE call.op = "stream" -> Push(<<>>, Raw(b, call.count, call.offset))
              [] call.op \in {"buffer", "value"} -> Checked(b, call.op = "value")
              [] OTHER -> Push(<<>>, Page(b, call.page))
  BY DEF Enter, Fetch
<1> HIDE DEF b
<1>4. loaded' \subseteq Blocks
  BY <1>2, <1>3 DEF TypeInv
<1>5. Typed(stack', reply') /\ call' \in {call, None}
  <2>1. CASE Finish("failed", <<>>)
    BY <2>1, ThrowTyped
  <2>2. CASE call.op = "stream" /\ Push(<<>>, Raw(b, call.count, call.offset))
    BY <1>1, <1>2, <2>2, CutIsFrame, PushTyped
  <2>3. CASE call.op \in {"buffer", "value"} /\ Checked(b, call.op = "value")
    BY <1>1, <1>2, <2>3, CheckedTyped
  <2>4. CASE call.op \in {"page_buffer", "page_value"} /\ Push(<<>>, Page(b, call.page))
    <3>1. call.page \in PageNums
      BY <1>1, <2>4 DEF Call
    <3>2. call.page \in 0..UintMax
      BY <3>1, ProgramAssumption
    <3>3. GoodFrame(Page(b, call.page))
      BY <1>2, <3>2 DEF GoodFrame, Page
    <3> QED
      BY <2>4, <3>3, PushTyped
  <2> QED
    BY <1>1, <1>3, <2>1, <2>2, <2>3, <2>4
<1> QED
  BY <1>1, <1>4, <1>5, AllTyped

\* The child that a frame calls is read, or it is not there.
LEMMA ChildTyped ==
  ASSUME Inv, TypeInv, stack # <<>>, Top.block.level > 0,
         NEW i \in Nat, NEW Then \in BOOLEAN, Child(i, Then),
         ChildOf(Top.block, i) \in Blocks /\ Then => Typed(stack', reply') /\ call' = call
  PROVE  TypeInv'
<1>1. /\ call # None /\ call \in Call /\ Top.block \in Blocks
      /\ NumChildren(Top.block) \in Nat
  <2>1. Len(stack) \in Nat \ {0} /\ Top = stack[Len(stack)] /\ call # None
    BY TopFrame
  <2>2. Top.block \in Blocks
    BY <2>1 DEF TypeInv, GoodFrame
  <2> QED
    BY <2>1, <2>2, BlockIsAny, ChildCounts DEF TypeInv
<1>2. CASE Finish("out_of_range", <<>>) /\ UNCHANGED loaded
  BY <1>2, ThrowTyped, AllTyped DEF TypeInv
<1>3. CASE Finish("failed", <<>>) /\ UNCHANGED loaded
  BY <1>3, ThrowTyped, AllTyped DEF TypeInv
<1>4. CASE ~(i >= NumChildren(Top.block)) /\ Then /\ loaded' = loaded \cup {ChildOf(Top.block, i)}
  <2>1. ChildOf(Top.block, i) \in Blocks
    BY <1>1, <1>4, ChildIsBlock
  <2>2. loaded' \subseteq Blocks
    BY <1>4, <2>1 DEF TypeInv
  <2> QED
    BY <1>1, <1>4, <2>1, <2>2, AllTyped
<1> QED
  BY <1>2, <1>3, <1>4 DEF Child, Fetch

LEMMA LoopTyped ==
  ASSUME Inv, TypeInv, Loop
  PROVE  TypeInv'
<1> DEFINE i == Top.offset \div ChildMaxSize(Top.block)
           f == Raw(ChildOf(Top.block, i), Top.size, Top.offset % ChildMaxSize(Top.block))
<1>1. /\ stack # <<>> /\ Top.task = "raw" /\ Top.block.level > 0
      /\ Child(i, Push(stack, f))
  BY DEF Loop, Running
<1>2. /\ Top.offset \in Nat /\ Top.size \in Nat /\ Top.block \in AnyBlock
      /\ Top.block.first <= Size[Top.block.node]
  BY <1>1, TopFrame
<1>3. i \in Nat /\ Top.offset % ChildMaxSize(Top.block) \in Nat
  BY <1>1, <1>2, ChildCounts, Quotient
<1>4. ASSUME ChildOf(Top.block, i) \in Blocks, Push(stack, f)
      PROVE  Typed(stack', reply') /\ call' = call
  BY <1>2, <1>3, <1>4, CutIsFrame, PushTyped
<1> DEFINE Then == Push(stack, f)
<1>5. Then \in BOOLEAN
  BY DEF Push
<1>6. Child(i, Then) /\ (ChildOf(Top.block, i) \in Blocks /\ Then => Typed(stack', reply') /\ call' = call)
  BY <1>1, <1>4
<1> HIDE DEF i, Then
<1> QED
  BY <1>1, <1>3, <1>5, <1>6, ChildTyped

LEMMA DescendTyped ==
  ASSUME Inv, TypeInv, DescendToPage
  PROVE  TypeInv'
<1> DEFINE b == Top.block
           c == ChildMaxPages(b)
           i == Top.offset \div c
           f == Page(ChildOf(b, i), Top.offset % c)
<1>1. /\ stack # <<>> /\ Top.task = "page" /\ b.level > 0
      /\ Child(i, Push(Below, f))
  BY DEF DescendToPage, Running
<1>2. Below = <<>> /\ Top.offset \in Nat
  BY <1>1, TopPage
<1>3. Top.offset \in 0..UintMax /\ UintMax \in Nat
  <2>1. Len(stack) \in Nat \ {0} /\ Top = stack[Len(stack)]
    BY <1>1, TopFrame
  <2> QED
    BY <1>1, <2>1, ProgramAssumption DEF TypeInv, GoodFrame
<1>4. c \in Nat \ {0}
  BY MaxSizes DEF ChildMaxPages
<1> HIDE DEF c
<1>5. i \in Nat /\ Top.offset % c \in Nat /\ Top.offset = (i * c) + (Top.offset % c)
  BY <1>2, <1>4, Quotient
<1>6. i * c \in Nat
  BY <1>4, <1>5
<1>7. Top.offset % c \in 0..UintMax
  <2> DEFINE ic == i * c
             r == Top.offset % c
  <2>1. ic \in Nat /\ r \in Nat /\ Top.offset = ic + r
    BY <1>5, <1>6
  <2> HIDE DEF ic, r
  <2>2. r \in 0..UintMax
    BY <1>3, <2>1
  <2> QED
    BY <2>2 DEF r
<1>8. ASSUME ChildOf(b, i) \in Blocks, Push(Below, f)
      PROVE  Typed(stack', reply') /\ call' = call
  <2>1. GoodFrame(f)
    BY <1>7, <1>8 DEF GoodFrame, Page
  <2> QED
    BY <1>2, <1>8, <2>1, PushTyped
<1> DEFINE Then == Push(Below, f)
<1>9. Then \in BOOLEAN
  BY DEF Push
<1>10. Child(i, Then) /\ (ChildOf(b, i) \in Blocks /\ Then => Typed(stack', reply') /\ call' = call)
  BY <1>1, <1>8
<1> HIDE DEF i, Then
<1> QED
  BY <1>1, <1>5, <1>9, <1>10, ChildTyped

LEMMA AtPageTyped ==
  ASSUME Inv, TypeInv, AtPage
  PROVE  TypeInv'
<1>1. stack # <<>> /\ Top.task = "page" /\ loaded' = loaded
  BY DEF AtPage, Running
<1>2. /\ call # None /\ call \in Call /\ Top.block \in Blocks
  <2>1. Len(stack) \in Nat \ {0} /\ Top = stack[Len(stack)] /\ call # None
    BY <1>1, TopFrame
  <2> QED
    BY <2>1 DEF TypeInv, GoodFrame
<1>3. Finish("out_of_range", <<>>) \/ Checked(Top.block, call.op = "page_value")
  BY DEF AtPage
<1>4. Typed(stack', reply') /\ call' \in {call, None}
  <2>1. (call.op = "page_value") \in BOOLEAN
    OBVIOUS
  <2> QED
    BY <1>2, <1>3, <2>1, ThrowTyped, CheckedTyped
<1> QED
  BY <1>1, <1>2, <1>4, AllTyped DEF TypeInv

LEMMA ReturnTyped ==
  ASSUME Inv, TypeInv, Copy \/ LoopEnds
  PROVE  TypeInv'
<1>1. stack # <<>> /\ Top.task = "raw" /\ loaded' = loaded
      /\ (Leave(Copied(Top)) \/ Leave(<<>>))
  BY DEF Copy, LoopEnds, Running
<1>2. call \in Call
  BY <1>1, TopFrame DEF TypeInv
<1>3. <<>> \in Seq(Nat) /\ Copied(Top) \in Seq(Nat)
  BY <1>1, CopiedIsBytes
<1>4. Typed(stack', reply') /\ call' \in {call, None}
  BY <1>1, <1>3, LeaveTyped
<1> QED
  BY <1>1, <1>2, <1>4, AllTyped DEF TypeInv

LEMMA StartTyped ==
  ASSUME TypeInv, NEW c \in Call, Start(c)
  PROVE  TypeInv'
BY DEF Start, TypeInv, GoodFrame

LEMMA OperationTyped ==
  ASSUME Inv, TypeInv, Operation
  PROVE  TypeInv'
<1>1. ASSUME NEW s \in Streams, NEW n \in Nodes, Open(s, n)
      PROVE  TypeInv'
  BY <1>1 DEF Open, TypeInv, GoodFrame
<1>2. ASSUME NEW s \in Streams, NEW count \in Counts, StreamRead(s, count)
      PROVE  TypeInv'
  <2>1. stream[s].node \in Nodes /\ stream[s].pos \in Nat
    BY <1>2 DEF StreamRead, Placed, Inv, CallInv
  <2>2. [op |-> "stream", stream |-> s, node |-> stream[s].node,
         count |-> count, offset |-> stream[s].pos] \in Call
    BY <2>1 DEF Call
  <2> QED
    BY <1>2, <2>2, StartTyped DEF StreamRead
<1>3. ASSUME NEW s \in Streams, NEW off \in Offsets, NEW way \in Ways, Seek(s, off, way)
      PROVE  TypeInv'
  <2>1. stream[s].node \in Nodes
    BY <1>3 DEF Seek, Inv, CallInv
  <2>2. Root(stream[s].node) \in Blocks
    BY <2>1, RootIsBlock
  <2>3. loaded' \in {loaded, loaded \cup {Root(stream[s].node)}}
    BY <1>3 DEF Seek
  <2>4. reply' \in {reply, [kind |-> "failed", bytes |-> <<>>]}
        /\ UNCHANGED <<call, stack>>
    BY <1>3 DEF Seek
  <2>5. loaded' \subseteq Blocks
    BY <2>2, <2>3 DEF TypeInv
  <2>6. [kind |-> "failed", bytes |-> <<>>] \in Reply
    BY DEF Reply
  <2>7. reply' \in Reply \cup {None}
    BY <2>4, <2>6 DEF TypeInv
  <2> QED
    BY <2>4, <2>5, <2>7 DEF TypeInv, GoodFrame
<1>4. ASSUME NEW n \in Nodes, NEW count \in Counts, NEW offset \in Offsets \cap Nat,
             NEW op \in {"buffer", "value"}, Read(n, op, count, offset)
      PROVE  TypeInv'
  <2>1. [op |-> op, node |-> n, count |-> count, offset |-> offset] \in Call
    BY DEF Call
  <2> QED
    BY <1>4, <2>1, StartTyped DEF Read
<1>5. ASSUME NEW n \in Nodes, NEW count \in Counts, NEW offset \in Offsets \cap Nat,
             NEW op \in {"page_buffer", "page_value"}, NEW page \in PageNums,
             ReadPage(n, op, page, count, offset)
      PROVE  TypeInv'
  <2>1. [op |-> op, node |-> n, page |-> page, count |-> count, offset |-> offset] \in Call
    BY DEF Call
  <2> QED
    BY <1>5, <2>1, StartTyped DEF ReadPage
<1> QED
  BY <1>1, <1>2, <1>3, <1>4, <1>5 DEF Operation

LEMMA EveryStepTyped ==
  ASSUME Inv, TypeInv, [Next]_vars
  PROVE  TypeInv'
<1>1. CASE Take
  BY <1>1 DEF Take, TypeInv, GoodFrame
<1>2. CASE UNCHANGED vars
  BY <1>2 DEF vars, TypeInv, GoodFrame
<1> QED
  BY <1>1, <1>2, OperationTyped, EnterTyped, DescendTyped, AtPageTyped, ReturnTyped, LoopTyped
    DEF Next, Step

\* The numbers of a frame are those of its block and of its caller.
LEMMA FramesAreTyped ==
  ASSUME Inv, TypeInv, NEW d \in 1..Len(stack)
  PROVE  stack[d] \in Frame
<1>1. stack \in Seq(AnyFrame) /\ Len(stack) \in Nat /\ FrameInv(d) /\ GoodFrame(stack[d])
  BY DEF Inv, StackInv, TypeInv
<1> DEFINE f == stack[d]
<1>2. /\ f \in AnyFrame /\ f.block \in Blocks /\ f.task \in {"raw", "page"}
      /\ f.offset \in Nat /\ f.size \in Nat /\ f.read \in Nat
  <2>1. f \in AnyFrame
    BY <1>1
  <2> HIDE DEF f
  <2> QED
    BY <1>1, <2>1 DEF AnyFrame, GoodFrame, f
<1>3. /\ TotalSize(f.block) \in Nat /\ f.block.first \in Nat
      /\ f.block.first + TotalSize(f.block) <= Size[f.block.node]
      /\ Size[f.block.node] \in Nat /\ Size[f.block.node] < UintMax /\ UintMax \in Nat
  BY <1>2, BlockIsAny, BlockSize DEF AnyBlock
<1>4. CASE f.task = "page"
  BY <1>1, <1>2, <1>3, <1>4 DEF Frame, GoodFrame, AnyFrame
<1>5. CASE f.task = "raw"
  <2>1. f.offset + f.size <= TotalSize(f.block)
    BY <1>1, <1>5 DEF FrameInv, RawFrame
  <2>2. f.offset <= UintMax /\ f.size <= UintMax
    BY <1>2, <1>3, <2>1
  <2>3. f.read <= UintMax
    <3>1. CASE d = 1
      <4>1. Place(f) = Origin + f.read /\ (PageCall => Array \in Pages)
        BY <1>1, <1>5, <3>1 DEF FrameInv, FirstFrame
      <4>2. call # None
        BY <1>1, TopFrame
      <4>3. Origin \in Nat /\ f.block.first + f.offset = Origin + f.read
        BY <4>1, <4>2, ArrayIs DEF Place
      <4> HIDE DEF f
      <4> QED
        BY <1>2, <1>3, <2>1, <4>3
    <3>2. CASE d > 1
      <4> DEFINE g == stack[d - 1]
      <4>1. d - 1 \in 1..Len(stack)
        BY <1>1, <3>2
      <4>2. g \in AnyFrame /\ FrameInv(d - 1) /\ GoodFrame(g)
        BY <1>1, <4>1 DEF Inv, StackInv, TypeInv
      <4>3. g.task = "raw" /\ f.read + f.size <= g.size
        BY <1>1, <1>5, <3>2 DEF FrameInv, NextFrame
      <4>4. g.offset + g.size <= TotalSize(g.block) /\ g.block \in Blocks
        BY <4>2, <4>3 DEF FrameInv, RawFrame, GoodFrame
      <4>5. /\ TotalSize(g.block) \in Nat /\ g.block.first \in Nat
            /\ g.block.first + TotalSize(g.block) <= Size[g.block.node]
            /\ Size[g.block.node] \in Nat /\ Size[g.block.node] < UintMax
        BY <4>4, BlockIsAny, BlockSize DEF AnyBlock
      <4>6. g.offset \in Nat /\ g.size \in Nat
        BY <4>2 DEF AnyFrame
      <4> HIDE DEF f, g
      <4>7. g.size < UintMax
        BY <1>3, <4>4, <4>5, <4>6
      <4> QED
        BY <1>2, <1>3, <4>3, <4>6, <4>7
    <3> QED
      BY <3>1, <3>2
  <2> QED
    BY <1>2, <1>3, <2>2, <2>3 DEF Frame, AnyFrame
<1> QED
  BY <1>2, <1>4, <1>5

LEMMA InvImpliesTypeOK ==
  ASSUME Inv, TypeInv
  PROVE  TypeOK
<1>1. stack \in Seq(AnyFrame) /\ \A d \in 1..Len(stack) : stack[d] \in Frame
  BY FramesAreTyped DEF Inv, StackInv
<1>2. stack \in Seq(Frame)
  BY <1>1
<1>3. dest \in Seq(Nat)
  BY DestIsBytes
<1> QED
  BY <1>2, <1>3 DEF TypeOK, TypeInv, Inv, CallInv, Reply

\* Every block that is read or walked through is one of the store, at a multiple
\* of the size of its level, and the offsets, sizes and counts of read_raw and
\* get_page are in the range of size_t: no subtraction in them wraps.
THEOREM TypeCorrect ==
  ASSUME Careful
  PROVE  Spec => []TypeOK
<1>1. Init => Inv /\ TypeInv
  BY Initially DEF Init, TypeInv
<1>2. Inv /\ TypeInv /\ [Next]_vars => (Inv /\ TypeInv)'
  BY EveryStep, EveryStepTyped
<1>3. Inv /\ TypeInv => TypeOK
  BY InvImpliesTypeOK
<1> QED
  BY <1>1, <1>2, <1>3, PTL DEF Spec
-----------------------------------------------------------------------------
(***************************************************************************)
(* A read runs down.                                                       *)
(***************************************************************************)

\* A frame that read_raw has called for a child had something to read, and below
\* the children there is nothing that would read in turns.
Fed ==
  \A d \in 1..Len(stack) :
    /\ stack[d].block.level = 0 => stack[d].read = 0
    /\ d > 1 => /\ stack[d].block.level < stack[d - 1].block.level
                /\ stack[d].read + stack[d].size > 0

\* Between one byte and the next the calls come down, by pages and then by bytes,
\* to a block of the lowest level; when they go up first, it is from blocks that are
\* done to one that is not.
TurnOf(f) ==
  IF f.task = "page" THEN 6 + f.block.level
  ELSE IF f.block.level > 0 /\ f.size = 0 THEN 11 - f.block.level
  ELSE 3 + f.block.level
Turn(frames) == IF frames = <<>> THEN 12 ELSE TurnOf(frames[Len(frames)])

Nearer ==
  /\ call' = call
  /\ \/ Len(dest) < Len(dest') /\ Len(dest') <= call.count
     \/ /\ dest' = dest
        /\ Turn(stack) \in Nat /\ Turn(stack') \in Nat /\ Turn(stack') < Turn(stack)

LEMMA Turns ==
  ASSUME NEW f, f.block \in AnyBlock
  PROVE  /\ f.block.level \in 0..2
         /\ f.task = "page" => TurnOf(f) = 6 + f.block.level
         /\ f.task = "raw" /\ f.block.level > 0 /\ f.size = 0 => TurnOf(f) = 11 - f.block.level
         /\ f.task = "raw" /\ ~(f.block.level > 0 /\ f.size = 0) => TurnOf(f) = 3 + f.block.level
BY DEF AnyBlock, TurnOf

\* The call goes on with the frame f alone,
LEMMA AloneNearer ==
  ASSUME NEW f, f.read = 0, Push(<<>>, f),
         Turn(stack) \in Nat, TurnOf(f) \in Nat, TurnOf(f) < Turn(stack)
  PROVE  Fed' /\ Nearer
<1>1. stack' = <<f>> /\ call' = call /\ dest' = dest
  <2>1. stack' = Append(<<>>, f) /\ call' = call /\ dest' = dest
    BY DEF Push
  <2> QED
    BY <2>1
<1>2. Len(stack') = 1 /\ stack'[1] = f /\ stack' # <<>>
  BY <1>1
<1>3. Fed'
  BY <1>2 DEF Fed
<1>4. Turn(stack') = TurnOf(f)
  BY <1>2 DEF Turn
<1> QED
  BY <1>1, <1>3, <1>4 DEF Nearer

\* or with f for a child.
LEMMA CalledNearer ==
  ASSUME Inv, Fed, stack # <<>>, Top.task = "raw", Top.block.level > 0, Top.size > 0,
         NEW f \in AnyFrame, f.task = "raw", f.read = 0, f.size > 0,
         f.block.level = Top.block.level - 1, Push(stack, f)
  PROVE  Fed' /\ Nearer
<1> DEFINE n == Len(stack)
<1>1. n \in Nat \ {0} /\ Top = stack[n] /\ Top.block \in AnyBlock /\ Top.size \in Nat
  BY TopFrame
<1>2. f.block \in AnyBlock /\ f.size \in Nat
  BY DEF AnyFrame
<1>3. stack' = Append(stack, f) /\ call' = call /\ dest' = dest /\ stack \in Seq(AnyFrame)
  BY DEF Push, Inv, StackInv
<1>4. /\ Len(stack') = n + 1 /\ stack'[n + 1] = f /\ stack' # <<>>
      /\ \A d \in 1..n : stack'[d] = stack[d]
  BY <1>1, <1>3
<1>5. Turn(stack) = TurnOf(Top) /\ Turn(stack') = TurnOf(f)
  BY <1>1, <1>4 DEF Turn
<1>6. Turn(stack) = 3 + Top.block.level /\ Turn(stack') = 3 + f.block.level
  BY <1>1, <1>2, <1>5, Turns
<1>7. /\ Top.block.level \in 0..2 /\ f.block.level \in 0..2
  BY <1>1, <1>2, Turns
<1>8. Nearer
  BY <1>3, <1>6, <1>7 DEF Nearer
<1>9. PICK m \in Nat : m = n
  BY <1>1
<1>10. ASSUME NEW d \in 1..m
       PROVE  /\ stack'[d] = stack[d] /\ (d > 1 => stack'[d - 1] = stack[d - 1])
              /\ d \in 1..Len(stack)
  BY <1>4, <1>9
<1>11. ASSUME NEW d \in 1..Len(stack')
       PROVE  /\ stack'[d].block.level = 0 => stack'[d].read = 0
              /\ d > 1 => /\ stack'[d].block.level < stack'[d - 1].block.level
                          /\ stack'[d].read + stack'[d].size > 0
  <2>1. d \in 1..m \/ d = m + 1
    BY <1>1, <1>4, <1>9
  <2>2. CASE d \in 1..m
    BY <1>10, <2>2 DEF Fed
  <2>3. CASE d = m + 1
    <3>1. stack'[d] = f /\ stack'[d - 1] = Top
      BY <1>1, <1>4, <1>9, <2>3
    <3> QED
      BY <1>2, <1>7, <3>1
  <2> QED
    BY <2>1, <2>2, <2>3
<1> QED
  BY <1>8, <1>11 DEF Fed

\* A frame leaves to the one that has called it.
LEMMA LeaveIs ==
  ASSUME Inv, stack # <<>>, Top.task = "raw", Len(stack) # 1,
         NEW bytes, Len(bytes) = Top.size, Leave(bytes)
  PROVE  \E m \in Nat, caller \in AnyFrame :
           /\ m = Len(stack) - 1 /\ m > 0 /\ caller = stack[m] /\ caller.task = "raw"
           /\ Len(stack') = m /\ \A d \in 1..(m - 1) : stack'[d] = stack[d]
           /\ stack'[m].task = "raw" /\ stack'[m].block = caller.block
           /\ stack'[m].size = caller.size - Top.read - Top.size
           /\ stack'[m].read = caller.read + Top.read + Top.size
           /\ dest' = dest \o bytes /\ call' = call
<1> DEFINE n == Len(stack)
           m == n - 1
           caller == stack[m]
           g == [caller EXCEPT !.offset = @ + Top.read + Len(bytes),
                               !.size = @ - Top.read - Len(bytes),
                               !.read = @ + Top.read + Len(bytes)]
<1>1. stack \in Seq(AnyFrame) /\ n \in Nat /\ n > 1 /\ FrameInv(n) /\ Top = stack[n]
  <2>1. stack \in Seq(AnyFrame) /\ n \in Nat \ {0} /\ n # 1 /\ FrameInv(n) /\ Top = stack[n]
    BY TopFrame DEF Inv, StackInv
  <2> HIDE DEF n
  <2> QED
    BY <2>1
<1>2. m \in Nat /\ m > 0 /\ m \in 1..m /\ m \in 1..n
  <2> HIDE DEF n
  <2> QED
    BY <1>1
<1>3. caller \in AnyFrame
  BY <1>1, <1>2
<1>4. caller.task = "raw"
  BY <1>1 DEF FrameInv, NextFrame
<1>5. /\ g.task = "raw" /\ g.block = caller.block
      /\ g.size = caller.size - Top.read - Top.size
      /\ g.read = caller.read + Top.read + Top.size
  BY <1>3, <1>4 DEF AnyFrame
<1>6. Below \in Seq(AnyFrame) /\ Len(Below) = m /\ \A d \in 1..m : Below[d] = stack[d]
  BY <1>1, AllButLast DEF Below
<1>7. stack' = [Below EXCEPT ![m] = g] /\ dest' = dest \o bytes /\ call' = call
  <2>1. Below[m] = caller
    BY <1>2, <1>6
  <2>2. /\ stack' = [Below EXCEPT ![Len(Below)].offset = @ + Top.read + Len(bytes),
                                  ![Len(Below)].size = @ - Top.read - Len(bytes),
                                  ![Len(Below)].read = @ + Top.read + Len(bytes)]
        /\ dest' = dest \o bytes /\ call' = call
    BY DEF Leave
  <2>3. stack' = [Below EXCEPT ![m].offset = @ + Top.read + Len(bytes),
                               ![m].size = @ - Top.read - Len(bytes),
                               ![m].read = @ + Top.read + Len(bytes)]
    BY <1>6, <2>2
  <2>4. [Below EXCEPT ![m].offset = @ + Top.read + Len(bytes),
                      ![m].size = @ - Top.read - Len(bytes),
                      ![m].read = @ + Top.read + Len(bytes)] = [Below EXCEPT ![m] = g]
    BY <1>2, <1>6, <2>1
  <2> QED
    BY <2>2, <2>3, <2>4
<1> HIDE DEF g
<1>8. /\ Len(stack') = m /\ stack'[m] = g
      /\ \A d \in 1..(m - 1) : stack'[d] = stack[d]
  <2> HIDE DEF m
  <2> QED
    BY <1>2, <1>6, <1>7
<1> QED
  BY <1>2, <1>3, <1>4, <1>5, <1>7, <1>8

LEMMA LeaveNearer ==
  ASSUME Inv, Fed, BufferInStep', stack # <<>>, Top.task = "raw",
         Top.block.level > 0 => Top.size = 0,
         NEW bytes \in Seq(Nat), Len(bytes) = Top.size, Leave(bytes)
  PROVE  Fed' /\ (call' = None \/ Nearer)
<1>1. CASE Len(stack) = 1
  <2>1. call' = None /\ stack' = <<>>
    BY <1>1 DEF Leave, Finish
  <2> QED
    BY <2>1 DEF Fed
<1>2. CASE Len(stack) # 1
  <2>1. PICK m \in Nat, caller \in AnyFrame :
           /\ m = Len(stack) - 1 /\ m > 0 /\ caller = stack[m] /\ caller.task = "raw"
           /\ Len(stack') = m /\ \A d \in 1..(m - 1) : stack'[d] = stack[d]
           /\ stack'[m].task = "raw" /\ stack'[m].block = caller.block
           /\ stack'[m].size = caller.size - Top.read - Top.size
           /\ stack'[m].read = caller.read + Top.read + Top.size
           /\ dest' = dest \o bytes /\ call' = call
    BY <1>2, LeaveIs
  <2> DEFINE g == stack'[m]
  <2>2. /\ Len(stack) \in Nat /\ Top = stack[Len(stack)] /\ Top \in AnyFrame
        /\ Top.block \in AnyBlock /\ Top.size \in Nat /\ Top.read \in Nat /\ call # None
    BY TopFrame
  <2>3. m \in 1..Len(stack) /\ Len(stack) > 1 /\ Len(stack) = m + 1
    BY <2>1, <2>2
  <2>4. /\ caller.block \in AnyBlock /\ caller.size \in Nat /\ caller.read \in Nat
    BY DEF AnyFrame
  <2>5. /\ Top.block.level = 0 => Top.read = 0
        /\ Top.block.level < caller.block.level /\ Top.read + Top.size > 0
    <3>1. Len(stack) \in 1..Len(stack) /\ Len(stack) - 1 = m
      BY <2>1, <2>2, <2>3
    <3> QED
      BY <2>1, <2>2, <2>3, <3>1 DEF Fed
  <2>6. Top.block.level \in 0..2 /\ caller.block.level \in 0..2
    BY <2>2, <2>4, Turns
  <2>7. Fed'
    <3>1. ASSUME NEW d \in 1..m
          PROVE  /\ stack'[d].block.level = 0 => stack'[d].read = 0
                 /\ d > 1 => /\ stack'[d].block.level < stack'[d - 1].block.level
                             /\ stack'[d].read + stack'[d].size > 0
      <4>1. /\ d \in 1..Len(stack) /\ d \in Nat
            /\ d > 1 => d - 1 \in 1..(m - 1)
        BY <2>3
      <4>2. d > 1 => stack'[d - 1] = stack[d - 1]
        BY <2>1, <4>1
      <4>3. CASE d # m
        <5>1. d \in 1..(m - 1)
          BY <4>1, <4>3
        <5> QED
          BY <2>1, <4>1, <4>2, <5>1 DEF Fed
      <4>4. CASE d = m
        <5>1. g.block.level # 0
          BY <2>1, <2>5, <2>6
        <5>2. d > 1 => /\ caller.block.level < stack[d - 1].block.level
                       /\ caller.read + caller.size > 0
          BY <2>1, <4>1, <4>4 DEF Fed
        <5>3. g.read + g.size = caller.read + caller.size
          <6> HIDE DEF g
          <6>1. /\ g.size = caller.size - Top.read - Top.size
                /\ g.read = caller.read + Top.read + Top.size
            BY <2>1 DEF g
          <6> QED
            BY <2>2, <2>4, <6>1
        <5> QED
          BY <2>1, <4>2, <4>4, <5>1, <5>2, <5>3
      <4> QED
        BY <4>3, <4>4
    <3> QED
      BY <2>1, <3>1 DEF Fed
  <2>8. CASE Top.size > 0
    <3>1. dest \in Seq(Nat)
      BY DestIsBytes
    <3>2. Len(dest') = Len(dest) + Top.size /\ Len(dest) \in Nat
      <4>1. Len(dest \o bytes) = Len(dest) + Len(bytes) /\ Len(dest) \in Nat
        BY <3>1
      <4> QED
        BY <2>1, <4>1
    <3>3. Len(dest') <= call.count
      BY <2>1, <2>2 DEF BufferInStep
    <3> QED
      BY <2>1, <2>2, <2>7, <2>8, <3>2, <3>3 DEF Nearer
  <2>9. CASE Top.size = 0
    <3>1. dest' = dest
      <4>1. dest \in Seq(Nat) /\ bytes = <<>>
        BY <2>9, DestIsBytes
      <4> QED
        BY <2>1, <4>1
    <3>2. Top.block.level > 0
      BY <2>2, <2>5, <2>6, <2>9
    <3>3. Turn(stack) = 11 - Top.block.level
      BY <2>2, <2>9, <3>2, Turns DEF Turn
    <3>4. stack' # <<>>
      BY <2>1
    <3>5. Turn(stack') = TurnOf(g)
      BY <2>1, <3>4 DEF Turn
    <3>6. Turn(stack') \in {3 + caller.block.level, 11 - caller.block.level}
      <4>1. g.block \in AnyBlock /\ g.task = "raw"
        BY <2>1, <2>4
      <4> QED
        BY <2>1, <3>5, <4>1, Turns
    <3>7. caller.block.level = 2 /\ Top.block.level = 1
      BY <2>5, <2>6, <3>2
    <3> QED
      BY <2>1, <2>7, <3>1, <3>3, <3>6, <3>7 DEF Nearer
  <2> QED
    BY <2>2, <2>8, <2>9
<1> QED
  BY <1>1, <1>2

\* The call of a child throws or is Then.
LEMMA ChildThrows ==
  ASSUME Inv, stack # <<>>, Top.block.level > 0, NEW i \in Nat, NEW Then, Child(i, Then)
  PROVE  \/ call' = None /\ Fed'
         \/ i < NumChildren(Top.block) /\ Then
<1>1. NumChildren(Top.block) \in Nat
  BY TopFrame, ChildCounts
<1>2. CASE Finish("out_of_range", <<>>) \/ Finish("failed", <<>>)
  BY <1>2 DEF Finish, Fed
<1> QED
  BY <1>1, <1>2 DEF Child, Fetch

LEMMA LoopNearer ==
  ASSUME Inv, Fed, Loop
  PROVE  Fed' /\ (call' = None \/ Nearer)
<1> DEFINE i == Top.offset \div ChildMaxSize(Top.block)
           f == Raw(ChildOf(Top.block, i), Top.size, Top.offset % ChildMaxSize(Top.block))
           Then == Push(stack, f)
<1>1. /\ stack # <<>> /\ Top.task = "raw" /\ Top.block.level > 0 /\ Top.size > 0
      /\ Child(i, Then)
  BY DEF Loop, Running
<1>2. i \in Nat
  BY <1>1, TopFrame, ChildCounts
<1>3. (call' = None /\ Fed') \/ (i < NumChildren(Top.block) /\ Then)
  <2> HIDE DEF i, Then
  <2> QED
    BY <1>1, <1>2, ChildThrows
<1>4. CASE i < NumChildren(Top.block) /\ Then
  BY <1>1, <1>4, ChildFrame, CalledNearer
<1> QED
  BY <1>3, <1>4

LEMMA DescendNearer ==
  ASSUME Inv, Fed, DescendToPage
  PROVE  Fed' /\ (call' = None \/ Nearer)
<1> DEFINE b == Top.block
           i == Top.offset \div ChildMaxPages(b)
           f == Page(ChildOf(b, i), Top.offset % ChildMaxPages(b))
           Then == Push(Below, f)
<1>1. stack # <<>> /\ Top.task = "page" /\ b.level > 0 /\ Child(i, Then)
  BY DEF DescendToPage, Running
<1>2. Below = <<>> /\ b \in AnyBlock /\ b.first <= Size[b.node] /\ Top.offset \in Nat
  BY <1>1, TopPage
<1>3. i \in Nat
  <2>1. ChildMaxPages(b) \in Nat \ {0}
    BY NodesAssumption DEF ChildMaxPages
  <2> QED
    BY <1>2, <2>1, Quotient
<1>4. (call' = None /\ Fed') \/ (i < NumChildren(b) /\ Then)
  <2> HIDE DEF i, Then
  <2> QED
    BY <1>1, <1>3, ChildThrows
<1>5. CASE i < NumChildren(b) /\ Then
  <2>1. /\ f.task = "page" /\ f.read = 0 /\ f.block = ChildOf(b, i)
    BY DEF Page
  <2>2. ChildOf(b, i) \in AnyBlock /\ ChildOf(b, i).level = b.level - 1
    <3> HIDE DEF b, i
    <3> QED
      BY <1>1, <1>2, <1>3, <1>5, ChildSize
  <2>3. Turn(stack) = 6 + b.level /\ TurnOf(f) = 6 + f.block.level
    BY <1>1, <1>2, <2>1, <2>2, Turns DEF Turn, Top
  <2>4. b.level \in 0..2 /\ f.block.level \in 0..2 /\ f.block.level = b.level - 1
    BY <1>2, <2>1, <2>2 DEF AnyBlock
  <2>5. Push(<<>>, f)
    BY <1>2, <1>5
  <2> HIDE DEF f, b
  <2> QED
    BY <2>1, <2>3, <2>4, <2>5, AloneNearer
<1> QED
  BY <1>4, <1>5

\* data_block::read
LEMMA CheckedNearer ==
  ASSUME NEW b \in AnyBlock, NEW whole \in BOOLEAN, Checked(b, whole),
         Turn(stack) \in Nat, Turn(stack) > 10 \/ (b.level = 0 /\ Turn(stack) > 3)
  PROVE  Fed' /\ (call' = None \/ Nearer)
<1> DEFINE f == Raw(b, call.count, call.offset)
<1>1. CASE Finish("value", <<>>) \/ Finish("out_of_range", <<>>)
  BY <1>1 DEF Finish, Fed
<1>2. CASE Push(<<>>, f)
  <2>1. f.task = "raw" /\ f.read = 0 /\ f.block = b
    BY DEF Raw
  <2> HIDE DEF f
  <2>2. b.level \in 0..2 /\ (TurnOf(f) = 3 + b.level \/ (b.level > 0 /\ TurnOf(f) = 11 - b.level))
    BY <2>1, Turns
  <2> QED
    BY <1>2, <2>1, <2>2, AloneNearer
<1> QED
  BY <1>1, <1>2 DEF Checked

LEMMA AtPageNearer ==
  ASSUME Inv, AtPage
  PROVE  Fed' /\ (call' = None \/ Nearer)
<1>1. /\ stack # <<>> /\ Top.task = "page" /\ ~(Top.block.level > 0)
      /\ \/ Finish("out_of_range", <<>>)
         \/ Checked(Top.block, call.op = "page_value")
  BY DEF AtPage, Running
<1>2. Top.block \in AnyBlock
  BY <1>1, TopPage
<1>3. Top.block.level = 0 /\ Turn(stack) = 6
  BY <1>1, <1>2, Turns DEF Turn, Top
<1>4. CASE Finish("out_of_range", <<>>)
  BY <1>4 DEF Finish, Fed
<1>5. CASE Checked(Top.block, call.op = "page_value")
  <2> DEFINE whole == (call.op = "page_value")
  <2>1. whole \in BOOLEAN /\ Checked(Top.block, whole)
    BY <1>5
  <2> HIDE DEF whole
  <2>2. Turn(stack) \in Nat /\ Turn(stack) > 3
    BY <1>3
  <2> QED
    BY <1>2, <1>3, <2>1, <2>2, CheckedNearer
<1> QED
  BY <1>1, <1>4, <1>5

LEMMA EnterNearer ==
  ASSUME Inv, Enter
  PROVE  Fed' /\ (call' = None \/ Nearer)
<1> DEFINE b == Root(call.node)
<1>1. /\ call # None /\ stack = <<>>
      /\ call.op \in {"stream", "buffer", "value", "page_buffer", "page_value"}
  BY DEF Enter, Inv, CallInv
<1>2. b \in AnyBlock /\ Turn(stack) = 12
  BY <1>1, NodeSizes DEF Inv, CallInv, Turn
<1>3. \/ Finish("failed", <<>>)
      \/ Push(<<>>, Raw(b, call.count, call.offset))
      \/ Checked(b, call.op = "value")
      \/ Push(<<>>, Page(b, call.page))
  BY <1>1 DEF Enter, Fetch
<1>4. CASE Finish("failed", <<>>)
  BY <1>4 DEF Finish, Fed
<1>5. CASE Push(<<>>, Raw(b, call.count, call.offset))
  <2> DEFINE f == Raw(b, call.count, call.offset)
  <2>1. f.task = "raw" /\ f.read = 0 /\ f.block = b
    BY DEF Raw
  <2> HIDE DEF f, b
  <2>2. b.level \in 0..2 /\ (TurnOf(f) = 3 + b.level \/ (b.level > 0 /\ TurnOf(f) = 11 - b.level))
    BY <1>2, <2>1, Turns
  <2>3. Push(<<>>, f)
    BY <1>5 DEF f
  <2> QED
    BY <1>2, <2>1, <2>2, <2>3, AloneNearer
<1>6. CASE Checked(b, call.op = "value")
  <2> DEFINE whole == (call.op = "value")
  <2>1. whole \in BOOLEAN /\ Checked(b, whole)
    BY <1>6
  <2> HIDE DEF whole, b
  <2>2. Turn(stack) \in Nat /\ Turn(stack) > 10
    BY <1>2
  <2> QED
    BY <1>2, <2>1, <2>2, CheckedNearer
<1>7. CASE Push(<<>>, Page(b, call.page))
  <2> DEFINE f == Page(b, call.page)
  <2>1. f.task = "page" /\ f.read = 0 /\ f.block = b
    BY DEF Page
  <2> HIDE DEF f, b
  <2>2. b.level \in 0..2 /\ TurnOf(f) = 6 + b.level
    BY <1>2, <2>1, Turns
  <2>3. Push(<<>>, f)
    BY <1>7 DEF f
  <2> QED
    BY <1>2, <2>1, <2>2, <2>3, AloneNearer
<1> QED
  BY <1>3, <1>4, <1>5, <1>6, <1>7

LEMMA StepNearer ==
  ASSUME Inv, BufferInStep', Fed, Step
  PROVE  Fed' /\ (call' = None \/ Nearer)
<1>1. CASE Copy
  <2>1. stack # <<>> /\ Top.task = "raw" /\ ~(Top.block.level > 0) /\ Leave(Copied(Top))
    BY <1>1 DEF Copy, Running
  <2>2. Copied(Top) \in Seq(Nat)
    BY <2>1, CopiedIsBytes
  <2>3. Len(Copied(Top)) = Top.size
    <3>1. Top.size \in Nat
      BY <2>1, TopFrame
    <3> QED
      BY <3>1 DEF Copied
  <2> QED
    BY <2>1, <2>2, <2>3, LeaveNearer
<1>2. CASE LoopEnds
  <2>1. stack # <<>> /\ Top.task = "raw" /\ Top.size = 0 /\ Leave(<<>>)
    BY <1>2 DEF LoopEnds, Running
  <2>2. <<>> \in Seq(Nat) /\ Len(<<>>) = 0
    OBVIOUS
  <2> QED
    BY <2>1, <2>2, LeaveNearer
<1> QED
  BY <1>1, <1>2, EnterNearer, DescendNearer, AtPageNearer, LoopNearer DEF Step

LEMMA OutsideStep ==
  ASSUME Inv, Fed, Operation \/ Take \/ UNCHANGED vars
  PROVE  Fed' /\ (call # None => UNCHANGED vars)
<1>1. CASE UNCHANGED vars
  BY <1>1 DEF Fed, vars
<1>2. CASE Operation
  <2>1. Idle /\ stack' = stack
    BY <1>2 DEF Operation, Open, StreamRead, Read, ReadPage, Start, Seek
  <2> QED
    BY <2>1 DEF Idle, Fed
<1>3. CASE Take
  <2>1. reply # None /\ stack' = stack
    BY <1>3 DEF Take
  <2> QED
    BY <2>1 DEF Inv, CallInv, Fed
<1> QED
  BY <1>1, <1>2, <1>3

\* Each step of a read ends it, copies bytes, of which there are no more than were
\* asked for, or comes nearer to the next: no turn of the loop of
\* extended_block::read_raw is for nothing.  That is all of Answered but its
\* fairness.
THEOREM ReadsComeNearer ==
  ASSUME Careful
  PROVE  Spec => [][call # None => call' = None \/ Nearer]_vars
<1>1. Init => Inv /\ Fed
  BY Initially DEF Init, Fed
<1>2. Inv /\ [Next]_vars => Inv' /\ BufferInStep'
  <2>1. Inv /\ [Next]_vars => Inv'
    BY EveryStep
  <2>2. Inv => BufferInStep
    BY InvImpliesBufferInStep
  <2> QED
    BY <2>1, <2>2, PTL
<1>3. Inv /\ Inv' /\ BufferInStep' /\ Fed /\ [Next]_vars =>
        Fed' /\ [call # None => call' = None \/ Nearer]_vars
  BY StepNearer, OutsideStep DEF Next
<1> QED
  BY <1>1, <1>2, <1>3, PTL DEF Spec
=============================================================================
