------------------------------ MODULE NodeData ------------------------------
(***************************************************************************)
(* The data of a node: node_impl, external_block, extended_block and       *)
(* node_stream_device of fairport/ndb/node.h.  A node that does not fit    *)
(* into one block is a tree of them, of one or two levels of extended      *)
(* blocks over external ones; each block reads a child when it is first    *)
(* needed and keeps it.                                                    *)
(*                                                                         *)
(* An operation runs through nested calls of read_raw or get_page, one     *)
(* frame on the stack for each; the reading of a block is a step, for it   *)
(* may throw with part of the work done.                                   *)
(***************************************************************************)
EXTENDS Integers, Sequences

CONSTANTS
  Nodes,
  Level,     \* Level[n]: 0 if the data of n is one external block, 1 an
             \* extended block over those, 2 an extended block over level 1
  Size,      \* Size[n]: the size of the data of n
  PageMax,   \* external_block::max_size
  MaxCount,  \* extended_block::max_count
  UintMax,   \* the largest size_t
  Streams,   \* the node_stream_device variables of the program
  Counts, Offsets, PageNums,   \* what the program reads, and where
  MayFail,   \* the blocks whose reading may throw
  Careful,   \* the program does not read where a failed seek has left it
  Lost,      \* specification only: the position of such a stream
  Stray,     \* a byte that is not the node's
  None       \* no operation, no stream, no reply

VARIABLES
  loaded,    \* the blocks that have been read: m_pdata and m_child_blocks
  stream,    \* stream[s]: the node and m_pos of stream s
  call,      \* the operation in progress
  stack,     \* its frames in read_raw or get_page, the innermost last
  dest,      \* the bytes it has copied so far
  reply      \* what the last operation has returned or thrown

vars == <<loaded, stream, call, stack, dest, reply>>

-----------------------------------------------------------------------------
(***************************************************************************)
(* The blocks of a well-formed store: each child is full but the last.  A  *)
(* block is known by its level and the address of its first byte, and a    *)
(* byte by its address in the node.                                        *)
(***************************************************************************)

Smaller(a, b) == IF a < b THEN a ELSE b

RoundedUp(a, b) == (a + b - 1) \div b

MaxSize(level) ==
  CASE level = 0 -> PageMax
    [] level = 1 -> PageMax * MaxCount
    [] level = 2 -> PageMax * MaxCount * MaxCount

ASSUME NodesAssumption ==
  /\ PageMax \in Nat \ {0} /\ MaxCount \in Nat \ {0}
  /\ \A n \in Nodes :
       /\ Level[n] \in 0..2
       /\ Size[n] \in 0..MaxSize(Level[n])
       /\ Level[n] > 0 => Size[n] > 0
       /\ Size[n] < UintMax

Root(n) == [node |-> n, level |-> Level[n], first |-> 0]

TotalSize(b) == Smaller(MaxSize(b.level), Size[b.node] - b.first)

\* m_child_max_total_size and m_child_max_page_count
ChildMaxSize(b) == MaxSize(b.level - 1)
ChildMaxPages(b) == IF b.level = 1 THEN 1 ELSE MaxCount

\* m_block_info
NumChildren(b) == RoundedUp(TotalSize(b), ChildMaxSize(b))
ChildOf(b, i) ==
  [node |-> b.node, level |-> b.level - 1, first |-> b.first + i * ChildMaxSize(b)]

Blocks ==
  {b \in UNION {[node : {n}, level : 0..Level[n], first : 0..Size[n]] : n \in Nodes} :
     /\ b.first % MaxSize(b.level) = 0
     /\ b = Root(b.node) \/ b.first < Size[b.node]}

\* A node without data has block id 0, which is made up and not read.
ASSUME MayFailAssumption ==
  MayFail \subseteq {b \in Blocks : Size[b.node] > 0}

ASSUME ProgramAssumption ==
  /\ UintMax \in Nat /\ Counts \subseteq Nat /\ Offsets \subseteq Int
  /\ PageNums \subseteq 0..UintMax
  /\ Careful \in BOOLEAN
  /\ Lost \notin Nat
  /\ None \notin [node : Nodes, pos : Nat] \cup [array : Nodes, pos : Nat \cup {Lost}]

-----------------------------------------------------------------------------

Ways == {"beg", "cur", "end"}

Call ==
  [op : {"stream"}, stream : Streams, node : Nodes, count : Counts, offset : Nat]
    \cup [op : {"buffer", "value"}, node : Nodes, count : Counts, offset : Offsets]
    \cup [op : {"page_buffer", "page_value"}, node : Nodes, page : PageNums,
          count : Counts, offset : Offsets]

Frame == [task : {"raw", "page"}, block : Blocks, offset : 0..UintMax, size : 0..UintMax, read : 0..UintMax]

TypeOK ==
  /\ loaded \subseteq Blocks
  /\ stream \in [Streams -> [node : Nodes, pos : Nat] \cup {None}]
  /\ call \in Call \cup {None}
  /\ stack \in Seq(Frame)
  /\ dest \in Seq(Nat)
  /\ reply = None \/ reply \in [kind : {"value", "out_of_range", "failed"}, bytes : Seq(Nat)]

Init ==
  /\ loaded = {}
  /\ stream = [s \in Streams |-> None]
  /\ call = None /\ stack = <<>> /\ dest = <<>>
  /\ reply = None

Idle == call = None /\ reply = None

\* The program has taken the reply.
Take ==
  /\ reply # None
  /\ reply' = None
  /\ UNCHANGED <<loaded, stream, call, stack, dest>>

-----------------------------------------------------------------------------
(***************************************************************************)
(* The operations of a program.                                            *)
(***************************************************************************)

Start(c) ==
  /\ Idle
  /\ call' = c
  /\ UNCHANGED <<loaded, stream, stack, dest, reply>>

\* open_as_stream
Open(s, n) ==
  /\ Idle
  /\ stream' = [stream EXCEPT ![s] = [node |-> n, pos |-> 0]]
  /\ UNCHANGED <<loaded, call, stack, dest, reply>>

Placed(s) ==
  stream[s] # None /\ (Careful => stream[s].pos <= Size[stream[s].node])

\* node_stream_device::read
StreamRead(s, count) ==
  /\ Placed(s)
  /\ Start([op |-> "stream", stream |-> s, node |-> stream[s].node,
            count |-> count, offset |-> stream[s].pos])

\* node::read, of a buffer or of a value of some type
Read(n, op, count, offset) ==
  Start([op |-> op, node |-> n, count |-> count, offset |-> offset])

ReadPage(n, op, page, count, offset) ==
  Start([op |-> op, node |-> n, page |-> page, count |-> count, offset |-> offset])

\* node_stream_device::seek.  m_pos is set first and brought into the node
\* after; both need the size, and so the root of the data.
Sought(s, off, way) ==
  CASE way = "beg" -> off
    [] way = "cur" -> stream[s].pos + off
    [] way = "end" -> Size[stream[s].node] + off

Clamped(pos, size) == IF pos < 0 THEN 0 ELSE Smaller(pos, size)

Seek(s, off, way) ==
  /\ Idle
  /\ stream[s] # None /\ (way = "cur" => Placed(s))
  /\ LET pos == Sought(s, off, way)
         n == stream[s].node
     IN \/ /\ loaded' = IF way = "end" \/ pos >= 0 THEN loaded \cup {Root(n)} ELSE loaded
           /\ stream' = [stream EXCEPT ![s].pos = Clamped(pos, Size[n])]
           /\ UNCHANGED reply
        \/ /\ Root(n) \in MayFail \ loaded
           /\ way = "end" \/ pos >= 0
           /\ stream' = [stream EXCEPT ![s].pos = IF way = "end" THEN @ ELSE pos]
           /\ reply' = [kind |-> "failed", bytes |-> <<>>]
           /\ UNCHANGED loaded
  /\ UNCHANGED <<call, stack, dest>>

-----------------------------------------------------------------------------
(***************************************************************************)
(* The frames.                                                             *)
(***************************************************************************)

Top == stack[Len(stack)]
Below == SubSeq(stack, 1, Len(stack) - 1)

\* The operation returns or throws.  m_pos moves by what was read; no bytes are
\* the -1 that means the end.
Finish(kind, bytes) ==
  /\ reply' = [kind |-> kind, bytes |-> bytes]
  /\ stream' = IF call.op = "stream"
                 THEN [stream EXCEPT ![call.stream].pos = @ + Len(bytes)] ELSE stream
  /\ call' = None
  /\ stack' = <<>>
  /\ dest' = <<>>

\* size_t subtraction
Minus(a, b) == IF b <= a THEN a - b ELSE UintMax + 1 + a - b

\* read_raw is called: both kinds of block begin by cutting the size.
RawUncut(b, size, offset) ==
  [task |-> "raw", block |-> b, offset |-> offset, size |-> size, read |-> 0]

Raw(b, size, offset) ==
  [task |-> "raw", block |-> b, offset |-> offset, read |-> 0,
   size |-> IF offset + size > TotalSize(b) THEN Minus(TotalSize(b), offset) ELSE size]

\* get_page is called.
Page(b, page) == [task |-> "page", block |-> b, offset |-> page, size |-> 0, read |-> 0]

Push(frames, frame) ==
  stack' = Append(frames, frame) /\ UNCHANGED <<stream, call, dest, reply>>

\* A block that is not in memory is read, or cannot be.
Fetch(b, Then) ==
  \/ Then /\ loaded' = loaded \cup {b}
  \/ b \in MayFail \ loaded /\ Finish("failed", <<>>) /\ UNCHANGED loaded

\* data_block::read: a buffer of no bytes is read anywhere, a value only whole.
Checked(b, whole) ==
  IF ~whole /\ call.count = 0 THEN Finish("value", <<>>)
  ELSE IF \/ call.offset >= TotalSize(b)
          \/ whole /\ call.count + call.offset > TotalSize(b)
    THEN Finish("out_of_range", <<>>)
    ELSE Push(<<>>, Raw(b, call.count, call.offset))

\* ensure_data_block, and the call into the root.
Enter ==
  /\ call # None /\ stack = <<>>
  /\ LET b == Root(call.node)
     IN Fetch(b, CASE call.op = "stream" -> Push(<<>>, Raw(b, call.count, call.offset))
                   [] call.op \in {"buffer", "value"} -> Checked(b, call.op = "value")
                   [] OTHER -> Push(<<>>, Page(b, call.page)))

Running(task, extended) ==
  stack # <<>> /\ Top.task = task /\ (Top.block.level > 0) = extended

\* get_child_block(i)
Child(i, Then) ==
  IF i >= NumChildren(Top.block)
    THEN Finish("out_of_range", <<>>) /\ UNCHANGED loaded
    ELSE Fetch(ChildOf(Top.block, i), Then)

\* extended_block::get_page
DescendToPage ==
  /\ Running("page", TRUE)
  /\ LET i == Top.offset \div ChildMaxPages(Top.block)
     IN Child(i, Push(Below, Page(ChildOf(Top.block, i), Top.offset % ChildMaxPages(Top.block))))

\* external_block::get_page, and the read from the page
AtPage ==
  /\ Running("page", FALSE)
  /\ IF Top.offset # 0
       THEN Finish("out_of_range", <<>>)
       ELSE Checked(Top.block, call.op = "page_value")
  /\ UNCHANGED loaded

LeaveInPlace(bytes) ==
  IF Len(stack) = 1
    THEN Finish("value", dest \o bytes)
    ELSE /\ stack' = [Below EXCEPT ![Len(Below)].size = @ - Top.read - Len(bytes),
                                   ![Len(Below)].read = @ + Top.read + Len(bytes)]
         /\ dest' = dest \o bytes
         /\ UNCHANGED <<stream, call, reply>>

LeaveUncounted(bytes) ==
  IF Len(stack) = 1
    THEN Finish("value", dest \o bytes)
    ELSE /\ stack' = [Below EXCEPT ![Len(Below)].offset = @ + Top.read + Len(bytes)]
         /\ dest' = dest \o bytes
         /\ UNCHANGED <<stream, call, reply>>

\* The call at the top returns: the loop that made it moves on by what was read.
Leave(bytes) ==
  IF Len(stack) = 1
    THEN Finish("value", dest \o bytes)
    ELSE /\ stack' = [Below EXCEPT ![Len(Below)].offset = @ + Top.read + Len(bytes),
                                   ![Len(Below)].size = @ - Top.read - Len(bytes),
                                   ![Len(Below)].read = @ + Top.read + Len(bytes)]
         /\ dest' = dest \o bytes
         /\ UNCHANGED <<stream, call, reply>>

\* external_block::read_raw.  Behind the data its buffer holds padding and a
\* trailer.
Copied(frame) ==
  [i \in 1..frame.size |->
     LET o == frame.offset + i - 1
     IN IF o < TotalSize(frame.block) THEN frame.block.first + o ELSE Stray]

Copy ==
  /\ Running("raw", FALSE)
  /\ Leave(Copied(Top))
  /\ UNCHANGED loaded

\* extended_block::read_raw
Loop ==
  /\ Running("raw", TRUE) /\ Top.size > 0
  /\ LET i == Top.offset \div ChildMaxSize(Top.block)
     IN Child(i, Push(stack, Raw(ChildOf(Top.block, i), Top.size,
                                 Top.offset % ChildMaxSize(Top.block))))

LoopEnds ==
  /\ Running("raw", TRUE) /\ Top.size = 0
  /\ Leave(<<>>)
  /\ UNCHANGED loaded

-----------------------------------------------------------------------------

Operation ==
  \/ \E s \in Streams :
       \/ \E n \in Nodes : Open(s, n)
       \/ \E count \in Counts : StreamRead(s, count)
       \/ \E off \in Offsets, way \in Ways : Seek(s, off, way)
  \/ \E n \in Nodes, count \in Counts, offset \in Offsets \cap Nat :
       \/ \E op \in {"buffer", "value"} : Read(n, op, count, offset)
       \/ \E op \in {"page_buffer", "page_value"}, page \in PageNums :
            ReadPage(n, op, page, count, offset)

Step == Enter \/ DescendToPage \/ AtPage \/ Copy \/ Loop \/ LoopEnds

Next == Operation \/ Step \/ Take

\* A call once made runs: the program waits for it to return or throw.
Spec == Init /\ [][Next]_vars /\ WF_vars(Step)

-----------------------------------------------------------------------------
(***************************************************************************)
(* Properties.                                                             *)
(***************************************************************************)

\* The assertions of both read_raw functions, offset <= get_total_size().
\* node.h:965 and node.h:977 state it of every call; whether it holds in the
\* root depends on the position of the stream.
OffsetsInside ==
  \A d \in DOMAIN stack :
    stack[d].task = "raw" => stack[d].offset <= TotalSize(stack[d].block)

\* Where in the node the operation in progress began to read.
Origin == call.offset + (IF call.op \in {"page_buffer", "page_value"}
                           THEN call.page * PageMax ELSE 0)

\* The pages of a node are numbered without a gap, as get_page_count counts
\* them.
PageCount(n) ==
  IF Level[n] = 0 THEN 1
  ELSE Size[n] \div PageMax + (IF Size[n] % PageMax # 0 THEN 1 ELSE 0)

PageSize(n, p) == Smaller(PageMax, Size[n] - p * PageMax)

Pages == UNION {{<<n, p>> : p \in 0..(PageCount(n) - 1)} : n \in Nodes}

\* get_page will find its page, or a child to look in.
PageAhead(f) ==
  IF f.block.level = 0 THEN f.offset = 0
  ELSE f.offset \div ChildMaxPages(f.block) < NumChildren(f.block)

ASSUME PagesAssumption == Nodes \cap Pages = {}

\* The caller's buffer is never overrun, and the nested calls agree on where
\* they are: none has more to copy than its own block holds nor than its caller
\* has left, and the innermost reads from the node the very byte that comes
\* next in the buffer.  No get_page misses a page that get_page_count counts:
\* at every level the child that it goes to is there.
BufferInStep ==
  /\ call # None => Len(dest) <= call.count
  /\ \A d \in DOMAIN stack : stack[d].task = "raw" =>
       /\ stack[d].offset + stack[d].size <= TotalSize(stack[d].block)
       /\ stack[d].read + stack[d].size <= IF d = 1 THEN call.count ELSE stack[d - 1].size
       /\ d = Len(stack) =>
            stack[d].block.first + stack[d].offset = Origin + Len(dest)
  /\ \A d \in DOMAIN stack :
       stack[d].task = "page" /\ <<call.node, call.page>> \in Pages => PageAhead(stack[d])

Store == INSTANCE ByteStore WITH
  Arrays <- Nodes \cup Pages,
  Seekable <- Nodes,
  First <- [x \in Nodes \cup Pages |-> IF x \in Nodes THEN 0 ELSE x[2] * PageMax],
  Size <- [x \in Nodes \cup Pages |-> IF x \in Nodes THEN Size[x] ELSE PageSize(x[1], x[2])],
  stream <- [s \in Streams |->
    IF stream[s] = None THEN None
    ELSE [array |-> stream[s].node,
          pos |-> IF stream[s].pos > Size[stream[s].node] THEN Lost ELSE stream[s].pos]]

\* Streams, buffers, values and pages deliver the bytes of the node in order
\* and once each, wherever its blocks begin and end, whichever of them are in
\* memory and whichever cannot be read; a read that throws moves no stream.
IsByteStore == Store!Spec

\* Every read returns or throws: the loop of extended_block::read_raw makes
\* progress in every turn.
Answered == call # None ~> call = None

\* node.h:965, in external_block::read_raw: "assert(offset <=
\* get_total_size());"
AssertedOffset == OffsetsInside
=============================================================================
