---------------------------- MODULE HeapStreams -----------------------------
(***************************************************************************)
(* A program that reads allocations of a heap, and seeks and reads in the  *)
(* streams over allocations and subnodes of heap.h and object.h.  How it   *)
(* comes by them is in PropertyStreams.                                    *)
(*                                                                         *)
(* A call throws, if it cannot read a page, before it has changed          *)
(* anything; seek alone has moved its stream by then.                      *)
(***************************************************************************)
EXTENDS Heap

CONSTANTS
  Asked,     \* the allocation ids that the program reads, or asks the size of
  Beyond,    \* what may be read behind the map of a page
  Streams,   \* the hnid_stream_device variables of the program
  Counts, Offsets,   \* how much, and where, it reads and seeks
  Lost       \* specification only: the position of a stream whose seek failed

VARIABLES
  stream,    \* stream[s]: the heapnode id and m_pos of stream s, or None
  reply      \* what the last operation has returned or thrown, or None

Errors == {"failed", "out_of_range", "length_error"}
Reply ==
  [op : {"size", "read"}, id : Nat, throws : Errors \cup {None},
   value : Nat \cup Seq(Int) \cup {None}]

ASSUME ProgramAssumption ==
  /\ Counts \subseteq Nat /\ Offsets \subseteq Int /\ Beyond \subseteq Nat
  /\ \A id \in Asked : id \in Nat /\ ~IsSubnodeId(id)
  /\ Lost \notin Nat
  /\ None \notin Errors \cup {"key_not_found"}
  /\ None \notin Reply \cup [kind : {"value", "failed", "out_of_range"}, bytes : Seq(Int)]
  /\ None \notin [id : Opened, pos : Nat] \cup [array : Opened, pos : Nat \cup {Lost}]

-----------------------------------------------------------------------------
(***************************************************************************)
(* The operations of a program.                                            *)
(***************************************************************************)

NoStreams == stream = [s \in Streams |-> None] /\ reply = None

Replies(op, id, r) == reply' = [op |-> op, id |-> id, throws |-> r.throws, value |-> r.value]

AskSize(id) ==
  /\ reply = None
  /\ \E beyond \in Beyond : Replies("size", id, AllocSize(id, beyond))
  /\ UNCHANGED stream

ReadBuffer(id, offset, count) ==
  /\ reply = None
  /\ \E beyond \in Beyond : Replies("read", id, Read(id, offset, count, beyond))
  /\ UNCHANGED stream

ReadAllocation(id) ==
  /\ reply = None
  /\ Replies("read", id, IF AllocSize(id, 0).throws = None THEN ReadAll(id) ELSE AllocSize(id, 0))
  /\ UNCHANGED stream

\* A page, or a block of a subnode, cannot be read.
Refused ==
  /\ reply = None
  /\ Replies("read", 0, Throws("failed"))
  /\ UNCHANGED stream

\* open_stream, open_as_stream
Open(s, x) ==
  /\ reply = None
  /\ stream' = [stream EXCEPT ![s] = [id |-> x, pos |-> 0]]
  /\ UNCHANGED reply

\* The program does not read where a failed seek has left a stream.
Placed(s) == stream[s] # None /\ stream[s].pos <= StreamSize(stream[s].id)

\* hid_stream_device::read and node_stream_device::read: -1, when there is
\* nothing left, is here a reply of no bytes.
StreamReadUncut(s, count) ==
  /\ reply = None /\ Placed(s)
  /\ LET x == stream[s].id
         n == IF count > StreamSize(x) THEN Minus(StreamSize(x), stream[s].pos) ELSE count
     IN /\ Replies("read", x, Value(Addresses(x, stream[s].pos, n)))
        /\ stream' = [stream EXCEPT ![s].pos = @ + n]
StreamRead(s, count) ==
  /\ reply = None /\ Placed(s)
  /\ LET x == stream[s].id
         n == IF stream[s].pos + count > StreamSize(x)
                THEN Minus(StreamSize(x), stream[s].pos) ELSE count
     IN /\ Replies("read", x, Value(Addresses(x, stream[s].pos, n)))
        /\ stream' = [stream EXCEPT ![s].pos = @ + n]

\* The seek of both devices.  m_pos is set first and brought into the range
\* after; both need the size, which may throw.
Sought(s, off, way) ==
  CASE way = "beg" -> off
    [] way = "cur" -> stream[s].pos + off
    [] way = "end" -> StreamSize(stream[s].id) + off
Clamped(pos, size) == IF pos < 0 THEN 0 ELSE Smaller(pos, size)

Seek(s, off, way) ==
  /\ reply = None
  /\ stream[s] # None /\ (way = "cur" => Placed(s))
  /\ LET pos == Sought(s, off, way)
         x == stream[s].id
     IN \/ /\ stream' = [stream EXCEPT ![s].pos = Clamped(pos, StreamSize(x))]
           /\ UNCHANGED reply
        \/ /\ x # 0 /\ (way = "end" \/ pos >= 0)
           /\ stream' = [stream EXCEPT ![s].pos = IF way = "end" THEN @ ELSE pos]
           /\ Replies("read", x, Throws("failed"))

\* The program has taken the reply.
Take == reply # None /\ reply' = None /\ UNCHANGED stream

\* The id behind the last allocation of a page.  heap_impl::size takes it for an
\* allocation (heap.h:590), with a size that comes from behind the page map.
BehindLast(id) ==
  /\ id # 0 /\ HeapPage(id) \in DOMAIN PageMap
  /\ HeapIndex(id) = NumAllocs(HeapPage(id))

\* What it does with what it has opened.  It asks for the size of any id, but
\* does not read as much as such a size says.
Uses ==
  \/ \E s \in Streams :
       \/ \E count \in Counts : StreamRead(s, count)
       \/ \E off \in Offsets, way \in {"beg", "cur", "end"} : Seek(s, off, way)
  \/ \E id \in Asked :
       \/ AskSize(id)
       \/ /\ ~BehindLast(id)
          /\ \/ ReadAllocation(id)
             \/ \E offset \in Offsets \cap Nat, count \in Counts : ReadBuffer(id, offset, count)
  \/ Refused \/ Take

-----------------------------------------------------------------------------
(***************************************************************************)
(* Properties.                                                             *)
(***************************************************************************)

Firsts == [x \in Opened |-> FirstByte(x)]
Sizes == [x \in Opened |-> StreamSize(x)]
\* A whole read is of all that there is, from the first byte on.
AllCounts == Counts \cup {Sizes[x] : x \in Opened}
AllOffsets == Offsets \cup {0}

Store == INSTANCE ByteStore WITH
  Arrays <- Opened,
  Seekable <- Opened,
  First <- Firsts,
  Size <- Sizes,
  Counts <- AllCounts,
  Offsets <- AllOffsets,
  stream <- [s \in Streams |->
    IF stream[s] = None THEN None
    ELSE [array |-> stream[s].id,
          pos |-> IF stream[s].pos > Sizes[stream[s].id] THEN Lost ELSE stream[s].pos]],
  reply <-
    IF reply = None \/ reply.op # "read" THEN None
    ELSE CASE reply.throws = None -> [kind |-> "value", bytes |-> reply.value]
           [] reply.throws = "failed" -> [kind |-> "failed", bytes |-> <<>>]
           [] OTHER -> [kind |-> "out_of_range", bytes |-> <<>>]

\* Allocations are arrays of bytes, as nodes are: streams, buffers and whole
\* reads deliver the bytes between an allocation's offset and the next one's,
\* in order and once each, and nothing of an allocation that is not there.
IsByteStore == Store!Spec

\* size tells the number of bytes that there are to read of an allocation, and
\* throws if an id is of none, whatever is behind the page map.  Excepted is the id
\* behind the last allocation of a page: size should throw there too, for it does
\* "if the page or index of the allocation as indicated by the id are out of bounds
\* for this node" (heap.h:98), but answers with any number.
SizeRight ==
  reply # None /\ reply.op = "size" /\ ~BehindLast(reply.id) =>
    IF reply.id \in {0} \cup AllocIds
      THEN reply.throws = None /\ reply.value = Len(ReadAll(reply.id).value)
      ELSE reply.throws # None
=============================================================================
