----------------------------- MODULE ByteStore -----------------------------
(***************************************************************************)
(* What the nodes of a store promise to the layers above: a node is an     *)
(* array of bytes, so is each of its pages, and a stream is a position in  *)
(* one of the arrays.  Nothing is said of the tree of blocks the bytes are *)
(* kept in, or of when a block is read; NodeData implements this           *)
(* specification.                                                          *)
(*                                                                         *)
(* A byte is known by its address in its node.  Any operation may fail,    *)
(* and then nothing has happened, but that a seek that fails may have      *)
(* moved its stream, or lost its position until the next seek.             *)
(***************************************************************************)
EXTENDS Integers, Sequences

CONSTANTS
  Arrays,    \* the nodes and their pages
  First,     \* First[x]: the address of the first byte of array x
  Size,      \* Size[x]: the number of its bytes
  Seekable,  \* the arrays a stream may be opened on
  Streams,   \* the stream variables of the program
  Counts, Offsets,   \* how much, and where, the program reads and seeks
  Lost,      \* the position of a stream whose seek failed
  None       \* no stream, no reply

VARIABLES
  stream,    \* stream[s]: the array and the position of stream s, or None
  reply      \* what the last operation answered, until the next one

vars == <<stream, reply>>

Smaller(a, b) == IF a < b THEN a ELSE b

Clamp(pos, size) == IF pos < 0 THEN 0 ELSE Smaller(pos, size)

\* At most count bytes of array x from position pos on.
BytesAt(x, pos, count) ==
  [i \in 1..Smaller(count, Size[x] - pos) |-> First[x] + pos + i - 1]

Value(bytes) == [kind |-> "value", bytes |-> bytes]
OutOfRange == [kind |-> "out_of_range", bytes |-> <<>>]
Failed == [kind |-> "failed", bytes |-> <<>>]

Init == stream = [s \in Streams |-> None] /\ reply = None

Open(s, x) ==
  /\ reply = None
  /\ stream' = [stream EXCEPT ![s] = [array |-> x, pos |-> 0]]
  /\ UNCHANGED reply

\* A reply of no bytes is the end of the stream.
Read(s, count) ==
  /\ reply = None /\ stream[s] # None /\ stream[s].pos # Lost
  /\ LET bytes == BytesAt(stream[s].array, stream[s].pos, count)
     IN /\ reply' = Value(bytes)
        /\ stream' = [stream EXCEPT ![s].pos = @ + Len(bytes)]

Base(s, way) ==
  CASE way = "beg" -> 0
    [] way = "cur" -> stream[s].pos
    [] way = "end" -> Size[stream[s].array]

Target(s, off, way) == Clamp(Base(s, way) + off, Size[stream[s].array])

MaySeek(s, way) ==
  reply = None /\ stream[s] # None /\ (way = "cur" => stream[s].pos # Lost)

Seek(s, off, way) ==
  /\ MaySeek(s, way)
  /\ stream' = [stream EXCEPT ![s].pos = Target(s, off, way)]
  /\ UNCHANGED reply

SeekFails(s, off, way) ==
  /\ MaySeek(s, way)
  /\ \E pos \in {Target(s, off, way), Lost} :
       stream' = [stream EXCEPT ![s].pos = pos]
  /\ reply' = Failed

\* A buffer is filled as far as the array goes,
ReadAt(x, pos, count) ==
  /\ reply = None
  /\ reply' = IF count > 0 /\ pos >= Size[x]
                THEN OutOfRange ELSE Value(BytesAt(x, pos, count))
  /\ UNCHANGED stream

\* a value is read as a whole,
ReadValue(x, pos, count) ==
  /\ reply = None
  /\ reply' = IF pos + count > Size[x]
                THEN OutOfRange ELSE Value(BytesAt(x, pos, count))
  /\ UNCHANGED stream

\* and nothing of an array that does not exist.
NoArray == reply = None /\ reply' = OutOfRange /\ UNCHANGED stream

Fail == reply = None /\ reply' = Failed /\ UNCHANGED stream

\* The program has taken the reply.
Take == reply # None /\ reply' = None /\ UNCHANGED stream

Next ==
  \/ \E s \in Streams :
       \/ \E x \in Seekable : Open(s, x)
       \/ \E count \in Counts : Read(s, count)
       \/ \E off \in Offsets, way \in {"beg", "cur", "end"} :
            Seek(s, off, way) \/ SeekFails(s, off, way)
  \/ \E x \in Arrays, pos \in Offsets, count \in Counts :
       ReadAt(x, pos, count) \/ ReadValue(x, pos, count)
  \/ NoArray \/ Fail \/ Take

Spec == Init /\ [][Next]_vars
=============================================================================
