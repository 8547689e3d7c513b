-------------------------------- MODULE Heap --------------------------------
(***************************************************************************)
(* The heap of a node, of fairport/ltp/heap.h: allocations found through   *)
(* the map at the end of their page.                                       *)
(*                                                                         *)
(* A heapnode id is a number: with a type in its lowest five bits that of  *)
(* a subnode, else that of an allocation, by its page and its index there. *)
(* A byte is known by its address.  A heap keeps no state but the pages    *)
(* that were read.                                                         *)
(***************************************************************************)
EXTENDS Integers, Sequences

CONSTANTS
  PageMap,   \* PageMap[p]: heap_page_map::allocs of page p, from 0; the last
             \* of them is the end of the last allocation
  PageMax,   \* the size of a page of the heap's node
  Subnodes,  \* the ids of the subnodes of that node
  SubnodeSize,
  SubnodeAt, \* where the bytes of each are, in blocks of its own
  UintMax,   \* the largest size_t
  None       \* no exception

-----------------------------------------------------------------------------

Smaller(a, b) == IF a < b THEN a ELSE b

\* size_t subtraction
Minus(a, b) == IF b <= a THEN a - b ELSE UintMax + 1 + a - b

\* primitives.h
HeapPage(id) == id \div 65536
HeapIndex(id) == ((id \div 32) - 1) % 2048
IsSubnodeId(id) == id % 32 # 0
MakeHeapId(page, index) == page * 65536 + (index + 1) * 32

NumAllocs(p) == Len(PageMap[p]) - 1
Allocs(p, i, beyond) == IF i <= NumAllocs(p) THEN PageMap[p][i + 1] ELSE beyond

AllocIds ==
  UNION {{MakeHeapId(p, i) : i \in 0..(NumAllocs(p) - 1)} : p \in DOMAIN PageMap}

Apart(from, size, other, length) == from + size <= other \/ other + length <= from

ASSUME HeapAssumption ==
  /\ PageMax \in 1..65536 /\ UintMax \in Nat /\ PageMax <= UintMax
  /\ \A p \in DOMAIN PageMap :
       /\ p \in Nat /\ PageMap[p] \in Seq(0..PageMax)
       /\ NumAllocs(p) \in Nat /\ NumAllocs(p) < 2048
       /\ \A i \in 1..NumAllocs(p) : PageMap[p][i] <= PageMap[p][i + 1]

\* The bytes of subnodes and of pages are in blocks that do not overlap.
ASSUME SubnodesAssumption ==
  \A n \in Subnodes :
    /\ n \in Nat /\ IsSubnodeId(n) /\ SubnodeSize[n] \in Nat /\ SubnodeAt[n] \in Int
    /\ \A m \in Subnodes \ {n} : Apart(SubnodeAt[n], SubnodeSize[n], SubnodeAt[m], SubnodeSize[m])
    /\ \A p \in DOMAIN PageMap : Apart(SubnodeAt[n], SubnodeSize[n], p * PageMax, PageMax)

\* The bytes from an offset in an allocation or a subnode on.
FirstByte(x) ==
  IF x = 0 THEN 0
  ELSE IF x \in Subnodes THEN SubnodeAt[x]
  ELSE HeapPage(x) * PageMax + Allocs(HeapPage(x), HeapIndex(x), 0)
Addresses(x, pos, count) == [i \in 1..count |-> FirstByte(x) + pos + i - 1]

Value(v) == [throws |-> None, value |-> v]
Throws(e) == [throws |-> e, value |-> None]

\* heap_impl::size
AllocSizeNoIndexTest(id, beyond) ==
  IF id = 0 THEN Value(0)
  ELSE IF HeapPage(id) \notin DOMAIN PageMap THEN Throws("out_of_range")
  ELSE Value(Minus(Allocs(HeapPage(id), HeapIndex(id) + 1, beyond),
                   Allocs(HeapPage(id), HeapIndex(id), beyond)))
AllocSize(id, beyond) ==
  IF id = 0 THEN Value(0)
  ELSE IF HeapPage(id) \notin DOMAIN PageMap THEN Throws("out_of_range")
  ELSE IF HeapIndex(id) > NumAllocs(HeapPage(id)) THEN Throws("length_error")
  ELSE Value(Minus(Allocs(HeapPage(id), HeapIndex(id) + 1, beyond),
                   Allocs(HeapPage(id), HeapIndex(id), beyond)))

\* heap_impl::read of a buffer, and of a whole allocation
Read(id, offset, count, beyond) ==
  LET size == AllocSize(id, beyond)
  IN IF size.throws # None THEN size
     ELSE IF offset + count > size.value THEN Throws("length_error")
     ELSE Value(Addresses(id, offset, count))

ReadAll(id) == Read(id, 0, AllocSize(id, 0).value, 0)

\* The size of what a stream is over.
StreamSize(x) == IF IsSubnodeId(x) THEN SubnodeSize[x] ELSE AllocSize(x, 0).value
Opened == {0} \cup AllocIds \cup Subnodes
=============================================================================
