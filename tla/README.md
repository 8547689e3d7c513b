# Verification of Fairport

Fairport (`src/fairport`) is a header-only C++ library that reads PST files. It
is layered: *disk* (layouts, ciphers, checksums), *ndb* (pages, blocks, nodes,
the database), *ltp* (heaps, BTHs, tables, property bags, named properties) and
*pst* (folders, messages, attachments). It never writes, starts no thread and
persists nothing. Hard behaviour comes from elsewhere:

* Nearly everything is read **on demand and cached** (pages, blocks, roots, tables)
  behind `const` members, so any call may find a child in memory or not, and many
  iterators, streams and nodes share one cache.
* **Every read may throw**, in the middle of an operation that has already
  changed an iterator or a stream, and the caller may go on using it.
* The code computes with **unsigned** positions and offsets.
* `name_id_map` keeps three **streams whose flags survive** from call to call.

## Inventory

| Component | State | Operations | Uses | What makes it correct | Modelled |
|---|---|---|---|---|---|
| B-tree iterators (`util/btree.h`, `ndb/page.h`) | leaf pointer, position and path of each iterator; child slots of each node | `begin`, `end`, `++`, `--`, `==`, copy | `get_child` of pages, subnode blocks, BTH nodes | a sorted cursor, whatever was read before and whichever read throws; no invalid pointer | `BTree`, `BTreeIter`, `SortedCursor` |
| B-tree lookup (`util/btree.h`) | window of the search, node reached | `lookup` | `get_child` | finds a key exactly when it is there; no probe outside a node | `BTree`, `BTreeLookup` |
| Node data and streams (`ndb/node.h`) | root block, child blocks, position of each stream | `read` of buffers, values and pages, stream `read` and `seek` | the database, for each block | arrays of bytes | `NodeData`, `ByteStore` |
| Named properties (`ltp/nameid.h`) | three streams with flags | `lookup` both ways, `prop_id_exists`, `get_prop_count`, `get_prop_list` | property bag, node streams | the two lookups are inverse; no call disturbs a later one | `NameIdMap` |
| Nodes, subnodes (`ndb/node.h`) | shared `node_impl`, data and subnode block, container | `lookup`, iteration, copy | database | live as long as a user of theirs, and their database with them | `Ownership`; tree as `BTree` |
| Database (`ndb/database.h`) | file, header, NBT and BBT roots | open, `lookup_node_info`, `read_block`, validation | file | opens each format; keeps only pages that passed validation; answers what the store says or throws | `Database`, `Ownership` |
| Heap and BTH (`ltp/heap.h`) | node, BTH nodes | `size`, `read`, `open_stream`, `open_bth` | node pages | an allocation is an array of bytes; what is opened is what the node is, at the level it has | `Heap`, `HeapStreams`, `Opening`; BTH as `BTree`, pointers in `Ownership` |
| Table (`ltp/table.h`) | columns, row matrix, row index | opening, `size`, `lookup_row`, cells | heap, subnode | the cell asked for, or none if the row has none | `Opening`, `PropertyObjects`; pointers in `Ownership` |
| Property bag, objects (`ltp/propbag.h`, `ltp/object.h`) | BTH of properties | opening, copy, `get_prop_list`, `prop_exists`, `read_prop`, streams | heap, subnodes | value of the right property; every property listed once | `Opening`, `PropertyObjects`, `PropertyStreams`; pointers in `Ownership` |
| Messages, folders, the store (`pst/*.h`) | tables, bags and maps read on demand and kept | iteration with filters, opening, copy, entry ids, subjects | all of the above | what is kept is what the store has; loops end and visit what passes; copies agree with the original | `PstItems`; pointers of iterators in `Ownership` |
| Disk (`disk/disk.h`) | - | ciphers, signature, CRC, alignment | - | ciphers undo themselves; a trailer lies behind its data | `Disk`; headers and trailers in `Database`, entries in `NameIdMap`; layouts are data |
| `util.h`, `primitives.h` | a `FILE*` | `read`, bits, time | C library | - | ids and bits, where they are used |

The components meet by plain calls from the top down. Below the property bag all
of them are the same two things: trees searched by key (NBT, BBT, subnodes, BTH)
and arrays of bytes (node data, pages, heap allocations). That is why the models
of those two come first, and why they have abstract specifications.

## Modules

`BTree` declares the shape of a forest of B-trees and, in its named assumptions,
what a well-formed store guarantees. Nothing in the code checks these while it
walks a tree. A leaf may be empty only as the root (block id 0).

`SortedCursor` is what an iterator promises: a tree is a set of keys, `++` goes
to the next larger one. `BTreeIter` is the code. One action is one call of a
member function (`LeafNext` is `btree_node_leaf::next`), because each
`get_child` between them may throw; `call` says which function runs next and
`impl` is the `btree_iter_impl` it works on. `slot[n]` says which object holds
node n; iterators compare the addresses of those objects. An operator works on
the iterator itself, so a throw leaves it as it is at that moment; a constructor
works on an object that the exception destroys.

`BTreeLookup` has an action for each branch of the loop of `binary_search` and
for each use the caller makes of its result.

`ByteStore` is what a node promises: it is an array of bytes, so is each of its
pages, and a stream is a position. `NodeData` is the code: `stack` holds the
nested calls of `read_raw` (or `get_page`) with what each has left to do, `dest`
the bytes that have reached the caller's buffer, `loaded` the blocks in memory.
A byte is its address in the node, so an order or a byte gone wrong is seen.

`NameIdMap` has an action for each read of a stream by `lookup`, `construct`,
`read_guid` and `read_wstring`, and keeps the flag of each stream between calls.
An entry whose read was not served holds any value (`Garbage`). The hash function
is a constant of the store: `BucketOf` says where a name is.

`Database` is the code of `database.h` over a file of sectors, each with data and a
trailer. Locations, sizes, signatures and encrypted bytes are those the library would
compute (`Disk`); a CRC is the data it was computed from, so it matches exactly when
that is unchanged. `damage` is one place of the file that holds
something else: another page or block, a changed field of a trailer, a header,
of its data. What is tried depends on the validation level the library
is built with (`build`; a constant of the compiler, primitives.h:25), as each level
promises to notice some damage only. `PageTests`, `BlockTests` and `HeaderTests` are the
tests in the order of the code; `Checked` throws what the first that fails throws.
A call is made of a step for each page it reads (`Fetch`) or visits (`Visit`), since
each read may be refused and what was read before is kept (`cached`).

`Disk` holds the functions over what is on disk as the code computes them, with the
arithmetic of bytes and ushorts: `Cyclic` and `Permute` over the three tables of
`disk.h`, `ComputeSignature`, the size of a block with its trailer. Its assumption
`TablesAreInverse` is a property of those tables that TLC evaluates over all bytes.

`Heap` holds what the code computes of heapnode ids and page maps, as operators: the
size of an allocation and the bytes that a read delivers, or what it throws.
`HeapStreams` is a program over it, with `hid_stream_device` and `node_stream_device`
behind one `hnid_stream_device`; it implements `ByteStore`, as `NodeData` does.

`Opening` is how a node becomes something. An object is built by a constructor that
reads signatures and headers and throws at the first that does not suit (`Unless`);
`Then` is one constructor that calls another. Without validation fewer are read, and a copy of a bag or a bag on a
heap reads fewer than a bag on a node. `obj[s].nodes` has the nodes of the object's BTH
that are in memory, each with the level it was opened at, which alone decides what
`get_prop_list_impl` casts it to (`GetChild`, `List`). A program tries any node as
anything when the library validates, as test/highlevel.cpp:200 does, and only what is
well-formed otherwise (`MayOpen`).

`PropertyObjects` has two halves. The first says what a well-formed store holds: typed
values (`BagProps`, `Tables`) and how they are kept, in an entry, an allocation, a
subnode or a cell of a row matrix of one or more pages (`RowBytes`, `RowPages`, `Memory`).
The second is the code that finds them again: `GetCellValue`, `ReadRow`, `Get`,
`ReadProp` and the others, each throwing what the code throws. The objects keep no
state, so a call is one step; `AnswersRight` compares the halves. `PropertyStreams`
composes it with `HeapStreams`: what `open_prop_stream` of a bag or a row answers is
opened as a stream over the same heap.

`Ownership` is about pointers only: which object holds a shared, weak or raw pointer
to which, from the database to tables and iterators, and what a program that copies
and drops them in any order meets. An action is a call of the program; one that opens
an object of several parts builds them at once, since a throw in the middle destroys
all of them. Reads on demand (`Fill`, `Ensure`) are actions of their own.

`PstItems` is the layer a program sees: the store, folders, messages, attachments,
contacts and tasks. `obj[s]` is the object in a variable with what it keeps (`cache`),
`loop[l]` a loop from begin to end with the table of its iterators. `Get` is a member
read on demand, `Kept` what is left of it; `Copy` shares what was read. An action is one
call; `++` of a filter iterator (`NextRow`) goes on to the next row that passes and may throw at
one in between (`Scan`). Filters, searches by name, entry ids and subjects are
operators. A table is the address it has been read to, since iterators compare addresses.

`MCx` modules give the constants of module `x` for TLC; `x_proof` modules
hold the theorems and proofs.

## Runs

| Run | What it asks | Bounds |
|---|---|---|
| `iterators` | two iterators over three trees, every read may fail: `IsCursor` (refines `SortedCursor`), `Linked` (no bad pointer), `EqualIffSamePosition` | three levels with a non-leaf of one child, a single leaf, an empty leaf: every climb and descent, of one and of two levels, in both directions; uint of 0..7 so that wrapping happens |
| `lookups` | every entry, every gap, a key below and one above; reads fail | nodes of 0 to 7 keys: windows of odd and even size, a separator that is no entry |
| `node_data` | `IsByteStore` (refines `ByteStore`), `BufferInStep`, `Answered` | blocks of two bytes or two children, five bytes in two levels, so that the last page and the last child are short; and a node without data |
| `node_stream_after_failed_seek` | finding, below | the same |
| `names_with_faults` | `AnswersRight`, `IdNamesNeverWrong`, `Answered` in files whose reads may fail; in others also `NoStreamLeftFlagged`, `CountIsTheCount` | two strings with one hash, a third with another, an id equal to the hash, the same id in two guids; a program that asks for listed ids only |
| `ownership` | `NothingLeaks`, `IndependantObjectsWork`, `IteratorsStayValid`, whatever the program keeps and drops | eight objects: a table needs seven (database, root page, node, block, heap, BTH, row matrix), and one more; two variables: one user and one that outlives it or is dropped first; interchangeable variables, so their symmetry is used |
| `database` | `OpensRight`, `CachedRight`, `AnswersRight` at each validation level, one place damaged, any read refused | a BBT of a root and two leaves, an NBT of a root and one whose least key is larger than the absent one, a block of each type; both formats with their first versions (14 and 20); block ids with and without the attached bit, 0, one that is absent, and one at which the word of the cyclic cipher wraps within the block; the last block ends where the file does; locations at and between sectors |
| `properties` | `AnswersRight` of every call to a bag, a row or a table; `IsByteStore` and `SizeRight` of the heap and the streams over it | a property of each kind of storage, empty ones, a freed allocation, a subnode, nothing (id 0); row matrices of no row, in the heap, of one page, of two with a short and a full last one; columns of 1, 2, 4 and 8 bytes, bits in both bytes of the bitmap; rows behind the last; ids just behind the last of a page, further behind it and of a missing page; seeks and reads past either end |
| `opening` | `LevelsRight`, `OpenedRight`, `AnswersRight`, with validation and without | bags whose BTH has 0 to 3 levels of nodes, tables of both sizes of row number and each placement of rows, a heap of another kind, and ten nodes that are almost one of these; one variable, into which a bag is also copied over itself: no two objects share anything that changes |
| `items` | `CachedRight`, `LoopsRight`, `LoopsComplete`, `AnswersRight`, `LoopsEnd` | nine programs, each with the items and views of one kind of object; two variables, so that there is an original and a copy; a loop; one read that fails, at any place; addresses for every table in use at a time; rows of each type, a row without a class, messages without each table; a contact with two photos and one with a photo behind an attachment without a mark |
| `mv_string_array` | finding, below | the same |
| `names_any_id` | finding, below | as `names_with_faults`, with any id |

The larger constants of a real store add repetitions of these cases (a deeper climb,
a longer loop), no new ones. For the trees the theorems below say so for any size.

**Fairness.** `WF_vars(Step)`, where `Step` is the running of a call that has
been made: the library is synchronous and single-threaded, so the program waits for
the call to return or throw. Nothing makes a program call anything. `SortedCursor`
states the same as `Answered`. In `PstItems` a loop that has not left its
`while` goes on (`WF_vars` of its step): a program that abandons it is another
action (`Leave`). `Database`, `Ownership`, `Opening` and `PropertyStreams` assume no fairness: they
state no liveness.

## Findings

* `names_any_id`: `lookup(prop_id)` tests `index > get_prop_count()` (nameid.h:344);
  the id one past the last is answered with a property made of memory that was not
  read, where nameid.h:134 promises `key_not_found`. The read leaves the failbit of the
  entry stream set; then `get_prop_count` (nameid.h:281) answers `size_t(-1) / 8`.
* `node_stream_after_failed_seek`: `node_stream_device::seek` sets `m_pos` before it
  asks for the size, which may throw (node.h:871). The position stays past the
  end, and the next read breaks the assertion of `read_raw` (node.h:965, 977). `node_data`
  therefore lets a program that saw a seek fail only seek again from the
  beginning or the end (`Careful`).
* `mv_string_array`: `read_prop_array<std::string>` of a property of wide strings adds
  an empty string after each one that is not empty (object.h:394). object.h:139 promises
  the property values, which `read_prop_array<std::wstring>` does answer.

Not checked by a run of their own, but worth knowing:

* `heap_impl::size` tests `index > num_allocs` (heap.h:590), so the id behind the last
  allocation is answered with a number from behind the page map, where heap.h:98 promises
  `length_error`. The program of `properties` asks for the size of these ids, of either
  page, and `SizeRight` excepts them by name (`BehindLast`): without `~BehindLast(reply.id)`
  it is violated in the first step. The program does not read as many bytes as such a size
  says. Of a page that is not there `out_of_range` is thrown, and not `length_error`.
* `open_database` never throws `invalid_format` to its caller: any version below 20 is
  taken for ANSI, any other for Unicode (database.h:177, 192), and the magic number is
  not looked at. `Database` opens stores of either format only.
* `read_extended_block` and `read_subnode_block` never look at the type of a block
  (database.h:587, 649), only `read_data_block` does. `Database` has a program ask for
  blocks as what nodes say they are (`Asks`); without validation it also asks for a
  page only as of its own tree (`AsksPage`).
* Seek of a stream over an allocation (heap.h:655) has the defect of `node_stream_after_failed_seek`;
  the program of `HeapStreams` seeks again before it reads (`Placed`).
* `open_table` reads the root allocation of any heap as a `tc_header`, and what that refers
  to as a `bth_header`, before a signature but the heap's is tested (table.h:416-423). `Opening` opens as tables
  only heaps whose root holds these (`MayOpenTable`).
* The sizes of keys and entries of a BTH are tested with validation only (heap.h:424-433); heap.h:285
  says `logic_error` without that restriction, which the line above it has.
* `get_attachment_table` and `get_recipient_table` catch `key_not_found` for a message without
  the subnode (message.h:397, 422); a table whose own row matrix is missing throws the same,
  and then counts as empty and stays so.
* `get_contact_photo_attachment` gives up with `key_not_found` at an attachment before the photo
  that has no mark (contact.h:212), and `is_item_type` throws at a row without a
  class (pstutil.h:85), which leaves a filter iterator on a row that was not tested.
* `get_subject` and `get_name` of a subject that is a lead character and nothing else throw `out_of_range`
  (message.h:441). `SubjectRight` is for subjects that follow the format.
* Iterators of a copy of a message that was made before its tables were opened never
  equal those of the original: `LoopsRight` says so for copies made after.
* `begin - end` of row iterators is 2^32 - k where `size_t` is wider than `ulong` (table.h:115), so `<` of
  the facade is wrong in that direction; `+=` of the difference wraps back, which `Jump` shows.

## Proofs

Those about trees are for every well-formed forest (the assumptions of `BTree`), any
number of iterators and any pattern of failing reads.

`BTree_proof`, lookups: `SearchInWindow` (the key's place stays between `start` and
`end`, every probe is inside the node), `SearchFindsFloor`, `DescentOnPath`,
`LookupAnswersRight` (an action property: a lookup returns a value exactly when the
tree holds the key), `LookupTypeCorrect`. The inductive invariant is the conjunction of
`LookupTypeOK`, `Window`, `Floor` and `OnPath`. The window is needed for the floor, the floor
to show that the child chosen is the only one that can hold the key
(`OnlyTheFloor`), and that for the answer. The bound `2 * NumValues(n) < UintMax`
is what keeps `(start + end) / 2` from wrapping. `LookupAdvances`: each step of a lookup ends it,
goes to a child, ends a search or leaves it a smaller window.

`BTree_proof`, iterators: `WalkIsLinked` and `TypeCorrect`. Linked is not inductive: a
`next` in a non-leaf must know that its node is at the back of the path, and one
in a leaf that gave its pointer up that the path still leads to it. `Purpose` says what
each frame may rely on; the invariant is `TypeOK /\ Linked /\ Purpose`. Each
member function is a lemma, over lemmas on how a path is extended, cut and moved.

On top of it `EqualRight` (`EqualIffSamePosition`) and `IteratorsAreCursors` (every step is one
of `SortedCursor` or a stutter: the safety half of `IsCursor`). A path divides the
entries of its tree into those to its left, those under its node and those to its
right (`PathsDivide`); `AInv` says which least or greatest of these each frame is to arrive
at (`Aimed`), and that every iterator points to the leaf in memory (`Settled`). Two paths from one root to one leaf are
the same path, which is why `==` may compare leaf and position alone. Besides what a
lookup needs this takes `ForestAssumption` (no leaf in two trees, no node but a root
without entries) and `MarksAssumption` (`NULL` and the end are no values).

`PstItems_proof`: `TypeCorrect`, `KeptIsTheStores` (`CachedRight`) and `LoopsStayInTheirTable`
(`LoopsRight`), for any store, program, number of objects and loops and
any number of failing reads, from `StoreAssumption`, `TablesAssumption` and `FormatAssumption`. The invariant has a part
for each object (`GoodObject`: its members are of its class and what the store has) and
one for each loop (`GoodLoop`: it is in the table of its object, at a row of it
where it looks at one, and each object it may end with keeps that same table).
That an object which ends a loop goes on doing so while others are read is `Stay`.
`LoopsVisitAll` (`LoopsComplete`) adds to it what a loop has seen (`CInv`): its rows ascend
(`Rises`) and are, while no `++` has thrown, all those to stop at before where it has come to
(`Collects`); the row it is at is one to stop at (`Tracks`). `AnswersAreTheStores` (`AnswersRight`) is that what is kept
and what would be read are the same, from `FormatAssumption` too: rows are numbered, subfolders
and the store have the members that the code reads without asking. The photo of a contact is stated
apart from its search (`IsPhoto`); `PhotoIsFound` and `NoPhoto` are that the search is right.

`Database_proof`, of what is on disk, from `TablesAreInverse` alone: `CyclicDecrypts` (`cyclic` applied twice is the
identity, for every key and any length), `PermuteDecrypts`, and `TrailerIsBehindTheData` (the
aligned size of a block has room for its data and trailer and less than a slot more).

`NameIdMap_proof`, for every well-formed store (`StreamsAssumption`, `BucketAssumption`)
and any calls. `NamesNeverWrong` and `TypeCorrect` hold with streams in any state and
any ids: `SafeInv` says what the lookup knows at each read (`Flow`: its place in the bucket
is a candidate). `LookupsRight`, `NoFlagLeft` and `CountRight` need a program that asks for listed ids
(`Listed`; `names_any_id` shows why): `Good` says that until the first flag the stack
holds the entry looked for, `Scanned` that the candidates left behind are other properties. A
read that is not served makes the answer one nobody is promised (`FlagsUnclean`).
`LookupsRunDown`: each step ends the lookup or lowers `ToGo`, what is left of the
bucket and of the entry.

`NodeData_proof`: `NodeIsBytes`, that `NodeData` implements `ByteStore`, and
`BufferStaysInStep` (`BufferInStep`), for well-formed trees of blocks (`NodesAssumption`),
any reads that fail, and programs that do not read where a failed seek has left a stream
(`Careful`; `node_stream_after_failed_seek` shows what happens to the others). The invariant has a part for the call
(`CallInv`: the bytes copied are the first ones of what is wanted) and one for each frame
(`FrameInv`): the address a frame has reached is the one its caller had reached plus what
the frame has read, and what it has left is inside its block, its caller's request and
the request of the program; in `get_page`, the page sought has the same address in every
block on the way and is inside the block, so a page that `get_page_count` counts is
never missed (`PageIsAhead`, the last part of `BufferInStep`). Each step of the frames is a stutter of `ByteStore` or,
when it ends the operation, the operation (`Implements`). `TypeCorrect` is for the same programs and
page numbers that are uints: every block in a frame or in memory is one of the
tree, since blocks begin at multiples of their size (`Multiple`, `ChildIsBlock`), and each offset and
size is below the size of a node, so that no subtraction of `size_t` wraps.
`ReadsComeNearer`: each step of a read ends it, copies bytes, or lowers `Turn`, how far
the next byte is; `Fed` says that no child is called for nothing.

`Ownership_proof`: `IndependantWork` (`IndependantObjectsWork`), `IteratorsValid`
(`IteratorsStayValid`) and `Typed`, for any number of objects and variables, from
`NamesAssumption` (objects are none of the values that stand for no pointer). The invariant
says what each object has (`Good`: a node a shared pointer to its database, of which its
pages and blocks are too, a table a B-tree, that a heap, that a node), that the pages a
database keeps are its own (`OwnPages`), and for each iterator that
what it walks over is kept by what it owns (`Sound`). An object made or read leaves all
that as it was (`Grown`); when one is destroyed nothing that is left points to it. `NoLeaks`
(`NothingLeaks`) needs that owning pointers never close a circle (`Acyclic`: of any living
objects one is owned by none of them) and that there are finitely many
objects (`MemoryAssumption`): following pointers from the variables reaches more objects at each step
until it has all it can (`StepsGrow`, `ReachedClosed`), and of those it has not, one would have no owner.

`Opening_proof`: `LevelsAreRight`, `OpenedAreRight` and `AnswersAreRight`, for BTHs of any height and
fan-out and any nodes that are or are not heaps, bags and tables. `FormatAssumption`
says what a well-formed BTH is: each child in a tree is one `Height` lower, a header has the
height of its root, and the keys under a node are those under its children, in their order (`InOrder`).
The invariant is that every object held is what one of the constructors makes of its node
(`OnBth`) and has its nodes at their heights (`Levels`), which reading a child, or all of them for a list
(`AllUnderRight`), keeps: a node is opened at its parent's level less one. So a list, which
goes by the levels alone, has the keys of the tree (`KeysUnderRight`, by the least height at which it would not).
Each constructor is a lemma (`Gives`): it makes its object if the node is right, and throws if it is not.

`PropertyStreams_proof`: `ObjectsAnswer` (`AnswersRight`), `HeapIsBytes`, that `PropertyStreams`
implements `ByteStore` over the allocations and subnodes of its heap, and `SizesRight`
(`SizeRight`), for page maps of any size, any number of streams and any failing reads.
An id gives back the page and index it was made of (`IdsOf`, `IdIs`), so
an allocation is what lies between two neighbours of a page map (`AllocationIs`) and any
other id is found out (`NoAllocation`), but for the one behind the last of a page, whose
size may be any number (`SizeBehindLast`), about which `SizeRight` says nothing and which a
program does not read (`BehindLast`; see the findings). The assumption on ids, offsets and
counts is `ProgramAssumption`. A stream over a property is opened over what the
object answers, so `HeapIsBytes` rests on `ObjectsAnswer`.

`ObjectsAnswer` is for any bag, tables, columns and size of page that `StoreAssumption` and
`RowsAssumption` describe: values of their types, kept where their ids say and by none that
differs; columns and their bits that do not overlap within a row; rows whole in a page.
From a call down: a row is in one page and all pages but the last hold as many
(`RowsOfPage`, `PageOfRow`, `RowRead`); a cell reads as the number kept in it and its
bit as whether it is there (`CellRead`, `BitRead`); no two allocations or subnodes have a byte
in common (`BytesApart`), so what is read of one is what is kept in it (`MemoryIs`, `HnidRead`);
and each encoding is decoded to what it encodes (`NumberRead`, `WideIs`, `LongRead`, `TocRead`).
The one recursion is of the offsets in a table of contents, `Starts`: that its elements
lie one behind the other (`StartsAre`) follows from the least place at which
they would not. Numbers fit in three bytes here (`Numbers`), characters in one. The program
reads a property as what it is kept as (`AsksAsKept`): the theorem has this as
a premise, since `mv_string_array` shows what happens to the others.

`Database_proof`: `Opens` (`OpensRight`), `PagesRight` (`CachedRight`), `Answers`
(`AnswersRight`) and `Typed`, for any two trees of a root and leaves with any keys, any
blocks, ids, format, method of encryption, level of validation, and any one damage that the level is there to
notice. The assumptions are those a well-formed store meets: keys in order and the
entries of the BBT those of its blocks (`PagesAssumption`, `BlocksAssumption`), nothing
overlapping (`PlacesAssumption`), versions that go with the formats (`StoresAssumption`) and
values that stand for nothing or for changed bits apart from all others (`NamesAssumption`).
First, of one read: what passes the tests at a location is what the store has there
(`PageRight`, `BlockRight`, `HeaderRight`: which test meets each kind of damage), what is
not damaged passes (`WholePage`, `WholeHeader`), and so each function that reads is right
or excused (`ReadPageRight`, `ReadBlockRight`, with the ciphers above). Then `Inv`:
`CachedRight` and `OpensRight`, with what the call under way knows (`Descending`: the child on
the path is the one under the greatest key that is not larger, whose leaf alone can
hold the key, `FloorLeaf`; `Reading`: the entry is that of the id without its
attached bit; `Opening`: the other format is tried only where the header calls for it).

Model-checked only: liveness (`Answered`, `LoopsEnd`, and that part of `IsCursor`), which is
beyond the prover. Every safety property of a passing run is a theorem above, and of the three
`Answered`, `LookupAdvances`, `LookupsRunDown` and `ReadsComeNearer` prove what does not need
fairness: no step leaves as much to do as it found.

## Not modelled

Stores that are not well-formed, beyond reads that fail and the damage of `Database`: the code does not check
the assumptions of `BTree` and `NodeData`. The buffer of
`boost::iostreams::stream` between a program and a device. Layouts of records,
the CRC function (polynomial and table), time, and of character conversion all but
widening. Heaps opened as tables that do not begin like one. Tests and samples, which were read for how the library is called.

## Plan

Done: the trees, the arrays of bytes, the named properties, the database, the ciphers,
lifetimes, heaps, bags and tables and how they are opened, the items, and the proofs of
all safety properties. Left: trees of more than two levels in `Database`.
