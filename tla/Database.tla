------------------------------ MODULE Database ------------------------------
(***************************************************************************)
(* The database: open_database and its two formats, the lookups in the NBT *)
(* and the BBT through pages that are read on demand and kept, and the     *)
(* functions that read a page or a block and validate it, for each level   *)
(* of validation that the library can be built with.                       *)
(*                                                                         *)
(* Any read of the file may be refused.  A store may also be damaged in    *)
(* one place, in the ways its level of validation is there to notice.      *)
(***************************************************************************)
EXTENDS Disk, FiniteSets

CONSTANTS
  Builds,    \* levels of validation, among "NONE", "WEAK" and "FULL"
  Stores,    \* kinds of stores: [layout : {"ansi", "unicode"}, wVer, crypt]; crypt is
             \* "none", "permute" or "cyclic"
  Roots,     \* Roots[t]: the reference to the root of the tree t
  PageAt,    \* PageAt[l]: the page that the store has at the location l
  BlockAt,   \* BlockAt[l]: the block that it has at l
  Bids,      \* the block ids that the program asks for
  Absent,    \* a key of neither tree
  Header,    \* the location of the header
  Eof,       \* the end of the file
  Elsewhere, \* locations of neither page nor block that it asks for
  Rotten,    \* what is read where bits have changed
  None

\* The file format versions of disk.h from which a store is a Unicode one.
UnicodeMin == 20

Trees == {"nbt", "bbt"}
Locs == DOMAIN PageAt \cup DOMAIN BlockAt

Leaves(tree) == {l \in DOMAIN PageAt : PageAt[l].type = tree /\ PageAt[l].level = 0}
Children(tree) == PageAt[Roots[tree].loc].body

IsPage(ref, tree, level) ==
  /\ ref.loc \in DOMAIN PageAt /\ PageAt[ref.loc].id = ref.id
  /\ PageAt[ref.loc].type = tree /\ PageAt[ref.loc].level = level

\* The store is a well-formed one: trees of two levels whose keys are in order,
\* entries of the BBT that describe the block that is there, ids of one page or
\* block, and room for all in the file.
ASSUME PagesAssumption ==
  /\ \A t \in Trees :
       /\ IsPage(Roots[t], t, 1)
       /\ IsFiniteSet(DOMAIN Children(t))
       /\ \A k \in DOMAIN Children(t) :
            /\ IsPage(Children(t)[k], t, 0)
            /\ \A j \in DOMAIN PageAt[Children(t)[k].loc].body :
                 k <= j /\ \A m \in DOMAIN Children(t) : m <= j => m <= k
  /\ \A l \in DOMAIN PageAt :
       /\ PageAt[l].type \in Trees /\ PageAt[l].level \in {0, 1}
       /\ PageAt[l].level = 0 =>
            \E k \in DOMAIN Children(PageAt[l].type) : Children(PageAt[l].type)[k].loc = l
       /\ DOMAIN PageAt[l].body \subseteq Nat
       /\ \A m \in DOMAIN PageAt : PageAt[m].id = PageAt[l].id => m = l
       /\ l \in Nat /\ l + PageSize <= Eof /\ (l - FirstAmapPageLocation) % PageSize = 0

ASSUME BlocksAssumption ==
  /\ \A l \in Leaves("bbt") : \A k \in DOMAIN PageAt[l].body :
       LET i == PageAt[l].body[k]
       IN /\ i.id = k /\ k # 0
          /\ i.loc \in DOMAIN BlockAt /\ BlockAt[i.loc].id = k /\ BlockAt[i.loc].size = i.size
  /\ \A l \in DOMAIN BlockAt :
       LET b == BlockAt[l]
       IN /\ l \in Nat /\ b.id \in Nat /\ b.size \in Nat
          /\ b.type \in {"external", "extended", "sub"}
          /\ IsInternal(b.id) = (b.type # "external")
          /\ b.type = "external" => b.level = 0 /\ b.body \in Seq(Byte)
          /\ \A m \in DOMAIN BlockAt : BlockAt[m].id = b.id => m = l
          /\ \A layout \in {"ansi", "unicode"} :
               LET aligned == AlignDisk(layout, b.size)
               IN aligned <= MaxBlockDiskSize /\ l + aligned <= Eof

\* Locations are of one thing each, or of nothing a page could be at.
ASSUME PlacesAssumption ==
  /\ DOMAIN PageAt \cap DOMAIN BlockAt = {} /\ Header \notin Locs
  /\ Elsewhere \subseteq Nat \ (Locs \cup {Header})
  /\ \A l \in Elsewhere :
       l + PageSize > Eof \/ (l - FirstAmapPageLocation) % PageSize # 0

ASSUME StoresAssumption ==
  /\ Builds \subseteq {"NONE", "WEAK", "FULL"}
  /\ \A s \in Stores :
       /\ s.layout \in {"ansi", "unicode"} /\ s.crypt \in {"none", "permute", "cyclic"}
       /\ s.wVer \in Nat /\ (s.wVer >= UnicodeMin) = (s.layout = "unicode")
  /\ Bids \cup {Absent} \subseteq Nat /\ Eof \in Nat

VARIABLES
  build,     \* the level of validation
  store,     \* the kind of store
  damage,    \* a place of the file and what is there instead, or None
  db,        \* the database opened, or None
  cached,    \* the pages in memory, by the path of keys that leads to them
  call,      \* the call: its function and argument
  pc,        \* what it does next, "idle" when it has ended
  path,      \* the page it looks at
  info,      \* the block it reads
  answer     \* what it returned or threw, until the program goes on

disk == <<build, store, damage>>
vars == <<build, store, damage, db, cached, call, pc, path, info, answer>>

-----------------------------------------------------------------------------
(***************************************************************************)
(* What is in the file.  A CRC is here the data it was computed from.      *)
(***************************************************************************)

Weak == build \in {"WEAK", "FULL"}
Full == build = "FULL"

Sector(data, trailer) == [data |-> data, trailer |-> trailer]

PageSector(l) ==
  LET p == PageAt[l]
      data == [level |-> p.level, body |-> p.body]
  IN Sector(data, [id |-> p.id, type |-> p.type, repeat |-> p.type,
                   sig |-> ComputeSignature(p.id, l), crc |-> data])

\* External blocks are "encrypted"; the key of the cyclic method is their id.
Encoded(plain, id) ==
  CASE store.crypt = "permute" -> Permute(plain, TRUE)
    [] store.crypt = "cyclic" -> Cyclic(plain, id)
    [] OTHER -> plain
DecodedInOrder(data, crypt, id) ==
  IF crypt = "none" THEN data ELSE Permute(data, FALSE)
Decoded(data, crypt, id) ==
  CASE crypt = "permute" -> Permute(data, FALSE)
    [] crypt = "cyclic" -> Cyclic(data, id)
    [] OTHER -> data

BlockSector(l) ==
  LET b == BlockAt[l]
      data == [type |-> b.type, level |-> b.level,
               body |-> IF b.type = "external" THEN Encoded(b.body, b.id) ELSE b.body]
  IN Sector(data, [id |-> b.id, cb |-> b.size, sig |-> ComputeSignature(b.id, l), crc |-> data])

\* The partial CRC of a header covers its first part, which has the method of
\* encryption in an ANSI store only; the full one is in a Unicode store only.
FirstPart(h) == IF store.layout = "ansi" THEN h ELSE [h EXCEPT !.crypt = None]
HeaderSector ==
  LET data == [wVer |-> store.wVer, roots |-> Roots, eof |-> Eof, crypt |-> store.crypt]
  IN Sector(data, [partial |-> FirstPart(data),
                   full |-> IF store.layout = "ansi" THEN None ELSE data])

Nowhere == Sector([type |-> Rotten, level |-> Rotten, body |-> Rotten],
                  [f \in {"id", "cb", "sig", "crc", "type", "repeat"} |-> Rotten])

Original(l) ==
  CASE l = Header -> HeaderSector
    [] l \in DOMAIN PageAt -> PageSector(l)
    [] l \in DOMAIN BlockAt -> BlockSector(l)
    [] OTHER -> Nowhere

At(l) == IF damage # None /\ damage.at = l THEN damage.is ELSE Original(l)

\* One place of the file holds s instead.
Swapped(places) == {[at |-> l, is |-> Original(m)] : l \in places, m \in places}
Rot(l, part) ==
  {[at |-> l, is |-> [Original(l) EXCEPT ![part][f] = Rotten]] :
     f \in DOMAIN Original(l)[part]}

\* A reference that is out of date leads to another page or block, or a field
\* of a trailer or of the header has changed; with CRCs, any field.  Without
\* validation: a page of the other tree.
WrongPage == Swapped(DOMAIN PageAt)
WrongBlock == Swapped(DOMAIN BlockAt)
RottenTrailer == UNION {Rot(l, "trailer") : l \in Locs}
RottenData == UNION {Rot(l, "data") : l \in Locs}
OtherTree == {d \in WrongPage : d.is.trailer.type # PageAt[d.at].type}
OtherVersion ==
  {[at |-> Header,
    is |-> [HeaderSector EXCEPT !.data.wVer = s.wVer]] : s \in Stores}

RottenHeader ==
  {d \in Rot(Header, "data") \cup Rot(Header, "trailer") :
     d.is.data.wVer # Rotten /\ (store.layout = "unicode" \/ d.is.trailer.full # Rotten)}

Noticed(level) ==
  CASE level = "NONE" -> OtherTree
    [] level = "WEAK" ->
         WrongPage \cup WrongBlock \cup RottenTrailer \cup OtherVersion \cup RottenHeader
    [] level = "FULL" -> WrongPage \cup RottenTrailer \cup RottenData

Damages(level) == {None} \cup {d \in Noticed(level) : d.is # Original(d.at)}

-----------------------------------------------------------------------------
(***************************************************************************)
(* Reading and validating.                                                 *)
(***************************************************************************)

Value(v) == [throws |-> None, value |-> v]
Throws(e) == [throws |-> e, value |-> None]

\* Tests made one after the other: the first that fails throws.
Test(fails, e) == [fails |-> fails, e |-> e]
Checked(tests, v) ==
  LET failed == {i \in DOMAIN tests : tests[i].fails}
  IN IF failed = {} THEN Value(v)
     ELSE Throws(tests[CHOOSE i \in failed : \A j \in failed : i <= j].e)

\* validate_header of small_pst and of large_pst
HeaderTests(layout) ==
  LET h == At(Header)
  IN << Test((h.data.wVer >= UnicodeMin) # (layout = "unicode"), "invalid_format"),
        Test(Weak /\ h.trailer.partial # FirstPart(h.data), "crc_fail"),
        Test(Weak /\ layout = "unicode" /\ h.trailer.full # h.data, "crc_fail") >>

InFile(l, size) == l + size <= Eof

\* read_page_data
PageTests(ref) ==
  LET s == At(ref.loc)
  IN << Test(Weak /\ ref.loc + PageSize > db.eof, "unexpected_page"),
        Test(Weak /\ (ref.loc - FirstAmapPageLocation) % PageSize # 0, "unexpected_page"),
        Test(~InFile(ref.loc, PageSize), "out_of_range"),
        Test(Full /\ s.trailer.crc # s.data, "crc_fail"),
        Test(Weak /\ s.trailer.id # ref.id, "unexpected_page"),
        Test(Weak /\ s.trailer.type # s.trailer.repeat, "database_corrupt"),
        Test(Weak /\ s.trailer.sig # ComputeSignature(ref.id, ref.loc), "sig_mismatch") >>

\* read_nbt_page, read_bbt_page and the functions for leaf and non-leaf pages
ReadPage(tree, leaf, ref) ==
  LET s == At(ref.loc)
  IN Checked(PageTests(ref) \o
             << Test(s.trailer.type # tree, "unexpected_page"),
                Test((s.data.level = 0) \notin leaf, "unexpected_page") >>,
             [type |-> tree, level |-> s.data.level, body |-> s.data.body])

\* read_block_data
BlockTests(bi) ==
  LET s == At(bi.loc)
      aligned == AlignDisk(db.layout, bi.size)
  IN << Test(Weak /\ aligned > MaxBlockDiskSize, "unexpected_block"),
        Test(Weak /\ bi.loc + aligned > db.eof, "unexpected_block"),
        Test(~InFile(bi.loc, aligned), "out_of_range"),
        Test(Weak /\ s.trailer.id # bi.id, "unexpected_block"),
        Test(Weak /\ s.trailer.cb # bi.size, "unexpected_block"),
        Test(Weak /\ s.trailer.sig # ComputeSignature(bi.id, bi.loc), "sig_mismatch"),
        Test(Full /\ s.trailer.crc # s.data, "crc_fail") >>

\* Bit 0 of the id of a block says that it is in use.
CleanKeepsBit(bid) == bid
Clean(bid) == bid - (bid % 2)

Block(kind, bi, level, body) ==
  [kind |-> kind, id |-> bi.id, level |-> level, body |-> body]

ExternalBlock(bi) ==
  IF bi.id = 0 THEN Value(Block("external", bi, 0, None))
  ELSE Checked(<<Test(IsInternal(bi.id), "unexpected_block")>> \o BlockTests(bi),
               Block("external", bi, 0, Decoded(At(bi.loc).data.body, db.crypt, bi.id)))

ExtendedBlock(bi) ==
  LET data == At(bi.loc).data
  IN Checked(<<Test(~IsInternal(bi.id), "unexpected_block")>> \o BlockTests(bi),
             Block("extended", bi, data.level, data.body))

\* The type is looked at before the block is validated.
DataBlock(bi) ==
  IF ~IsInternal(bi.id) THEN ExternalBlock(bi)
  ELSE IF ~InFile(bi.loc, ExtendedHeaderSize(db.layout)) THEN Throws("out_of_range")
  ELSE IF At(bi.loc).data.type # "extended" THEN Throws("unexpected_block")
  ELSE ExtendedBlock(bi)

SubnodeLeafBlock(bi) ==
  LET data == At(bi.loc).data
  IN Checked(BlockTests(bi) \o <<Test(data.level # 0, "unexpected_block")>>,
             Block("subnode_leaf", bi, 0, data.body))

SubnodeNonleafBlock(bi) ==
  LET data == At(bi.loc).data
  IN Checked(BlockTests(bi) \o <<Test(data.level = 0, "unexpected_block")>>,
             Block("subnode_nonleaf", bi, data.level, data.body))

SubnodeBlock(bi) ==
  IF bi.id = 0 THEN Value(Block("subnode_leaf", bi, 0, None))
  ELSE IF At(bi.loc).data.level = 0 THEN SubnodeLeafBlock(bi)
  ELSE SubnodeNonleafBlock(bi)

AnyBlock(bi) ==
  IF DataBlock(bi).throws = "unexpected_block" THEN SubnodeBlock(bi) ELSE DataBlock(bi)

ReadBlock(fn, bi) ==
  CASE fn = "read_block" -> AnyBlock(bi)
    [] fn = "read_data_block" -> DataBlock(bi)
    [] fn = "read_extended_block" -> ExtendedBlock(bi)
    [] fn = "read_external_block" -> ExternalBlock(bi)
    [] fn = "read_subnode_block" -> SubnodeBlock(bi)
    [] fn = "read_subnode_leaf_block" -> SubnodeLeafBlock(bi)
    [] fn = "read_subnode_nonleaf_block" -> SubnodeNonleafBlock(bi)

-----------------------------------------------------------------------------
(***************************************************************************)
(* The program.                                                            *)
(***************************************************************************)

PageFns ==
  [read_nbt_page |-> [tree |-> "nbt", leaf |-> BOOLEAN],
   read_bbt_page |-> [tree |-> "bbt", leaf |-> BOOLEAN],
   read_nbt_leaf_page |-> [tree |-> "nbt", leaf |-> {TRUE}],
   read_bbt_leaf_page |-> [tree |-> "bbt", leaf |-> {TRUE}],
   read_nbt_nonleaf_page |-> [tree |-> "nbt", leaf |-> {FALSE}],
   read_bbt_nonleaf_page |-> [tree |-> "bbt", leaf |-> {FALSE}]]

Subnodes == {"subnode_leaf", "subnode_nonleaf"}

\* The kinds of block that a function is there to read.
BlockFns ==
  [read_block |-> {"external", "extended"} \cup Subnodes,
   read_data_block |-> {"external", "extended"},
   read_external_block |-> {"external"},
   read_extended_block |-> {"extended"},
   read_subnode_block |-> Subnodes,
   read_subnode_leaf_block |-> {"subnode_leaf"},
   read_subnode_nonleaf_block |-> {"subnode_nonleaf"}]

Entries ==
  [t \in Trees |->
     [k \in UNION {DOMAIN PageAt[l].body : l \in Leaves(t)} |->
        PageAt[CHOOSE l \in Leaves(t) : k \in DOMAIN PageAt[l].body].body[k]]]
Keys(tree) == DOMAIN Entries[tree]

\* The id of a block that has no attached bit.
Plain(bid) == 2 * (bid \div 2)

KindOf(b) == IF b.type # "sub" THEN b.type
             ELSE IF b.level = 0 THEN "subnode_leaf" ELSE "subnode_nonleaf"
KindAt(bid) ==
  IF bid = 0 THEN "external" ELSE KindOf(BlockAt[Entries["bbt"][Plain(bid)].loc])

\* Subnode functions are for blocks of subnodes, or for no block at all, and
\* read_extended_block is for data: the library asks for what a node says is
\* its data and its subnodes.
Asks(fn, bid) ==
  \/ fn \in {"read_block", "read_data_block", "read_external_block"}
  \/ fn = "read_subnode_block" /\ bid = 0
  \/ /\ Plain(bid) \in Keys("bbt")
     /\ \/ fn = "read_extended_block" /\ KindAt(bid) \notin Subnodes
        \/ fn \notin {"read_extended_block"} /\ KindAt(bid) \in Subnodes
  \/ bid = Absent

Refs == {[id |-> PageAt[l].id, loc |-> l] : l \in DOMAIN PageAt} \cup
        {[id |-> Roots[t].id, loc |-> l] : t \in Trees, l \in Elsewhere}

\* Without validation the program asks for a page as of the tree that it is in.
AsksPage(fn, ref) ==
  Weak \/ \E l \in DOMAIN PageAt : PageAt[l].id = ref.id /\ PageAt[l].type = PageFns[fn].tree

NoCall == [fn |-> None, arg |-> None]

Calls ==
  [fn : {"read_nbt_root", "read_bbt_root"}, arg : {None}]
    \cup [fn : {"lookup_node_info"}, arg : Keys("nbt") \cup {Absent}]
    \cup [fn : {"lookup_block_info"}, arg : Bids]
    \cup [fn : DOMAIN PageFns, arg : Refs]
    \cup {c \in [fn : DOMAIN BlockFns, arg : Bids] : Asks(c.fn, c.arg)}

Init ==
  /\ build \in Builds
  /\ store \in Stores
  /\ damage \in Damages(build)
  /\ db = None
  /\ cached = <<>>
  /\ call = NoCall
  /\ pc = "idle" /\ path = <<>> /\ info = None /\ answer = None

\* The call ends.
Ends(a) ==
  /\ answer' = a
  /\ pc' = "idle" /\ path' = <<>> /\ info' = None
  /\ UNCHANGED <<disk, call>>

\* fseek or fread fails; when a database is opened, fopen.
Refused == Ends(Throws("out_of_range")) /\ UNCHANGED <<db, cached>>

OpenDatabase ==
  /\ call = NoCall /\ db = None
  /\ call' = [fn |-> "open_database", arg |-> None]
  /\ pc' = "open_small_pst"
  /\ UNCHANGED <<disk, db, cached, path, info, answer>>

\* A bid of 0 is that of no block, and is not looked up.
NoBlock == [id |-> 0, loc |-> 0, size |-> 0]

Call(c) ==
  /\ call = NoCall /\ db # None
  /\ c.fn \in DOMAIN PageFns => AsksPage(c.fn, c.arg)
  /\ call' = c
  /\ IF c.fn \in DOMAIN PageFns
       THEN pc' = "page" /\ UNCHANGED <<path, info>>
       ELSE IF c.fn \in DOMAIN BlockFns \cup {"lookup_block_info"} /\ c.arg = 0
       THEN pc' = "block" /\ info' = NoBlock /\ UNCHANGED path
       ELSE /\ pc' = "descend"
            /\ path' = <<IF c.fn \in {"read_nbt_root", "lookup_node_info"} THEN "nbt" ELSE "bbt">>
            /\ UNCHANGED info
  /\ UNCHANGED <<disk, db, cached, answer>>

\* The program goes on after a return or a throw.
GoOn ==
  /\ answer # None
  /\ answer' = None /\ call' = NoCall
  /\ UNCHANGED <<disk, db, cached, pc, path, info>>

-----------------------------------------------------------------------------
(***************************************************************************)
(* The library.                                                            *)
(***************************************************************************)

Opened(layout) ==
  [layout |-> layout, roots |-> At(Header).data.roots,
   eof |-> At(Header).data.eof, crypt |-> At(Header).data.crypt]

\* database_impl::database_impl, for each format
NotOpened == Ends(Throws("runtime_error")) /\ UNCHANGED <<db, cached>>
Open(layout) ==
  LET a == Checked(HeaderTests(layout), layout)
  IN /\ db' = IF a.throws = None THEN Opened(layout) ELSE None
     /\ Ends(a) /\ UNCHANGED cached

\* Only invalid_format makes open_database try the other one.
OpenSmallPstAnyError ==
  /\ pc = "open_small_pst"
  /\ \/ /\ pc' = "open_large_pst"
        /\ UNCHANGED <<disk, db, cached, call, path, info, answer>>
     \/ Checked(HeaderTests("ansi"), None).throws = None /\ Open("ansi")
OpenSmallPst ==
  /\ pc = "open_small_pst"
  /\ \/ NotOpened
     \/ Refused
     \/ /\ Checked(HeaderTests("ansi"), None).throws = "invalid_format"
        /\ pc' = "open_large_pst"
        /\ UNCHANGED <<disk, db, cached, call, path, info, answer>>
     \/ Checked(HeaderTests("ansi"), None).throws # "invalid_format" /\ Open("ansi")

OpenLargePst ==
  /\ pc = "open_large_pst"
  /\ NotOpened \/ Refused \/ Open("unicode")

Tree == path[1]
Here == cached[path]
Front(p) == SubSeq(p, 1, Len(p) - 1)

\* The reference to the page at the path: in the header or in the page above.
Ref == IF Len(path) = 1 THEN db.roots[Tree] ELSE cached[Front(path)].body[path[Len(path)]]

\* pages, and one more at the path p
With(pages, p, page) == [q \in DOMAIN pages \cup {p} |-> IF q = p THEN page ELSE pages[q]]

\* read_nbt_root, read_bbt_root and get_child of a page not in memory
FetchUnchecked ==
  /\ pc = "descend" /\ path \notin DOMAIN cached
  /\ LET s == At(Ref.loc)
     IN cached' = With(cached, path, [type |-> s.trailer.type, level |-> s.data.level,
                                      body |-> s.data.body])
  /\ UNCHANGED <<disk, db, call, pc, path, info, answer>>
Fetch ==
  /\ pc = "descend" /\ path \notin DOMAIN cached
  /\ \/ Refused
     \/ LET a == ReadPage(Tree, BOOLEAN, Ref)
        IN IF a.throws = None
             THEN /\ cached' = With(cached, path, a.value)
                  /\ UNCHANGED <<disk, db, call, pc, path, info, answer>>
             ELSE Ends(a) /\ UNCHANGED <<db, cached>>

ReturnRoot ==
  /\ pc = "descend" /\ path \in DOMAIN cached
  /\ call.fn \in {"read_nbt_root", "read_bbt_root"}
  /\ Ends(Value(Here)) /\ UNCHANGED <<db, cached>>

\* lookup in a page: its last entry whose key is not larger, if there is one
Key == IF Tree = "nbt" THEN call.arg ELSE Clean(call.arg)
NotLarger == {k \in DOMAIN Here.body : k <= Key}
Floor == CHOOSE k \in NotLarger : \A j \in NotLarger : j <= k
Lookups == {"lookup_node_info", "lookup_block_info"}

Visit ==
  /\ pc = "descend" /\ path \in DOMAIN cached
  /\ call.fn \in Lookups \cup DOMAIN BlockFns
  /\ \/ /\ Here.level # 0 /\ NotLarger # {}
        /\ path' = Append(path, Floor)
        /\ UNCHANGED <<disk, db, cached, call, pc, info, answer>>
     \/ /\ IF Here.level = 0 THEN Key \notin DOMAIN Here.body ELSE NotLarger = {}
        /\ Ends(Throws("key_not_found")) /\ UNCHANGED <<db, cached>>
     \/ /\ Here.level = 0 /\ Key \in DOMAIN Here.body
        /\ IF call.fn = "lookup_node_info"
             THEN Ends(Value(Here.body[Key])) /\ UNCHANGED <<db, cached>>
             ELSE /\ pc' = "block" /\ info' = Here.body[Key] /\ path' = <<>>
                  /\ UNCHANGED <<disk, db, cached, call, answer>>

ReturnBlock ==
  /\ pc = "block"
  /\ \/ call.fn # "lookup_block_info" /\ Refused
     \/ /\ Ends(IF call.fn = "lookup_block_info" THEN Value(info) ELSE ReadBlock(call.fn, info))
        /\ UNCHANGED <<db, cached>>

ReturnPage ==
  /\ pc = "page"
  /\ \/ Refused
     \/ LET f == PageFns[call.fn]
        IN Ends(ReadPage(f.tree, f.leaf, call.arg)) /\ UNCHANGED <<db, cached>>

Step == OpenSmallPst \/ OpenLargePst \/ Fetch \/ ReturnRoot \/ Visit \/ ReturnBlock \/ ReturnPage

Next == OpenDatabase \/ (\E c \in Calls : Call(c)) \/ GoOn \/ Step

Spec == Init /\ [][Next]_vars

-----------------------------------------------------------------------------
(***************************************************************************)
(* Properties.                                                             *)
(***************************************************************************)

Paths == {<<t>> : t \in Trees} \cup
         UNION {{<<t, k>> : k \in DOMAIN PageAt[Roots[t].loc].body} : t \in Trees}

TypeOK ==
  /\ db = None \/ db.layout \in {"ansi", "unicode"}
  /\ DOMAIN cached \subseteq Paths
  /\ call \in Calls \cup {NoCall, [fn |-> "open_database", arg |-> None]}
  /\ pc \in {"idle", "open_small_pst", "open_large_pst", "descend", "page", "block"}
  /\ path \in Paths \cup {<<>>}
  /\ (pc = "descend") = (path # <<>>)
  /\ (pc = "block") = (info # None)

Corrupt == {"invalid_format", "unexpected_page", "unexpected_block", "database_corrupt",
            "sig_mismatch", "crc_fail"}
Unread == {"runtime_error", "out_of_range"}

ASSUME NamesAssumption ==
  /\ None \notin Corrupt \cup Unread \cup DOMAIN PageFns \cup DOMAIN BlockFns
                \cup {"read_nbt_root", "read_bbt_root", "lookup_node_info",
                      "lookup_block_info", "open_database"}
  /\ None # NoBlock /\ \A k \in Keys("bbt") : None # Entries["bbt"][k]
  /\ Rotten \notin Trees
  /\ Absent # 0 /\ Absent \notin Keys("nbt") /\ Plain(Absent) \notin Keys("bbt")

Excused == answer.throws \in Unread \/ (damage # None /\ answer.throws \in Corrupt)

\* A store is opened in its own format, and opened at all unless the file could
\* not be read or its header is damaged: open_database tries the ANSI format on
\* a Unicode store first (database.h:209-225), and what it meets there is never
\* what the program gets to see.
OpensRight ==
  call.fn = "open_database" /\ answer # None =>
    \/ /\ answer = Value(store.layout)
       /\ db = [layout |-> store.layout, roots |-> Roots, eof |-> Eof, crypt |-> store.crypt]
    \/ answer.throws \in Unread
    \/ damage # None /\ damage.at = Header /\ answer.throws \in Corrupt

\* The page that a store has under a reference.
PageOf(l) == [type |-> PageAt[l].type, level |-> PageAt[l].level, body |-> PageAt[l].body]

\* A page that is kept for a path is the one that the store has there, whatever
\* reads were refused or pages were found damaged before: it is kept only once
\* it is validated (database.h:311-334, page.h:184-226).
CachedRight ==
  \A p \in DOMAIN cached :
    LET root == Roots[p[1]].loc
    IN cached[p] = PageOf(IF Len(p) = 1 THEN root ELSE PageAt[root].body[p[2]].loc)

Block0(fn) ==
  IF fn = "read_subnode_block" THEN Value(Block("subnode_leaf", NoBlock, 0, None))
  ELSE IF "external" \in BlockFns[fn] THEN Value(Block("external", NoBlock, 0, None))
  ELSE Throws("unexpected_block")

BlockTruth(fn, bid) ==
  LET entry == Entries["bbt"][Plain(bid)]
      b == BlockAt[entry.loc]
  IN IF bid = 0 THEN Block0(fn)
     ELSE IF Plain(bid) \notin Keys("bbt") THEN Throws("key_not_found")
     ELSE IF KindOf(b) \notin BlockFns[fn] THEN Throws("unexpected_block")
     ELSE Value(Block(KindOf(b), entry, b.level, b.body))

Truth(c) ==
  CASE c.fn = "read_nbt_root" -> Value(PageOf(Roots["nbt"].loc))
    [] c.fn = "read_bbt_root" -> Value(PageOf(Roots["bbt"].loc))
    [] c.fn = "lookup_node_info" ->
         IF c.arg \in Keys("nbt") THEN Value(Entries["nbt"][c.arg]) ELSE Throws("key_not_found")
    [] c.fn = "lookup_block_info" ->
         IF c.arg = 0 THEN Value(NoBlock)
         ELSE IF Plain(c.arg) \in Keys("bbt") THEN Value(Entries["bbt"][Plain(c.arg)])
         ELSE Throws("key_not_found")
    [] c.fn \in DOMAIN PageFns ->
         IF /\ c.arg.loc \in DOMAIN PageAt /\ PageAt[c.arg.loc].type = PageFns[c.fn].tree
            /\ (PageAt[c.arg.loc].level = 0) \in PageFns[c.fn].leaf
           THEN Value(PageOf(c.arg.loc)) ELSE Throws("unexpected_page")
    [] c.fn \in DOMAIN BlockFns -> BlockTruth(c.fn, c.arg)

\* A call answers what the store says, or throws because a read was refused or
\* the store is damaged: primitives.h:28-30 on the levels of validation, and
\* disk.h:965 on the bit of an id to be ignored.
AnswersRight ==
  call.fn \notin {None, "open_database"} /\ answer # None => answer = Truth(call) \/ Excused
=============================================================================
