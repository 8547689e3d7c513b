------------------------------ MODULE PstItems ------------------------------
(***************************************************************************)
(* The objects a program works with: the store (pst), folders, search      *)
(* folders, messages, attachments, contacts and tasks, and the loops from  *)
(* begin to end over what they hold.                                       *)
(*                                                                         *)
(* An object reads its tables when they are first asked for and keeps      *)
(* them; its copies share what was read before the copy.  An iterator is a *)
(* position and a pointer to a table, and two are equal if both are: a     *)
(* loop ends only if end() has the same table that begin() had.  Any read  *)
(* may throw; the program may catch, and go on with its objects and loops. *)
(***************************************************************************)
EXTENDS Integers, Sequences, FiniteSets

CONSTANTS
  Rows,       \* Rows[p]: the rows of the table in the node p, a path of nids; those
              \* of <<>> are the entries of the NBT.  [id, class], class None if absent
  Props,      \* Props[p]: the properties of the bag in the node p
  Works,      \* bound: what a program works with: items, [as, path], and views of them
  Names,      \* folder names that it asks for
  IsPst,      \* whether the store is a PST (wVerClient)
  Slots,      \* program variables for objects
  Loops,      \* and for loops
  Ids,        \* addresses of tables
  UlongMax,   \* the largest position
  MaxFaults,  \* bound on the reads that fail
  None

VARIABLES
  work,       \* the items and views that this program works with
  obj,        \* obj[s]: the object in s: class, node, what it has read
  loop,       \* loop[l]: the loop l
  faults      \* the reads that have failed

vars == <<work, obj, loop, faults>>

Nodes == DOMAIN Rows \cup DOMAIN Props

ASSUME StoreAssumption ==
  /\ <<>> \in DOMAIN Rows /\ None \notin Nodes
  /\ \A p \in DOMAIN Rows : Len(Rows[p]) \in 0..UlongMax
  /\ UlongMax \in Nat /\ MaxFaults \in Nat

-----------------------------------------------------------------------------
(***************************************************************************)
(* Node ids: the type is in the low five bits.                             *)
(***************************************************************************)

NidType(id) == id % 32
NidIndex(id) == id \div 32
MakeNid(type, index) == (type % 32) + 32 * index

TypeInternal == 1
TypeFolder == 2
TypeSearchFolder == 3
TypeMessage == 4
TypeHierarchyTable == 13
TypeContentsTable == 14
TypeAssociatedContentsTable == 15
TypeSearchContentsTable == 16

NidMessageStore == MakeNid(TypeInternal, 1)
NidNameIdMap == MakeNid(TypeInternal, 3)
NidAttachmentTable == MakeNid(17, 51)
NidRecipientTable == MakeNid(18, 52)

Last(path) == path[Len(path)]

-----------------------------------------------------------------------------
(***************************************************************************)
(* What the objects of a class read when it is first asked for.            *)
(***************************************************************************)

Tables == {"attachment_table", "recipient_table", "contents_table", "hierarchy_table",
           "associated_contents_table"}
AllMembers == Tables \cup {"bag", "map", "photo"}

Members(as) ==
  CASE as = "message" -> {"attachment_table", "recipient_table"}
    [] as = "folder" -> {"contents_table", "hierarchy_table", "associated_contents_table"}
    [] as = "search_folder" -> {"contents_table"}
    [] as = "contact" -> {"map", "photo"}
    [] as = "task" -> {"map"}
    [] as = "pst" -> {"bag", "map"}
    [] OTHER -> {}

Classes == {"message", "folder", "search_folder", "contact", "task", "pst", "attachment"}

\* The node that a member is read from.
Place(as, path, m) ==
  CASE m = "attachment_table" -> Append(path, NidAttachmentTable)
    [] m = "recipient_table" -> Append(path, NidRecipientTable)
    [] m = "contents_table" ->
         <<MakeNid(IF as = "search_folder" THEN TypeSearchContentsTable ELSE TypeContentsTable,
                   NidIndex(Last(path)))>>
    [] m = "hierarchy_table" -> <<MakeNid(TypeHierarchyTable, NidIndex(Last(path)))>>
    [] m = "associated_contents_table" ->
         <<MakeNid(TypeAssociatedContentsTable, NidIndex(Last(path)))>>
    [] m = "bag" -> <<NidMessageStore>>
    [] m = "map" -> <<NidNameIdMap>>
    [] OTHER -> <<>>

Least(S) == CHOOSE i \in S : \A j \in S : i <= j

Found(at) == [kind |-> "ok", at |-> at]
Threw(e) == [kind |-> e, at |-> None]

\* get_contact_photo_attachment: the first attachment marked as the photo; one
\* that has no mark at all ends the search.
PhotoOf(path) ==
  LET table == Append(path, NidAttachmentTable)
      Attachment(i) == Append(path, Rows[table][i].id)
      marked == {i \in DOMAIN Rows[table] :
                   "photo" \in DOMAIN Props[Attachment(i)] => Props[Attachment(i)].photo}
      first == Least(marked)
  IN IF table \notin DOMAIN Rows \/ marked = {} THEN Threw("key_not_found")
     ELSE IF "photo" \notin DOMAIN Props[Attachment(first)] THEN Threw("key_not_found")
     ELSE Found(Attachment(first))

\* A message without a table has an empty one; nothing else does.
OpenMember(as, path, m) ==
  IF m = "photo" THEN PhotoOf(path)
  ELSE IF Place(as, path, m) \in Nodes THEN Found(Place(as, path, m))
  ELSE IF as = "message" THEN Found(None)
  ELSE Threw("key_not_found")

Item(as, path) == [as |-> as, path |-> path]

\* What has the node id of a table is one.
ASSUME TablesAssumption ==
  \A w \in Works : \A item \in w.items :
    /\ item = Item(item.as, item.path)
    /\ \A m \in Members(item.as) \cap Tables :
         Place(item.as, item.path, m) \in Nodes => Place(item.as, item.path, m) \in DOMAIN Rows

-----------------------------------------------------------------------------
(***************************************************************************)
(* Objects.                                                                *)
(***************************************************************************)

Object(as, path) == [as |-> as, path |-> path, cache |-> <<>>]

\* A slot without an object.
Nothing == Object("none", <<>>)
Holds(s) == obj[s].as # "none"

\* An address that no table of that node in use has; tables of different nodes
\* are told apart by the nodes.
Used(at) ==
  {c \in Ids :
     LET table == [id |-> c, at |-> at]
     IN \/ \E l \in Loops : loop[l] # None /\ loop[l].table = table
        \/ \E s \in Slots : /\ Holds(s)
                            /\ \E m \in Tables \cap DOMAIN obj[s].cache : obj[s].cache[m] = table}
Fresh(at) == CHOOSE i \in Ids : i \notin Used(at)

\* The rows of a table; the empty table is at no node.
RowsAt(at) == IF at = None THEN <<>> ELSE Rows[at]

CanFail == faults < MaxFaults
Failures == IF CanFail THEN {[kind |-> "failed", member |-> [id |-> 0, at |-> None]]} ELSE {}

\* The root of the NBT is read and kept by the database.
Nbt == [id |-> 0, at |-> <<>>]

\* What comes of asking for a member.  The size of a table that is kept, which
\* end() and the counts ask for, may read a page.
Get(o, m) ==
  IF m = "nbt" THEN {[kind |-> "ok", member |-> Nbt]} \cup Failures
  ELSE IF m \in DOMAIN o.cache
    THEN {[kind |-> "ok", member |-> o.cache[m]]}
           \cup (IF m \in Tables /\ o.cache[m].at # None THEN Failures ELSE {})
  ELSE LET r == OpenMember(o.as, o.path, m)
       IN {[kind |-> r.kind, member |-> [id |-> IF m \in Tables THEN Fresh(r.at) ELSE 0, at |-> r.at]]}
            \cup Failures

\* It is kept once it is there.
Reading(o, m, member) ==
  [as |-> o.as, path |-> o.path,
   cache |-> [n \in DOMAIN o.cache \cup {m} |-> IF n = m THEN member ELSE o.cache[n]]]
KeptNever(s, m, r) == obj
KeptAnyway(s, m, r) ==
  IF m = "nbt" THEN obj ELSE [obj EXCEPT ![s] = Reading(obj[s], m, r.member)]
Kept(s, m, r) ==
  IF m = "nbt" \/ r.kind # "ok" THEN obj ELSE [obj EXCEPT ![s] = Reading(obj[s], m, r.member)]

Counted(kind) == faults' = IF kind = "failed" THEN faults + 1 ELSE faults

\* The loop c, which can go on with the objects in the slots S.
Using(c, S) ==
  [view |-> c.view, as |-> c.as, path |-> c.path, with |-> S, table |-> c.table, pos |-> c.pos,
   pc |-> c.pc, seen |-> c.seen, skipped |-> c.skipped]

\* Loops that were begun on the object in t cannot use what is there now.
Without(t) ==
  [l \in Loops |-> IF loop[l] = None THEN None ELSE Using(loop[l], loop[l].with \ {t})]

\* open_message, open_folder, open_search_folder and constructors from a node;
\* a node that is not there, or is not read, is an exception that changes nothing.
CanOpen(item) == Len(item.path) <= 1 /\ (item.path = <<>> \/ item.path \in Nodes)

Put(s, o) ==
  /\ obj' = [obj EXCEPT ![s] = o]
  /\ loop' = Without(s)

Open(s, item) ==
  /\ CanOpen(item)
  /\ Put(s, Object(item.as, item.path))
  /\ UNCHANGED faults

Drop(s) ==
  /\ Holds(s)
  /\ Put(s, Nothing)
  /\ UNCHANGED faults

\* A copy has the tables that were open; the bag is read again.  The loops of
\* the original can go on with the copy.
CopyLeavesTables(o) == Object(o.as, o.path)
Copied(o) == o

Copy(s, t) ==
  /\ s # t /\ Holds(s) /\ obj[s].as # "pst"
  /\ obj' = [obj EXCEPT ![t] = Copied(obj[s])]
  /\ loop' = [l \in Loops |->
       IF loop[l] # None /\ s \in loop[l].with
         THEN Using(loop[l], loop[l].with \cup {t})
         ELSE Without(t)[l]]
  /\ UNCHANGED faults

-----------------------------------------------------------------------------
(***************************************************************************)
(* A view is a pair of begin and end: the table, the condition on its rows *)
(* (filter_iterator) and what a row is made into.                          *)
(***************************************************************************)

View(member, gives, by, of) == [member |-> member, gives |-> gives, by |-> by, of |-> of]

Views ==
  [attachments |-> View("attachment_table", "attachment", "all", 0),
   recipients |-> View("recipient_table", "recipient", "all", 0),
   messages |-> View("contents_table", "message", "all", 0),
   associated_messages |-> View("associated_contents_table", "message", "all", 0),
   contacts |-> View("contents_table", "contact", "class", "contact"),
   tasks |-> View("contents_table", "task", "class", "task"),
   sub_folders |-> View("hierarchy_table", "folder", "type", TypeFolder),
   sub_search_folders |-> View("hierarchy_table", "search_folder", "type", TypeSearchFolder),
   all_folders |-> View("nbt", "folder", "type", TypeFolder),
   all_messages |-> View("nbt", "message", "type", TypeMessage)]

ViewsOf(as) ==
  CASE as = "message" -> {"attachments", "recipients"}
    [] as = "folder" -> {"messages", "associated_messages", "contacts", "tasks",
                         "sub_folders", "sub_search_folders"}
    [] as = "search_folder" -> {"messages", "contacts", "tasks"}
    [] as = "pst" -> {"all_folders", "all_messages"}
    [] OTHER -> {}

-----------------------------------------------------------------------------
(***************************************************************************)
(* Calls.  Those that read a member may leave it kept; the others change   *)
(* nothing.                                                                *)
(***************************************************************************)

\* get_attachment_count, get_recipient_count, get_subfolder_count, the size of
\* any other table, and of what else is kept on demand only that it is there.
Size(m, r) == IF m \in Tables THEN <<Len(RowsAt(r.member.at))>> ELSE r.member.at

\* Bound: the tables that are asked for are those that are looped over.
Asked == (AllMembers \ Tables) \cup {Views[view].member : view \in work.views}

Ask(s, m) ==
  /\ Holds(s) /\ m \in Members(obj[s].as)
  /\ \E r \in Get(obj[s], m) :
       /\ obj' = Kept(s, m, r)
       /\ Counted(r.kind)
  /\ UNCHANGED loop

\* std::find_if with folder_name_equal: every folder up to the one that is
\* found is opened; one that has no name ends the search.
FindByName(rows, name) ==
  LET folders == {i \in DOMAIN rows : NidType(rows[i].id) = TypeFolder}
      halts == {i \in folders :
                  "name" \in DOMAIN Props[<<rows[i].id>>] => Props[<<rows[i].id>>].name = name}
      first == <<rows[Least(halts)].id>>
  IN IF halts = {} THEN Threw("key_not_found")
     ELSE IF "name" \notin DOMAIN Props[first] THEN Threw("key_not_found")
     ELSE Found(first)

\* folder::open_sub_folder and pst::open_folder, through the hierarchy table of
\* the folder, which is kept, or the NBT
Folders(o) == IF o.as = "pst" THEN "nbt" ELSE "hierarchy_table"
OpenByName(s, name, t) ==
  /\ Holds(s) /\ obj[s].as \in {"folder", "pst"}
  /\ LET m == Folders(obj[s])
     IN m \in Asked /\ \E r \in Get(obj[s], m) :
          LET found == IF r.kind = "ok" THEN FindByName(RowsAt(r.member.at), name) ELSE Threw(r.kind)
              item == Item("folder", found.at)
          IN /\ Counted(r.kind)
             /\ IF found.kind = "ok" /\ item \in work.items
                  THEN /\ obj' = [Kept(s, m, r) EXCEPT ![t] = Object("folder", found.at)]
                       /\ loop' = Without(t)
                  ELSE obj' = Kept(s, m, r) /\ UNCHANGED loop

\* The nid as the four bytes of an entry id, little-endian.
Bytes(nid) == <<nid % 256, (nid \div 256) % 256, (nid \div 65536) % 256, nid \div 16777216>>

\* itembase::get_entry_id and calculate_entry_id
EntryId(path) ==
  IF Len(path) # 1 \/ ~IsPst THEN [kind |-> "key_not_found", value |-> <<>>]
  ELSE [kind |-> "ok",
        value |-> <<0, 0, 0, 0>> \o Props[<<NidMessageStore>>].record_key \o Bytes(path[1])]

\* The first character of a subject with a prefix, after which one more says
\* how long the prefix is.
Lead == 1
StrippedOfOne(text) ==
  [kind |-> "ok", value |-> IF text # <<>> /\ text[1] = Lead THEN SubSeq(text, 2, Len(text)) ELSE text]
Stripped(text) ==
  IF text # <<>> /\ text[1] = Lead
    THEN IF Len(text) < 2 THEN [kind |-> "out_of_range", value |-> <<>>]
         ELSE [kind |-> "ok", value |-> SubSeq(text, 3, Len(text))]
    ELSE [kind |-> "ok", value |-> text]

\* read_prop of the first of the properties that is there
Read(path, ids) ==
  LET there == {i \in DOMAIN ids : ids[i] \in DOMAIN Props[path]}
  IN IF there = {} THEN [kind |-> "key_not_found", value |-> <<>>]
     ELSE [kind |-> "ok", value |-> Props[path][ids[Least(there)]]]

\* get_subject of messages and get_name of tasks
GetSubject(path) ==
  LET r == Read(path, <<"subject">>) IN IF r.kind = "ok" THEN Stripped(r.value) ELSE r

\* The nid in the data of an attachment that is a message.
AsMessage(path) ==
  IF "method" \notin DOMAIN Props[path] THEN [kind |-> "key_not_found", value |-> <<>>]
  ELSE IF Props[path].method # 5 THEN [kind |-> "bad_cast", value |-> <<>>]
  ELSE [kind |-> "ok", value |-> Append(path, Props[path].object)]

\* open_as_message
OpenAsMessage(s, t) ==
  /\ Holds(s) /\ obj[s].as = "attachment"
  /\ AsMessage(obj[s].path).kind = "ok"
  /\ Item("message", AsMessage(obj[s].path).value) \in work.items
  /\ Put(t, Object("message", AsMessage(obj[s].path).value))
  /\ UNCHANGED faults

-----------------------------------------------------------------------------
(***************************************************************************)
(* Loops.                                                                  *)
(***************************************************************************)

\* A row without a message class cannot be tested: read_prop throws.
Untestable(v, row) == v.by = "class" /\ row.class = None
Passes(v, row) ==
  CASE v.by = "all" -> TRUE
    [] v.by = "class" -> row.class = v.of
    [] v.by = "type" -> NidType(row.id) = v.of

\* filter_iterator::satisfy_predicate, from position p on; a test reads the row.
Stop(v, rows, p) ==
  Least({q \in p..Len(rows) :
           q < Len(rows) => Untestable(v, rows[q + 1]) \/ Passes(v, rows[q + 1])})
Scan(v, rows, p) ==
  LET q == Stop(v, rows, p)
  IN {[pos |-> q, kind |-> IF q < Len(rows) /\ Untestable(v, rows[q + 1])
                             THEN "key_not_found" ELSE "ok"]}
       \cup (IF v.by # "all" /\ CanFail
               THEN {[pos |-> i, kind |-> "failed"] : i \in {j \in p..q : j < Len(rows)}}
               ELSE {})

Here(l) == RowsAt(loop[l].table.at)
ViewAt(l) == Views[loop[l].view]

\* begin()
Begin(l, s, view) ==
  /\ Holds(s) /\ view \in ViewsOf(obj[s].as)
  /\ loop[l] = None
  /\ LET v == Views[view]
     IN \E r \in Get(obj[s], v.member) :
          /\ obj' = Kept(s, v.member, r)
          /\ \/ /\ r.kind # "ok"
                /\ Counted(r.kind)
                /\ UNCHANGED loop
             \/ /\ r.kind = "ok"
                /\ \E at \in Scan(v, RowsAt(r.member.at), 0) :
                     /\ Counted(at.kind)
                     /\ loop' = IF at.kind # "ok" THEN loop ELSE
                          [loop EXCEPT ![l] =
                             [view |-> view, as |-> obj[s].as, path |-> obj[s].path,
                              with |-> {s}, table |-> r.member, pos |-> at.pos, pc |-> "test",
                              seen |-> <<>>, skipped |-> FALSE]]

\* it != x.end(), of the object or a copy of it
Test(l, s) ==
  /\ loop[l] # None /\ loop[l].pc = "test" /\ s \in loop[l].with
  /\ \E r \in Get(obj[s], ViewAt(l).member) :
       /\ obj' = Kept(s, ViewAt(l).member, r)
       /\ Counted(r.kind)
       /\ LET equal == r.member = loop[l].table /\ loop[l].pos = Len(RowsAt(r.member.at))
          IN loop' = IF r.kind # "ok" THEN loop
                     ELSE [loop EXCEPT ![l].pc = IF equal THEN "done" ELSE "body"]

Row(l) == Here(l)[loop[l].pos + 1]

\* The node that a row is made into an object of.
RowPath(l) ==
  IF loop[l].view = "attachments" THEN Append(loop[l].path, Row(l).id) ELSE <<Row(l).id>>

\* *it, which reads the row and its node; a recipient reads nothing yet.
Body(l) ==
  /\ loop[l] # None /\ loop[l].pc = "body" /\ loop[l].pos < Len(Here(l))
  /\ \/ /\ loop' = [loop EXCEPT ![l].pc = "next", ![l].seen = Append(@, loop[l].pos)]
        /\ UNCHANGED faults
     \/ /\ CanFail /\ ViewAt(l).gives # "recipient"
        /\ faults' = faults + 1
        /\ UNCHANGED loop
  /\ UNCHANGED obj

\* The program keeps the object in t.
Keep(l, t) ==
  /\ loop[l] # None /\ loop[l].pc = "next" /\ ViewAt(l).gives # "recipient"
  /\ Item(ViewAt(l).gives, RowPath(l)) \in work.items
  /\ Put(t, Object(ViewAt(l).gives, RowPath(l)))
  /\ UNCHANGED faults

\* ++it.  When it throws the position has moved, to a row that may not pass; the
\* program may go on from there, or try ++ again.  A throw from ++ of an iterator
\* over the NBT makes that iterator useless (BTreeIter), and the loop is left.
NextRowUntested(l) ==
  /\ loop[l] # None /\ loop[l].pc = "next"
  /\ loop' = [loop EXCEPT ![l].pos = @ + 1, ![l].pc = "test"]
  /\ UNCHANGED <<obj, faults>>
NextRow(l) ==
  /\ loop[l] # None /\ loop[l].pc = "next" /\ loop[l].pos < Len(Here(l))
  /\ \E at \in Scan(ViewAt(l), Here(l), loop[l].pos + 1) :
       /\ Counted(at.kind)
       /\ IF at.kind = "ok"
            THEN loop' = [loop EXCEPT ![l].pos = at.pos, ![l].pc = "test"]
            ELSE IF ViewAt(l).member = "nbt" THEN loop' = [loop EXCEPT ![l] = None]
            ELSE \E pc \in {"next", "test"} :
                   loop' = [loop EXCEPT ![l].pos = at.pos, ![l].pc = pc, ![l].skipped = TRUE]
  /\ UNCHANGED obj

\* Random access: distance_to is a difference of ulongs, made into a size_t;
\* advance adds an int.  The program goes to an end of the table with
\* it += (there - it).
AdvanceUnwrapped(a, off) == a + off
DistanceTo(a, b) == (b - a) % (UlongMax + 1)
Advance(a, off) == (a + off) % (UlongMax + 1)

Jump(l, back) ==
  /\ loop[l] # None /\ ViewAt(l).by = "all"
  /\ loop[l].pc = IF back THEN "done" ELSE "test"
  /\ LET to == IF back THEN 0 ELSE Len(Here(l))
     IN loop' = [loop EXCEPT ![l].pos = Advance(@, DistanceTo(@, to)), ![l].pc = "test",
                             ![l].seen = <<>>, ![l].skipped = ~back]
  /\ UNCHANGED <<obj, faults>>

Leave(l) ==
  /\ loop[l] # None
  /\ loop' = [loop EXCEPT ![l] = None]
  /\ UNCHANGED <<obj, faults>>

-----------------------------------------------------------------------------
(***************************************************************************)
(* What the format says of a store, and the answers of the calls rest on.  *)
(***************************************************************************)

\* The attachments that a message lists are there; its subject has all of its
\* prefix; an attachment has a name, a method, and the message that it may be.
WellFormed(item) ==
  LET path == item.path
      attachments == Append(path, NidAttachmentTable)
  IN /\ path \in Seq(Nat) /\ (item.as # "pst" => path # <<>>)
     /\ attachments \in DOMAIN Rows =>
          \A i \in DOMAIN Rows[attachments] : Append(path, Rows[attachments][i].id) \in DOMAIN Props
     /\ item.as \in {"message", "task"} =>
          /\ "subject" \in DOMAIN Props[path] /\ Props[path].subject \in Seq(Nat)
          /\ Props[path].subject # <<Lead>>
     /\ item.as = "attachment" =>
          /\ {"filename", "long_filename"} \cap DOMAIN Props[path] # {}
          /\ "method" \in DOMAIN Props[path]
          /\ Props[path].method = 5 => Append(path, Props[path].object) \in Nodes

\* The rows of a table are a sequence, a folder that is listed has a name, and
\* a PST has a record key.
ASSUME FormatAssumption ==
  /\ \A w \in Works : \A item \in w.items : WellFormed(item)
  /\ \A p \in DOMAIN Rows : DOMAIN Rows[p] = 1..Len(Rows[p])
  /\ \A p \in DOMAIN Rows : p = <<>> \/ NidType(Last(p)) = TypeHierarchyTable =>
       \A i \in DOMAIN Rows[p] :
         NidType(Rows[p][i].id) = TypeFolder => "name" \in DOMAIN Props[<<Rows[p][i].id>>]
  /\ IsPst => Props[<<NidMessageStore>>].record_key \in Seq(Nat)

-----------------------------------------------------------------------------

Init ==
  /\ work \in Works
  /\ obj = [s \in Slots |-> Nothing]
  /\ loop = [l \in Loops |-> None]
  /\ faults = 0

LoopStep(l) == (\E s \in Slots : Test(l, s)) \/ Body(l) \/ NextRow(l)

NextCall ==
  \/ \E s \in Slots :
       \/ \E item \in work.items : Open(s, item)
       \/ Drop(s)
       \/ \E t \in Slots : Copy(s, t) \/ OpenAsMessage(s, t)
       \/ \E m \in Asked : Ask(s, m)
       \/ \E name \in Names, t \in Slots : OpenByName(s, name, t)
  \/ \E l \in Loops :
       \/ \E s \in Slots, view \in work.views : Begin(l, s, view)
       \/ LoopStep(l)
       \/ \E t \in Slots : Keep(l, t)
       \/ \E back \in BOOLEAN : Jump(l, back)
       \/ Leave(l)

Next == NextCall /\ UNCHANGED work

\* A program goes on with the loops that it does not leave.
Spec == Init /\ [][Next]_vars /\ \A l \in Loops : WF_vars(LoopStep(l) /\ UNCHANGED work)

-----------------------------------------------------------------------------
(***************************************************************************)
(* Properties.                                                             *)
(***************************************************************************)

TypeOK ==
  /\ work \in Works /\ faults \in 0..MaxFaults
  /\ DOMAIN obj = Slots
  /\ \A s \in Slots : Holds(s) =>
       /\ Item(obj[s].as, obj[s].path) \in work.items
       /\ DOMAIN obj[s].cache \subseteq Members(obj[s].as)
  /\ DOMAIN loop = Loops
  /\ \A l \in Loops : loop[l] # None =>
       /\ Item(loop[l].as, loop[l].path) \in work.items
       /\ loop[l].view \in ViewsOf(loop[l].as)
       /\ loop[l].with \subseteq Slots
       /\ loop[l].pos \in 0..UlongMax
       /\ loop[l].pc \in {"test", "body", "next", "done"}

\* The photo of a contact is the first of its attachments that says it is one,
\* if all before it say that they are none.
IsPhoto(path, a) ==
  LET table == Append(path, NidAttachmentTable)
      Attachment(i) == Append(path, Rows[table][i].id)
      HasMark(i) == "photo" \in DOMAIN Props[Attachment(i)]
  IN /\ table \in DOMAIN Rows
     /\ \E i \in DOMAIN Rows[table] :
          /\ a = Attachment(i) /\ HasMark(i) /\ Props[a].photo
          /\ \A j \in DOMAIN Rows[table] : j < i => HasMark(j) /\ ~Props[Attachment(j)].photo

\* What an object keeps for a member is what the store has for it, and the empty
\* table only for a message whose node has none (message.h:391-434): reads that
\* failed before, copies of what was or was not open, and the order in which
\* the members were asked for leave no trace.
Truth(as, path, m) ==
  IF m = "photo"
    THEN IF \E a \in Nodes : IsPhoto(path, a) THEN CHOOSE a \in Nodes : IsPhoto(path, a) ELSE None
  ELSE IF Place(as, path, m) \in Nodes THEN Place(as, path, m) ELSE None

CachedRight ==
  \A s \in Slots : Holds(s) =>
    \A m \in DOMAIN obj[s].cache :
      /\ obj[s].cache[m].at = Truth(obj[s].as, obj[s].path, m)
      /\ m \in Tables /\ obj[s].cache[m].at = None => obj[s].as = "message"

\* A loop runs over the table that the store has for its object and never past
\* its end, whatever the program does to the position (table.h:111-116); and end()
\* has the table that begin() had, of the object or of a copy made since, whatever
\* reads failed and whatever else was asked for in between.
LoopsRight ==
  \A l \in Loops : loop[l] # None =>
    LET m == ViewAt(l).member
    IN /\ loop[l].table.at = IF m = "nbt" THEN <<>> ELSE Truth(loop[l].as, loop[l].path, m)
       /\ loop[l].pos <= Len(Here(l))
       /\ loop[l].pc \in {"body", "next"} => loop[l].pos < Len(Here(l))
       /\ \A s \in loop[l].with :
            /\ Holds(s) /\ obj[s].as = loop[l].as /\ obj[s].path = loop[l].path
            /\ m # "nbt" => m \in DOMAIN obj[s].cache /\ obj[s].cache[m] = loop[l].table

\* No row is visited twice or out of order.  A loop over all of the rows visits
\* each of them, through any throws; one with a filter visits those that pass, if
\* no ++ has thrown.
Wanted(l) == {p \in 0..(Len(Here(l)) - 1) : Passes(ViewAt(l), Here(l)[p + 1])}

LoopsComplete ==
  \A l \in Loops : loop[l] # None =>
    LET seen == loop[l].seen
        visited == {seen[i] : i \in DOMAIN seen}
    IN /\ \A i, j \in DOMAIN seen : i < j => seen[i] < seen[j]
       /\ ~loop[l].skipped => visited \subseteq Wanted(l)
       /\ loop[l].pc = "done" /\ ~loop[l].skipped => visited = Wanted(l)

\* A loop that the program goes on with, and has an object for, ends.
Running(l) ==
  /\ loop[l] # None
  /\ loop[l].pc \in {"test", "body", "next"}
  /\ loop[l].with # {}

LoopsEnd == \A l \in Loops : Running(l) ~> ~Running(l)

\* The answer that a member gives, read now or kept: its size, that of a table
\* which is not there counting as 0 for a message and as an error otherwise.
MemberRight(s, m) ==
  LET at == Truth(obj[s].as, obj[s].path, m)
  IN \A r \in Get(obj[s], m) : r.kind # "failed" =>
       IF at = None /\ obj[s].as # "message" THEN r.kind = "key_not_found"
       ELSE r.kind = "ok" /\ Size(m, r) = IF m \in Tables THEN <<Len(RowsAt(at))>> ELSE at

\* open_sub_folder and open_folder give the first folder by that name.
ByNameRight(s, name) ==
  LET at == IF obj[s].as = "pst" THEN <<>> ELSE Place("folder", obj[s].path, "hierarchy_table")
      rows == Rows[at]
      Named(i) == NidType(rows[i].id) = TypeFolder /\ Props[<<rows[i].id>>].name = name
  IN \A r \in Get(obj[s], Folders(obj[s])) : r.kind = "ok" =>
       LET found == FindByName(RowsAt(r.member.at), name)
       IN IF \E i \in DOMAIN rows : Named(i)
            THEN \E i \in DOMAIN rows :
                   Named(i) /\ found = Found(<<rows[i].id>>) /\ \A j \in 1..(i - 1) : ~Named(j)
            ELSE found.kind = "key_not_found"

\* An entry id says which node of the store the item is; an item inside another
\* has none (pstutil.h:144).
EntryIdRight(path) ==
  LET r == EntryId(path)
      n == Len(r.value)
  IN IF Len(path) > 1 \/ ~IsPst THEN r.kind = "key_not_found"
     ELSE /\ r.kind = "ok"
          /\ SubSeq(r.value, 5, n - 4) = Props[<<NidMessageStore>>].record_key
          /\ path[1] = r.value[n - 3] + 256 * (r.value[n - 2]
                         + 256 * (r.value[n - 1] + 256 * r.value[n]))

\* A subject is the one in the store, the two characters of its prefix left out.
SubjectRight(path) ==
  LET text == Props[path].subject
      r == GetSubject(path)
  IN /\ r.kind = "ok"
     /\ IF text # <<>> /\ text[1] = Lead THEN text = <<Lead, text[2]>> \o r.value ELSE r.value = text

\* An attachment has its long name if it has one, and is a message only if its
\* data is one.
AttachmentRight(path) ==
  LET name == Read(path, <<"long_filename", "filename">>)
      message == AsMessage(path)
  IN /\ name.value = IF "long_filename" \in DOMAIN Props[path]
                       THEN Props[path].long_filename ELSE Props[path].filename
     /\ IF message.kind = "ok" THEN message.value \in Nodes ELSE message.kind = "bad_cast"

\* What the next call will answer, in every state that earlier calls have left
\* the object in, is what the store says.
AnswersRight ==
  \A s \in Slots : Holds(s) =>
    LET as == obj[s].as
        path == obj[s].path
    IN /\ \A m \in Members(as) : MemberRight(s, m)
       /\ as \in {"folder", "pst"} => \A name \in Names : ByNameRight(s, name)
       /\ as \in {"message", "folder", "contact", "task"} => EntryIdRight(path)
       /\ as \in {"message", "task"} => SubjectRight(path)
       /\ as = "attachment" => AttachmentRight(path)
=============================================================================
