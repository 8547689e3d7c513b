----------------------------- MODULE NameIdMap -----------------------------
(***************************************************************************)
(* name_id_map (fairport/ltp/nameid.h): the mapping between the ids of     *)
(* named properties and their names, over the entry, guid and string       *)
(* streams of the store.                                                   *)
(*                                                                         *)
(* The methods are const, but they share three mutable iostreams.  A read  *)
(* that falls short, or in which the device throws (the stream catches     *)
(* it), sets a flag in the stream; until somebody calls clear, a seek or a *)
(* read of that stream does nothing and tellg answers -1.  The flags are   *)
(* the state one call leaves to the next.  The position of a stream is     *)
(* not: every use of one starts with a seek.  A variable that a read did   *)
(* not fill keeps whatever the stack held.                                 *)
(***************************************************************************)
EXTENDS Integers, Sequences

CONSTANTS
  Entries,      \* the entry stream: [ref, string, guid]; ref is an id or an offset
  Guids,        \* the guid stream
  Text,         \* the string stream: Text[offset]
  Crc,          \* Crc[name]: compute_crc of the name
  BucketOf,     \* BucketOf[guid index, string, hash base]: get_bucket_prop
  Buckets,      \* the hash buckets: sequences of [base, string, guid, index]
  FirstNamed,   \* 0x8000
  Uncounted,    \* size_t(-1) / sizeof(disk::nameid)
  Faults,       \* whether reading the file may fail: a set of Booleans
  AskedIds, AskedProps,   \* what the program asks about
  Garbage,      \* what an entry that was not read may hold
  Lost,         \* what a guid or a string that was not read holds
  None          \* nothing asked or answered yet

VARIABLES
  faulty,  \* whether reading the file may fail, in this behaviour
  ok,      \* ok[s]: no flag of stream s is set
  call,    \* the lookup in progress
  pc,      \* the read it does next
  at,      \* the position of the lookup in its bucket
  entry,   \* the disk::nameid on the stack of construct
  built,   \* the named_prop that construct builds
  answer,  \* history: what was last asked, how it was answered, and whether
           \* all the streams were good from the call to the return
  clean    \* history: the same for the lookup in progress

vars == <<faulty, ok, call, pc, at, entry, built, answer, clean>>

Streams == {"entry", "guid", "string"}

AllOk == \A s \in Streams : ok[s]

-----------------------------------------------------------------------------
(***************************************************************************)
(* The contents of the streams.                                            *)
(***************************************************************************)

\* read_guid and get_guid_index know the first three guids without a read.
KnownGuids == <<"ps_none", "ps_mapi", "ps_public_strings">>

AllGuids == KnownGuids \o Guids

GuidIndexes == 0..(Len(AllGuids) - 1)

\* The named_prop of an entry.
PropOf(e) ==
  [guid |-> AllGuids[e.guid + 1], string |-> e.string,
   name |-> IF e.string THEN Text[e.ref] ELSE e.ref]

HashBase(p) == IF p.string THEN Crc[p.name] ELSE p.name

Indexes == 0..(Len(Entries) - 1)

Mapped(p, id) ==
  \E i \in Indexes : PropOf(Entries[i + 1]) = p /\ id = FirstNamed + i

MapiProp(id) == [guid |-> "ps_mapi", string |-> FALSE, name |-> id]

Calls == [op : {"name"}, arg : AskedProps] \cup [op : {"id"}, arg : AskedIds]

\* What construct will look for in the streams is there; ps_mapi needs no entries.
ASSUME StreamsAssumption ==
  /\ FirstNamed \in Nat /\ Len(Entries) \in Nat /\ DOMAIN Entries = 1..Len(Entries)
  /\ \A i \in DOMAIN Entries :
       /\ Entries[i].guid \in GuidIndexes \ {1}
       /\ Entries[i].string \in BOOLEAN
       /\ Entries[i].string => Entries[i].ref \in DOMAIN Text
  /\ Guids \in Seq({Guids[i] : i \in DOMAIN Guids})
  /\ \A g, h \in GuidIndexes : AllGuids[g + 1] = AllGuids[h + 1] => g = h

ASSUME ProgramAssumption ==
  /\ Faults \subseteq BOOLEAN /\ AskedIds \subseteq Nat
  /\ \A p \in AskedProps :
       /\ p = [guid |-> p.guid, string |-> p.string, name |-> p.name]
       /\ p.string \in BOOLEAN /\ (~p.string => p.name \in Nat)
  /\ None \notin Calls

HashEntry(i) ==
  LET e == Entries[i + 1]
  IN [base |-> HashBase(PropOf(e)), string |-> e.string, guid |-> e.guid, index |-> i]

\* A well-formed store: an entry is in the bucket its name hashes to, and there is
\* nothing else in the buckets.
ASSUME BucketAssumption ==
  /\ \A b \in DOMAIN Buckets : Buckets[b] \in Seq({HashEntry(i) : i \in Indexes})
  /\ \A i \in Indexes :
       LET h == HashEntry(i)
           b == BucketOf[h.guid, h.string, h.base]
       IN b \in DOMAIN Buckets /\ \E k \in DOMAIN Buckets[b] : Buckets[b][k] = h

-----------------------------------------------------------------------------

TypeOK ==
  /\ faulty \in Faults
  /\ ok \in [Streams -> BOOLEAN]
  /\ call \in Calls \cup {None}
  /\ pc \in {"idle", "guid_index", "bucket", "entry", "guid", "string", "return"}
  /\ pc = "idle" <=> call = None
  /\ at \in Nat
  /\ clean \in BOOLEAN

Init ==
  /\ faulty \in Faults
  /\ ok = [s \in Streams |-> TRUE]
  /\ call = None /\ pc = "idle" /\ at = 0
  /\ entry \in Garbage
  /\ built = None
  /\ answer = None
  /\ clean = TRUE

Ask(op, arg, next) ==
  /\ pc = "idle"
  /\ call' = [op |-> op, arg |-> arg]
  /\ pc' = next
  /\ at' = 0
  /\ built' = None
  /\ clean' = AllOk
  /\ UNCHANGED <<ok, entry, answer>>

Answer(op, arg, kind, value, good) ==
  answer' = [op |-> op, arg |-> arg, kind |-> kind, value |-> value, clean |-> good]

\* The lookup returns value or throws.
FinishKeepsCall(kind, value, good) ==
  /\ Answer(call.op, call.arg, kind, value, good)
  /\ pc' = "idle"
  /\ UNCHANGED <<call, at, entry, built, clean>>

Finish(kind, value, good) ==
  /\ Answer(call.op, call.arg, kind, value, good)
  /\ pc' = "idle"
  /\ call' = None
  /\ UNCHANGED <<at, entry, built, clean>>

-----------------------------------------------------------------------------
(***************************************************************************)
(* prop_id_exists, get_prop_count and get_prop_list.                       *)
(***************************************************************************)

\* seekg to the end and tellg: a stream with a flag set does not move and
\* tellg answers -1, which size_t makes large.
Count == IF ok["entry"] THEN Len(Entries) ELSE Uncounted

AnswerAtOnce(op, arg, value) ==
  /\ pc = "idle"
  /\ Answer(op, arg, "value", value, AllOk)
  /\ UNCHANGED <<ok, call, pc, at, entry, built, clean>>

GetPropCount == AnswerAtOnce("count", 0, Count)

PropIdExists(id) ==
  AnswerAtOnce("exists", id, id < FirstNamed \/ id - FirstNamed < Count)

\* Reads until a read fails, and clears the flags of the last one: a stream
\* that cannot be read lists as a prefix.
GetPropListNoClear ==
  /\ pc = "idle"
  /\ \E n \in (IF ~ok["entry"] THEN {0} ELSE IF faulty THEN 0..Len(Entries) ELSE {Len(Entries)}) :
       Answer("list", 0, "value", {FirstNamed + i : i \in 0..(n - 1)},
              AllOk /\ n = Len(Entries))
  /\ ok' = [ok EXCEPT !["entry"] = FALSE]
  /\ UNCHANGED <<call, pc, at, entry, built, clean>>

GetPropList ==
  /\ pc = "idle"
  /\ \E n \in (IF ~ok["entry"] THEN {0} ELSE IF faulty THEN 0..Len(Entries) ELSE {Len(Entries)}) :
       Answer("list", 0, "value", {FirstNamed + i : i \in 0..(n - 1)},
              AllOk /\ n = Len(Entries))
  /\ ok' = [ok EXCEPT !["entry"] = TRUE]
  /\ UNCHANGED <<call, pc, at, entry, built, clean>>

-----------------------------------------------------------------------------
(***************************************************************************)
(* lookup(named_prop)                                                      *)
(***************************************************************************)

LookupName(p) == Ask("name", p, "guid_index")

\* get_guid_index finds the guid, among the known ones or in its stream.
GuidFound ==
  /\ pc = "guid_index"
  /\ LET p == call.arg
     IN /\ \E g \in GuidIndexes :
             AllGuids[g + 1] = p.guid /\ (g < Len(KnownGuids) \/ ok["guid"])
        /\ IF p.guid = "ps_mapi"
             THEN IF p.string \/ p.name >= FirstNamed
                    THEN Finish("key_not_found", 0, clean)
                    ELSE Finish("value", p.name, clean)
             ELSE pc' = "bucket" /\ UNCHANGED <<call, at, entry, built, answer, clean>>
  /\ UNCHANGED ok

\* It does not, and clears the flags that its last read has set: the guid is
\* not there, or the stream cannot be read, or was left with a flag set.
GuidNotFound ==
  /\ pc = "guid_index"
  /\ \A g \in 1..Len(KnownGuids) : KnownGuids[g] # call.arg.guid
  /\ LET here == \E g \in DOMAIN Guids : Guids[g] = call.arg.guid
     IN /\ here /\ ok["guid"] => faulty
        /\ Finish("key_not_found", 0, clean /\ ~(here /\ ok["guid"]))
  /\ ok' = [ok EXCEPT !["guid"] = TRUE]

GuidIndex(p) == CHOOSE g \in GuidIndexes : AllGuids[g + 1] = p.guid

Bucket(p) ==
  LET b == BucketOf[GuidIndex(p), p.string, HashBase(p)]
  IN IF b \in DOMAIN Buckets THEN Buckets[b] ELSE <<>>

CandidateAnyGuid(h, p) == h.base = HashBase(p) /\ h.string = p.string

Candidate(h, p) ==
  h.base = HashBase(p) /\ h.string = p.string /\ h.guid = GuidIndex(p)

\* The scan of the bucket up to the next candidate.
NextCandidateAgain(k) ==
  /\ k \in DOMAIN Bucket(call.arg) /\ k >= at
  /\ Candidate(Bucket(call.arg)[k], call.arg)
  /\ \A other \in at..(k - 1) : ~(other > 0 /\ Candidate(Bucket(call.arg)[other], call.arg))

NextCandidate(k) ==
  /\ k \in DOMAIN Bucket(call.arg) /\ k > at
  /\ Candidate(Bucket(call.arg)[k], call.arg)
  /\ \A other \in (at + 1)..(k - 1) : ~Candidate(Bucket(call.arg)[other], call.arg)

\* A name that is an id is found; a string has to be compared with the one of
\* the entry, as another string may have the same hash.
ScanNoCompare ==
  /\ pc = "bucket"
  /\ \E k \in DOMAIN Bucket(call.arg) :
       /\ NextCandidate(k)
       /\ Finish("value", FirstNamed + Bucket(call.arg)[k].index, clean)
  /\ UNCHANGED ok

Scan ==
  /\ pc = "bucket"
  /\ \E k \in DOMAIN Bucket(call.arg) :
       /\ NextCandidate(k)
       /\ IF call.arg.string
            THEN /\ at' = k
                 /\ pc' = "entry"
                 /\ UNCHANGED <<call, entry, built, answer, clean>>
            ELSE Finish("value", FirstNamed + Bucket(call.arg)[k].index, clean)
  /\ UNCHANGED ok

ScanEnds ==
  /\ pc = "bucket"
  /\ \A k \in DOMAIN Bucket(call.arg) : k > at => ~Candidate(Bucket(call.arg)[k], call.arg)
  /\ Finish("key_not_found", 0, clean)
  /\ UNCHANGED ok

\* The property bag cannot be read and throws, or the stream of the bucket
\* swallows the failure and the bucket seems to end.
ScanFails ==
  /\ faulty
  /\ pc = "bucket"
  /\ \E kind \in {"failed", "key_not_found"} : Finish(kind, 0, FALSE)
  /\ UNCHANGED ok

-----------------------------------------------------------------------------
(***************************************************************************)
(* lookup(prop_id)                                                         *)
(***************************************************************************)

\* The test is index > get_prop_count().
OutOfRange(id) == id - FirstNamed > Count

LookupId(id) ==
  IF id < FirstNamed
    THEN AnswerAtOnce("id", id, MapiProp(id))
    ELSE IF OutOfRange(id)
      THEN /\ pc = "idle"
           /\ Answer("id", id, "key_not_found", 0, AllOk)
           /\ UNCHANGED <<ok, call, pc, at, entry, built, clean>>
      ELSE Ask("id", id, "entry")

-----------------------------------------------------------------------------
(***************************************************************************)
(* construct                                                               *)
(***************************************************************************)

\* A seek and a read: one that is served, and one that sets a flag, because
\* one was set, there is nothing at that place, or reading the file fails.
Serves(s, inside) == ok[s] /\ inside /\ UNCHANGED <<ok, clean>>

Flags(s, inside) ==
  /\ ~ok[s] \/ ~inside \/ faulty
  /\ ok' = [ok EXCEPT ![s] = FALSE]
  /\ clean' = (clean /\ ok[s] /\ ~inside)

Index == IF call.op = "id" THEN call.arg - FirstNamed ELSE Bucket(call.arg)[at].index

ReadEntry ==
  /\ pc = "entry"
  /\ \/ Serves("entry", Index \in Indexes) /\ entry' = Entries[Index + 1]
     \/ Flags("entry", Index \in Indexes) /\ entry' \in Garbage
  /\ pc' = "guid"
  /\ UNCHANGED <<call, at, built, answer>>

Build(guid, next) ==
  /\ built' = [guid |-> guid, string |-> entry.string, name |-> entry.ref]
  /\ pc' = next
  /\ UNCHANGED <<call, at, entry, answer>>

\* read_guid
ReadGuid ==
  /\ pc = "guid"
  /\ LET g == entry.guid
         next == IF entry.string THEN "string" ELSE "return"
     IN IF g < Len(KnownGuids)
          THEN Build(KnownGuids[g + 1], next) /\ UNCHANGED <<ok, clean>>
          ELSE \/ Serves("guid", g \in GuidIndexes) /\ Build(AllGuids[g + 1], next)
               \/ Flags("guid", g \in GuidIndexes) /\ Build(Lost, next)

\* read_wstring; with a size that was not read the vector may be too large.
ReadString ==
  /\ pc = "string"
  /\ \/ /\ Serves("string", entry.ref \in DOMAIN Text)
        /\ built' = [built EXCEPT !.name = Text[entry.ref]]
        /\ pc' = "return"
        /\ UNCHANGED <<call, at, entry, answer>>
     \/ /\ Flags("string", entry.ref \in DOMAIN Text)
        /\ built' = [built EXCEPT !.name = Lost]
        /\ pc' = "return"
        /\ UNCHANGED <<call, at, entry, answer>>
     \/ /\ ~ok["string"] \/ entry.ref \notin DOMAIN Text \/ faulty
        /\ ok' = [ok EXCEPT !["string"] = FALSE]
        /\ Finish("failed", 0, clean /\ ok["string"] /\ entry.ref \notin DOMAIN Text)

\* construct returns: lookup(prop_id) answers with the property; for
\* lookup(named_prop) the scan ends here or goes on.
Return ==
  /\ pc = "return"
  /\ IF call.op = "id"
       THEN Finish("value", built, clean)
       ELSE IF built.string /\ built.name = call.arg.name
         THEN Finish("value", FirstNamed + Index, clean)
         ELSE pc' = "bucket" /\ UNCHANGED <<call, at, entry, built, answer, clean>>
  /\ UNCHANGED ok

-----------------------------------------------------------------------------

Step ==
  \/ GuidFound \/ GuidNotFound \/ Scan \/ ScanEnds \/ ScanFails
  \/ ReadEntry \/ ReadGuid \/ ReadString \/ Return

Call ==
  \/ GetPropCount \/ GetPropList
  \/ \E id \in AskedIds : PropIdExists(id) \/ LookupId(id)
  \/ \E p \in AskedProps : LookupName(p)

Next == (Call \/ Step) /\ UNCHANGED faulty

\* A lookup once called runs to its end.
Spec == Init /\ [][Next]_vars /\ WF_vars(Step /\ UNCHANGED faulty)

-----------------------------------------------------------------------------
(***************************************************************************)
(* Properties.                                                             *)
(***************************************************************************)

NamedIds == {FirstNamed + i : i \in Indexes}

Right(a) ==
  \/ a.op = "count" /\ a.value = Len(Entries)
  \/ a.op = "list" /\ a.value = NamedIds
  \/ a.op = "exists" /\ a.value = (a.arg < FirstNamed \/ a.arg \in NamedIds)
  \/ a.op = "id" /\ IF a.arg < FirstNamed
                      THEN a.value = MapiProp(a.arg)
                      ELSE IF a.arg \in NamedIds
                        THEN a.kind = "value" /\ Mapped(a.value, a.arg)
                        ELSE a.kind = "key_not_found"
  \/ a.op = "name" /\ IF a.arg.guid = "ps_mapi" /\ ~a.arg.string /\ a.arg.name < FirstNamed
                        THEN a.kind = "value" /\ a.value = a.arg.name
                        ELSE IF \E id \in NamedIds : Mapped(a.arg, id)
                          THEN a.kind = "value" /\ Mapped(a.arg, a.value)
                          ELSE a.kind = "key_not_found"

\* A call that finds all streams good, and during which the file can be read,
\* is answered as documented: the two lookups are inverse to each other, names
\* with the same hash are told apart, and what is not mapped is not found.
AnswersRight == answer # None /\ answer.clean => Right(answer)

\* Whatever the streams have been through, lookup never answers with the id of
\* another property when the name is an id: it may deny it, but no caller reads
\* the wrong property.
IdNamesNeverWrong ==
  answer # None =>
    (answer.op = "name" /\ answer.kind = "value" /\ ~answer.arg.string
       => answer.arg.guid = "ps_mapi" \/ Mapped(answer.arg, answer.value))

\* When the file can be read and the program asks for the names of listed ids
\* only, no call, of any name that is or is not mapped, leaves a stream with a
\* flag set for the next one to stumble over.
NoStreamLeftFlagged == ~faulty => AllOk

\* Every lookup ends, whatever the state of the streams it reads.
Answered == pc # "idle" ~> pc = "idle"

\* nameid.h:134, of lookup(prop_id): "\throws key_not_found<prop_id> If the
\* prop_id doesn't have a named_prop mapping".
UnmappedIdThrows ==
  answer # None =>
    (answer.op = "id" /\ answer.arg >= FirstNamed /\ answer.arg \notin NamedIds
       => answer.kind = "key_not_found")

\* nameid.h:106, of get_prop_count: "\returns The count of named property
\* mappings in this store".  It is, of a file that can be read, after any calls
\* with listed ids.
CountIsTheCount ==
  ~faulty /\ answer # None => (answer.op = "count" => answer.value = Len(Entries))
=============================================================================
