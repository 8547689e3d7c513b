-------------------------- MODULE NameIdMap_proof --------------------------
(***************************************************************************)
(* The two lookups of name_id_map, in every well-formed store and for any  *)
(* sequence of calls, whether the streams can be read or not.              *)
(***************************************************************************)
EXTENDS NameIdMap, TLAPS

\* The program asks for the names of ids that the list has.
Listed == \A id \in AskedIds : id < FirstNamed + Len(Entries)

HasGuid(p) == \E g \in GuidIndexes : AllGuids[g + 1] = p.guid

Constructing == pc \in {"entry", "guid", "string", "return"}

\* What each read of a lookup may rely on, whatever the streams hold.
Flow ==
  /\ pc = "guid_index" => at = 0
  /\ pc \in {"guid_index", "bucket"} => call.op = "name"
  /\ pc \notin {"idle", "guid_index"} /\ call.op = "name" =>
       HasGuid(call.arg) /\ call.arg.guid # "ps_mapi"
  /\ Constructing /\ call.op = "name" =>
       /\ at \in DOMAIN Bucket(call.arg)
       /\ Candidate(Bucket(call.arg)[at], call.arg)
       /\ call.arg.string
  /\ Constructing /\ call.op = "id" => call.arg >= FirstNamed

SafeInv == TypeOK /\ Flow /\ IdNamesNeverWrong

\* What is on the stack of construct, when all went well.
Good ==
  /\ ~faulty => AllOk /\ clean
  /\ pc # "idle" /\ clean => AllOk
  /\ Constructing => Index \in Indexes
  /\ clean /\ pc \in {"guid", "string", "return"} => entry = Entries[Index + 1]
  /\ clean /\ pc = "string" =>
       /\ entry.string
       /\ built = [guid |-> AllGuids[entry.guid + 1], string |-> entry.string, name |-> entry.ref]
  /\ clean /\ pc = "return" => built = PropOf(entry)

\* The candidates that the scan has left behind are others.
Scanned ==
  pc \notin {"idle", "guid_index"} /\ call.op = "name" /\ clean =>
    \A k \in DOMAIN Bucket(call.arg) :
      Candidate(Bucket(call.arg)[k], call.arg) /\ (k < at \/ (k = at /\ pc = "bucket")) =>
        PropOf(Entries[Bucket(call.arg)[k].index + 1]) # call.arg

RightInv == SafeInv /\ Good /\ Scanned /\ AnswersRight /\ CountIsTheCount

-----------------------------------------------------------------------------
(***************************************************************************)
(* The store.                                                              *)
(***************************************************************************)

LEMMA Concatenated ==
  ASSUME NEW S, NEW s \in Seq(S), NEW t \in Seq(S)
  PROVE  /\ Len(s \o t) = Len(s) + Len(t)
         /\ \A i \in 1..(Len(s) + Len(t)) :
              (s \o t)[i] = IF i <= Len(s) THEN s[i] ELSE t[i - Len(s)]
OBVIOUS

LEMMA Triple ==
  ASSUME NEW S, NEW x \in S, NEW y \in S, NEW z \in S
  PROVE  <<x, y, z>> \in Seq(S)
OBVIOUS

LEMMA GuidsAre ==
  /\ Len(KnownGuids) = 3 /\ Len(Guids) \in Nat /\ DOMAIN Guids = 1..Len(Guids)
  /\ Len(AllGuids) = 3 + Len(Guids)
  /\ \A i \in 1..(3 + Len(Guids)) :
       AllGuids[i] = IF i <= 3 THEN KnownGuids[i] ELSE Guids[i - 3]
<1> DEFINE known == KnownGuids
           S == {known[i] : i \in DOMAIN known} \cup {Guids[i] : i \in DOMAIN Guids}
<1>1. known \in Seq(S) /\ Len(known) = 3
  <2>1. known = <<"ps_none", "ps_mapi", "ps_public_strings">>
    BY DEF KnownGuids
  <2>2. DOMAIN known = 1..3 /\ Len(known) = 3
    BY <2>1
  <2>3. known = <<known[1], known[2], known[3]>>
    BY <2>1
  <2>4. known[1] \in S /\ known[2] \in S /\ known[3] \in S
    BY <2>2
  <2> HIDE DEF known, S
  <2>5. <<known[1], known[2], known[3]>> \in Seq(S)
    BY <2>4, Triple
  <2>6. known \in Seq(S)
    BY <2>3, <2>5
  <2> QED
    BY <2>2, <2>6
<1>2. Guids \in Seq(S) /\ Len(Guids) \in Nat /\ DOMAIN Guids = 1..Len(Guids)
  BY StreamsAssumption
<1>3. AllGuids = known \o Guids
  BY DEF AllGuids
<1> HIDE DEF known, S
<1>4. known \in Seq(S) /\ Guids \in Seq(S)
  BY <1>1, <1>2
<1>5. /\ Len(known \o Guids) = Len(known) + Len(Guids)
      /\ \A i \in 1..(Len(known) + Len(Guids)) :
           (known \o Guids)[i] = IF i <= Len(known) THEN known[i] ELSE Guids[i - Len(known)]
  BY <1>4, Concatenated
<1>6. /\ Len(known) = 3 /\ Len(AllGuids) = 3 + Len(Guids)
      /\ \A i \in 1..(3 + Len(Guids)) :
           AllGuids[i] = IF i <= 3 THEN known[i] ELSE Guids[i - 3]
  BY <1>1, <1>3, <1>5
<1> QED
  BY <1>2, <1>6 DEF known

LEMMA Guid ==
  ASSUME NEW g \in GuidIndexes
  PROVE  /\ g < Len(KnownGuids) => AllGuids[g + 1] = KnownGuids[g + 1]
         /\ \/ \E h \in 1..Len(KnownGuids) : AllGuids[g + 1] = KnownGuids[h]
            \/ \E h \in DOMAIN Guids : AllGuids[g + 1] = Guids[h]
<1>1. g \in Nat /\ g < 3 + Len(Guids)
  BY GuidsAre DEF GuidIndexes
<1>2. CASE g < 3
  BY <1>1, <1>2, GuidsAre
<1>3. CASE g >= 3
  <2>1. g - 2 \in 1..Len(Guids) /\ AllGuids[g + 1] = Guids[g - 2]
    BY <1>1, <1>3, GuidsAre
  <2> QED
    BY <1>1, <1>3, <2>1, GuidsAre
<1> QED
  BY <1>1, <1>2, <1>3

LEMMA GuidIndexOf ==
  ASSUME NEW p, HasGuid(p)
  PROVE  GuidIndex(p) \in GuidIndexes /\ AllGuids[GuidIndex(p) + 1] = p.guid
BY DEF HasGuid, GuidIndex

LEMMA EntryAt ==
  ASSUME NEW i \in Indexes
  PROVE  /\ i \in Nat /\ i < Len(Entries) /\ i + 1 \in DOMAIN Entries
         /\ Entries[i + 1].guid \in GuidIndexes /\ Entries[i + 1].guid # 1
         /\ Entries[i + 1].string \in BOOLEAN
         /\ Entries[i + 1].string => Entries[i + 1].ref \in DOMAIN Text
<1>1. i \in Nat /\ i < Len(Entries) /\ i + 1 \in DOMAIN Entries
  BY StreamsAssumption DEF Indexes
<1> QED
  BY <1>1, StreamsAssumption

LEMMA InBucket ==
  ASSUME NEW p, NEW k \in DOMAIN Bucket(p)
  PROVE  k \in Nat \ {0} /\ \E i \in Indexes : Bucket(p)[k] = HashEntry(i)
<1> DEFINE b == BucketOf[GuidIndex(p), p.string, HashBase(p)]
           S == {HashEntry(i) : i \in Indexes}
<1>1. CASE b \in DOMAIN Buckets
  <2>1. Bucket(p) = Buckets[b] /\ Buckets[b] \in Seq(S)
    BY <1>1, BucketAssumption DEF Bucket
  <2> HIDE DEF b, S
  <2>2. Bucket(p)[k] \in S /\ k \in Nat \ {0}
    BY <2>1
  <2> QED
    BY <2>2 DEF S
<1>2. CASE b \notin DOMAIN Buckets
  <2>1. Bucket(p) = <<>>
    BY <1>2 DEF Bucket
  <2> QED
    BY <2>1
<1> QED
  BY <1>1, <1>2

\* A candidate is the property, but for its string.
LEMMA CandidateIsNamed ==
  ASSUME NEW p \in AskedProps, HasGuid(p), NEW k \in DOMAIN Bucket(p),
         Candidate(Bucket(p)[k], p)
  PROVE  LET i == Bucket(p)[k].index
             q == PropOf(Entries[i + 1])
         IN /\ i \in Indexes
            /\ q.guid = p.guid /\ q.string = p.string
            /\ ~p.string \/ q.name = p.name => q = p
<1>1. PICK i \in Indexes : Bucket(p)[k] = HashEntry(i)
  BY InBucket
<1> DEFINE e == Entries[i + 1]
           q == PropOf(e)
<1>2. /\ HashEntry(i).index = i /\ HashEntry(i).string = e.string
      /\ HashEntry(i).guid = e.guid /\ HashEntry(i).base = HashBase(q)
  BY DEF HashEntry
<1>3. e.string = p.string /\ e.guid = GuidIndex(p) /\ HashBase(q) = HashBase(p)
  BY <1>1, <1>2 DEF Candidate
<1>4. q.guid = AllGuids[e.guid + 1] /\ q.string = e.string
      /\ q = [guid |-> q.guid, string |-> q.string, name |-> q.name]
  BY DEF PropOf
<1>5. p = [guid |-> p.guid, string |-> p.string, name |-> p.name] /\ p.string \in BOOLEAN
  BY ProgramAssumption
<1>6. q.guid = p.guid /\ q.string = p.string
  BY <1>3, <1>4, GuidIndexOf
<1>7. ~p.string => q.name = p.name
  BY <1>3, <1>6 DEF HashBase
<1>8. q.name = p.name => q = p
  BY <1>4, <1>5, <1>6
<1>9. Bucket(p)[k].index = i
  BY <1>1, <1>2
<1> HIDE DEF e, q
<1> QED
  BY <1>6, <1>7, <1>8, <1>9 DEF e, q

\* The entry of a property is a candidate for it.
LEMMA NamedIsCandidate ==
  ASSUME NEW p, HasGuid(p), NEW i \in Indexes, PropOf(Entries[i + 1]) = p
  PROVE  \E k \in DOMAIN Bucket(p) : Candidate(Bucket(p)[k], p) /\ Bucket(p)[k].index = i
<1> DEFINE e == Entries[i + 1]
           h == HashEntry(i)
           b == BucketOf[h.guid, h.string, h.base]
<1>1. h.index = i /\ h.string = e.string /\ h.guid = e.guid /\ h.base = HashBase(p)
  BY DEF HashEntry
<1>2. p.string = e.string /\ p.guid = AllGuids[e.guid + 1]
  BY DEF PropOf
<1>3. e.guid = GuidIndex(p)
  BY <1>2, GuidIndexOf, EntryAt, StreamsAssumption
<1>4. b = BucketOf[GuidIndex(p), p.string, HashBase(p)]
  BY <1>1, <1>2, <1>3
<1>5. b \in DOMAIN Buckets /\ \E k \in DOMAIN Buckets[b] : Buckets[b][k] = h
  BY BucketAssumption
<1>6. Bucket(p) = Buckets[b]
  BY <1>4, <1>5 DEF Bucket
<1> HIDE DEF b, h, e
<1> QED
  BY <1>1, <1>2, <1>3, <1>5, <1>6 DEF Candidate

-----------------------------------------------------------------------------
(***************************************************************************)
(* What the lookups keep to, whatever the streams hold and the program     *)
(* asks for.                                                               *)
(***************************************************************************)

LEMMA Asked ==
  ASSUME NEW c \in Calls
  PROVE  \/ c.op = "name" /\ c.arg \in AskedProps
         \/ c.op = "id" /\ c.arg \in AskedIds
BY DEF Calls

LEMMA SafeInit == Init => SafeInv
BY DEF Init, SafeInv, TypeOK, Flow, Constructing, IdNamesNeverWrong, Streams

\* A call that is answered without a step.
LEMMA SafeAtOnce ==
  ASSUME SafeInv, UNCHANGED <<faulty, call, pc, at, entry, built, clean>>,
         ok' \in [Streams -> BOOLEAN],
         answer'.op # "name"
  PROVE  SafeInv'
<1>1. TypeOK'
  BY DEF SafeInv, TypeOK
<1>2. Flow'
  BY DEF SafeInv, Flow, Constructing
<1>3. IdNamesNeverWrong'
  BY DEF IdNamesNeverWrong
<1> QED
  BY <1>1, <1>2, <1>3 DEF SafeInv

\* A lookup that ends.
LEMMA SafeFinish ==
  ASSUME SafeInv, NEW kind, NEW value, NEW good,
         pc # "idle", faulty' = faulty, ok' \in [Streams -> BOOLEAN],
         Finish(kind, value, good),
         call.op = "name" /\ kind = "value" /\ ~call.arg.string =>
           call.arg.guid = "ps_mapi" \/ Mapped(call.arg, value)
  PROVE  SafeInv'
<1>1. TypeOK'
  BY DEF SafeInv, TypeOK, Finish
<1>2. Flow'
  BY DEF SafeInv, Flow, Constructing, Finish
<1>3. IdNamesNeverWrong'
  BY DEF IdNamesNeverWrong, Finish, Answer
<1> QED
  BY <1>1, <1>2, <1>3 DEF SafeInv

LEMMA SafeCall == SafeInv /\ Call /\ UNCHANGED faulty => SafeInv'
<1> SUFFICES ASSUME SafeInv, Call, UNCHANGED faulty
             PROVE  SafeInv'
  OBVIOUS
<1> USE DEF SafeInv
<1>1. CASE GetPropCount
  BY <1>1, SafeAtOnce DEF GetPropCount, AnswerAtOnce, Answer, TypeOK
<1>2. CASE GetPropList
  <2>1. answer'.op # "name"
    BY <1>2 DEF GetPropList, Answer
  <2>2. ok' \in [Streams -> BOOLEAN] /\ UNCHANGED <<call, pc, at, entry, built, clean>>
    BY <1>2 DEF GetPropList, TypeOK
  <2> QED
    BY <2>1, <2>2, SafeAtOnce
<1>3. ASSUME NEW id \in AskedIds, PropIdExists(id)
      PROVE  SafeInv'
  BY <1>3, SafeAtOnce DEF PropIdExists, AnswerAtOnce, Answer, TypeOK
<1>4. ASSUME NEW id \in AskedIds, LookupId(id)
      PROVE  SafeInv'
  <2>1. CASE id < FirstNamed
    BY <1>4, <2>1, SafeAtOnce DEF LookupId, AnswerAtOnce, Answer, TypeOK
  <2>2. CASE ~(id < FirstNamed) /\ OutOfRange(id)
    BY <1>4, <2>2, SafeAtOnce DEF LookupId, Answer, TypeOK
  <2>3. CASE ~(id < FirstNamed) /\ ~OutOfRange(id)
    <3>1. Ask("id", id, "entry")
      BY <1>4, <2>3 DEF LookupId
    <3>2. call' \in Calls /\ call'.op = "id" /\ call'.arg = id /\ call' # None
      BY <3>1, ProgramAssumption DEF Ask, Calls
    <3>3. TypeOK'
      BY <3>1, <3>2 DEF TypeOK, Ask, AllOk
    <3>4. Flow'
      BY <2>3, <3>1, <3>2, ProgramAssumption, StreamsAssumption DEF Flow, Constructing, Ask
    <3>5. IdNamesNeverWrong'
      BY <3>1 DEF IdNamesNeverWrong, Ask
    <3> QED
      BY <3>3, <3>4, <3>5
  <2> QED
    BY <2>1, <2>2, <2>3
<1>5. ASSUME NEW p \in AskedProps, LookupName(p)
      PROVE  SafeInv'
  <2>1. Ask("name", p, "guid_index")
    BY <1>5 DEF LookupName
  <2>2. call' \in Calls /\ call'.op = "name" /\ call' # None
    BY <2>1, ProgramAssumption DEF Ask, Calls
  <2>3. TypeOK'
    BY <2>1, <2>2 DEF TypeOK, Ask, AllOk
  <2>4. Flow'
    BY <2>1, <2>2 DEF Flow, Constructing, Ask
  <2>5. IdNamesNeverWrong'
    BY <2>1 DEF IdNamesNeverWrong, Ask
  <2> QED
    BY <2>3, <2>4, <2>5
<1> QED
  BY <1>1, <1>2, <1>3, <1>4, <1>5 DEF Call

\* A step within construct.
LEMMA SafeRead ==
  ASSUME SafeInv, Constructing, Constructing',
         UNCHANGED <<faulty, call, at, answer>>,
         ok' \in [Streams -> BOOLEAN], clean' \in BOOLEAN
  PROVE  SafeInv'
<1>1. TypeOK'
  BY DEF SafeInv, TypeOK, Constructing
<1>2. Flow'
  BY DEF SafeInv, Flow, Constructing
<1>3. IdNamesNeverWrong'
  BY DEF SafeInv, IdNamesNeverWrong
<1> QED
  BY <1>1, <1>2, <1>3 DEF SafeInv

LEMMA FlagsType ==
  ASSUME TypeOK, NEW s \in Streams, NEW inside,
         Serves(s, inside) \/ Flags(s, inside)
  PROVE  ok' \in [Streams -> BOOLEAN] /\ clean' \in BOOLEAN
BY DEF TypeOK, Serves, Flags

LEMMA SafeStep == SafeInv /\ Step /\ UNCHANGED faulty => SafeInv'
<1> SUFFICES ASSUME SafeInv, Step, UNCHANGED faulty
             PROVE  SafeInv'
  OBVIOUS
<1>0. ok \in [Streams -> BOOLEAN] /\ clean \in BOOLEAN /\ TypeOK /\ Flow
  BY DEF SafeInv, TypeOK
<1>1. CASE GuidFound
  <2>1. CASE call.arg.guid = "ps_mapi"
    <3>1. PICK kind, value : Finish(kind, value, clean)
      BY <1>1, <2>1 DEF GuidFound
    <3> QED
      BY <1>0, <1>1, <2>1, <3>1, SafeFinish DEF GuidFound
  <2>2. CASE call.arg.guid # "ps_mapi"
    <3>1. pc = "guid_index" /\ pc' = "bucket" /\ UNCHANGED <<ok, call, at, entry, built, answer, clean>>
          /\ HasGuid(call.arg)
      BY <1>1, <2>2 DEF GuidFound, HasGuid
    <3>2. TypeOK'
      BY <1>0, <3>1 DEF TypeOK
    <3>3. Flow'
      BY <1>0, <2>2, <3>1 DEF Flow, Constructing
    <3>4. IdNamesNeverWrong'
      BY <3>1 DEF SafeInv, IdNamesNeverWrong
    <3> QED
      BY <3>2, <3>3, <3>4 DEF SafeInv
  <2> QED
    BY <2>1, <2>2
<1>2. CASE GuidNotFound
  <2>1. PICK good : Finish("key_not_found", 0, good)
    BY <1>2 DEF GuidNotFound
  <2> QED
    BY <1>0, <1>2, <2>1, SafeFinish DEF GuidNotFound
<1>3. CASE Scan
  <2>1. PICK k \in DOMAIN Bucket(call.arg) :
          /\ NextCandidate(k)
          /\ IF call.arg.string
               THEN at' = k /\ pc' = "entry" /\ UNCHANGED <<call, entry, built, answer, clean>>
               ELSE Finish("value", FirstNamed + Bucket(call.arg)[k].index, clean)
    BY <1>3 DEF Scan
  <2>2. /\ pc = "bucket" /\ ok' = ok /\ call.op = "name" /\ HasGuid(call.arg)
        /\ call.arg.guid # "ps_mapi" /\ call.arg \in AskedProps
        /\ Candidate(Bucket(call.arg)[k], call.arg)
    BY <1>0, <1>3, <2>1, Asked DEF Scan, Flow, TypeOK, NextCandidate
  <2>3. CASE call.arg.string
    <3>1. TypeOK'
      BY <1>0, <2>1, <2>2, <2>3, InBucket DEF TypeOK
    <3>2. Flow'
      BY <1>0, <2>1, <2>2, <2>3 DEF Flow, Constructing
    <3>3. IdNamesNeverWrong'
      BY <2>1, <2>3 DEF SafeInv, IdNamesNeverWrong
    <3> QED
      BY <3>1, <3>2, <3>3 DEF SafeInv
  <2>4. CASE ~call.arg.string
    <3>1. Mapped(call.arg, FirstNamed + Bucket(call.arg)[k].index)
      BY <2>2, <2>4, CandidateIsNamed DEF Mapped
    <3> QED
      BY <1>0, <2>1, <2>2, <2>4, <3>1, SafeFinish
  <2> QED
    BY <2>3, <2>4
<1>4. CASE ScanEnds
  BY <1>0, <1>4, SafeFinish DEF ScanEnds
<1>5. CASE ScanFails
  <2>1. PICK kind \in {"failed", "key_not_found"} : Finish(kind, 0, FALSE)
    BY <1>5 DEF ScanFails
  <2> QED
    BY <1>0, <1>5, <2>1, SafeFinish DEF ScanFails
<1>6. CASE ReadEntry
  <2>1. ok' \in [Streams -> BOOLEAN] /\ clean' \in BOOLEAN
    BY <1>0, <1>6, FlagsType DEF ReadEntry, Streams
  <2> QED
    BY <1>6, <2>1, SafeRead DEF ReadEntry, Constructing
<1>7. CASE ReadGuid
  <2>1. ok' \in [Streams -> BOOLEAN] /\ clean' \in BOOLEAN
    BY <1>0, <1>7, FlagsType DEF ReadGuid, Streams
  <2>2. Constructing /\ Constructing' /\ UNCHANGED <<call, at, answer>>
    BY <1>7 DEF ReadGuid, Build, Constructing
  <2> QED
    BY <2>1, <2>2, SafeRead
<1>8. CASE ReadString
  <2>1. CASE pc' = "return"
    <3>1. ok' \in [Streams -> BOOLEAN] /\ clean' \in BOOLEAN
      BY <1>0, <1>8, <2>1, FlagsType DEF ReadString, Streams, Finish
    <3>2. Constructing /\ Constructing' /\ UNCHANGED <<call, at, answer>>
      BY <1>8, <2>1 DEF ReadString, Constructing, Finish
    <3> QED
      BY <3>1, <3>2, SafeRead
  <2>2. CASE pc' # "return"
    <3>1. /\ ok' = [ok EXCEPT !["string"] = FALSE]
          /\ \E good : Finish("failed", 0, good)
      BY <1>8, <2>2 DEF ReadString
    <3>2. PICK good : Finish("failed", 0, good)
      BY <3>1
    <3> QED
      BY <1>0, <1>8, <3>1, <3>2, SafeFinish DEF ReadString
  <2> QED
    BY <2>1, <2>2
<1>9. CASE Return
  <2>1. CASE call.op = "id"
    BY <1>0, <1>9, <2>1, SafeFinish DEF Return
  <2>2. CASE call.op # "id" /\ built.string /\ built.name = call.arg.name
    <3>1. call.arg.string
      BY <1>0, <1>9, <2>2, Asked DEF Return, Flow, Constructing, TypeOK
    <3> QED
      BY <1>0, <1>9, <2>2, <3>1, SafeFinish DEF Return
  <2>3. CASE call.op # "id" /\ ~(built.string /\ built.name = call.arg.name)
    <3>1. pc = "return" /\ pc' = "bucket" /\ UNCHANGED <<ok, call, at, entry, built, answer, clean>>
      BY <1>9, <2>3 DEF Return
    <3>2. call.op = "name"
      BY <1>0, <2>3, <3>1, Asked DEF TypeOK
    <3>3. TypeOK'
      BY <1>0, <3>1 DEF TypeOK
    <3>4. Flow'
      BY <1>0, <3>1, <3>2 DEF Flow, Constructing
    <3>5. IdNamesNeverWrong'
      BY <3>1 DEF SafeInv, IdNamesNeverWrong
    <3> QED
      BY <3>3, <3>4, <3>5 DEF SafeInv
  <2> QED
    BY <2>1, <2>2, <2>3
<1> QED
  BY <1>1, <1>2, <1>3, <1>4, <1>5, <1>6, <1>7, <1>8, <1>9 DEF Step

LEMMA SafeAlways == Spec => []SafeInv
<1>1. SafeInv /\ [Next]_vars => SafeInv'
  <2>1. SafeInv /\ Next => SafeInv'
    BY SafeCall, SafeStep DEF Next
  <2>2. SafeInv /\ UNCHANGED vars => SafeInv'
    BY DEF vars, SafeInv, TypeOK, Flow, Constructing, IdNamesNeverWrong
  <2> QED
    BY <2>1, <2>2
<1> QED
  BY <1>1, SafeInit, PTL DEF Spec

\* Whatever the program asks for and whatever reading the file does, the
\* variables of the map keep to their types.
THEOREM TypeCorrect == Spec => []TypeOK
BY SafeAlways, PTL DEF SafeInv

\* lookup(named_prop) never answers with the id of another property when the
\* name is an id: in any well-formed store, for any program, with streams in
\* whatever state earlier calls have left them.
THEOREM NamesNeverWrong == Spec => []IdNamesNeverWrong
BY SafeAlways, PTL DEF SafeInv

-----------------------------------------------------------------------------
(***************************************************************************)
(* What holds when the streams are good.                                   *)
(***************************************************************************)

LEMMA RightInit == Init => RightInv
BY SafeInit DEF Init, RightInv, Good, Scanned, Constructing, AnswersRight, CountIsTheCount, AllOk

LEMMA NamedRange ==
  ASSUME NEW id
  PROVE  id \in NamedIds <=> id \in Nat /\ FirstNamed <= id /\ id < FirstNamed + Len(Entries)
<1>1. FirstNamed \in Nat /\ Len(Entries) \in Nat
  BY StreamsAssumption
<1>2. ASSUME id \in Nat, FirstNamed <= id, id < FirstNamed + Len(Entries)
      PROVE  id \in NamedIds
  <2>1. id - FirstNamed \in Indexes /\ id = FirstNamed + (id - FirstNamed)
    BY <1>1, <1>2 DEF Indexes
  <2> QED
    BY <2>1 DEF NamedIds
<1> QED
  BY <1>1, <1>2 DEF NamedIds, Indexes

\* A call that is answered without a step, from good streams only if its answer
\* is right, and that sets no flag.
LEMMA RightAtOnce ==
  ASSUME RightInv, SafeInv', pc = "idle",
         UNCHANGED <<faulty, call, pc, at, entry, built, clean>>,
         AllOk => AllOk',
         AnswersRight', CountIsTheCount'
  PROVE  RightInv'
<1>1. Good'
  BY DEF RightInv, Good, Constructing
<1>2. Scanned'
  BY DEF RightInv, Scanned
<1> QED
  BY <1>1, <1>2 DEF RightInv

\* A lookup that is called.
LEMMA RightAsk ==
  ASSUME RightInv, SafeInv', NEW op, NEW arg, NEW next \in {"guid_index", "entry"},
         Ask(op, arg, next), faulty' = faulty,
         next = "entry" => op = "id" /\ arg - FirstNamed \in Indexes
  PROVE  RightInv'
<1>1. Good'
  BY DEF RightInv, Good, Constructing, Ask, AllOk, Index
<1>2. Scanned'
  BY DEF RightInv, Scanned, Ask
<1>3. AnswersRight' /\ CountIsTheCount'
  BY DEF RightInv, AnswersRight, CountIsTheCount, Ask
<1> QED
  BY <1>1, <1>2, <1>3 DEF RightInv

\* A lookup that ends.
LEMMA RightFinish ==
  ASSUME RightInv, SafeInv', NEW kind, NEW value, NEW good,
         pc # "idle", faulty' = faulty, Finish(kind, value, good),
         ~faulty => AllOk',
         good => Right([op |-> call.op, arg |-> call.arg, kind |-> kind, value |-> value, clean |-> good])
  PROVE  RightInv'
<1>1. Good'
  BY DEF RightInv, Good, Constructing, Finish
<1>2. Scanned'
  BY DEF Scanned, Finish
<1>3. AnswersRight'
  BY DEF AnswersRight, Finish, Answer
<1>4. CountIsTheCount'
  <2>1. call.op # "count"
    BY Asked DEF RightInv, SafeInv, TypeOK
  <2> QED
    BY <2>1 DEF CountIsTheCount, Finish, Answer
<1> QED
  BY <1>1, <1>2, <1>3, <1>4 DEF RightInv

LEMMA RightCall ==
  ASSUME Listed, RightInv, Call, UNCHANGED faulty
  PROVE  RightInv'
<1>0. SafeInv' /\ SafeInv /\ TypeOK /\ Good
  BY SafeCall DEF RightInv, SafeInv
<1>a. AskedIds \subseteq Nat /\ FirstNamed \in Nat /\ Len(Entries) \in Nat
  BY ProgramAssumption, StreamsAssumption
<1>1. CASE GetPropCount
  <2>1. /\ pc = "idle" /\ UNCHANGED <<ok, call, pc, at, entry, built, clean>>
        /\ answer' = [op |-> "count", arg |-> 0, kind |-> "value", value |-> Count, clean |-> AllOk]
    BY <1>1 DEF GetPropCount, AnswerAtOnce, Answer
  <2>2. AllOk => Count = Len(Entries)
    BY DEF AllOk, Streams, Count
  <2>3. AnswersRight'
    BY <2>1, <2>2 DEF AnswersRight, Right
  <2>4. CountIsTheCount'
    BY <1>0, <2>1, <2>2 DEF CountIsTheCount, Good
  <2> QED
    BY <1>0, <2>1, <2>3, <2>4, RightAtOnce DEF AllOk
<1>2. CASE GetPropList
  <2>1. PICK n : answer' = [op |-> "list", arg |-> 0, kind |-> "value",
                            value |-> {FirstNamed + i : i \in 0..(n - 1)},
                            clean |-> AllOk /\ n = Len(Entries)]
    BY <1>2 DEF GetPropList, Answer
  <2>2. pc = "idle" /\ UNCHANGED <<call, pc, at, entry, built, clean>> /\ (AllOk => AllOk')
    BY <1>0, <1>2 DEF GetPropList, AllOk, TypeOK
  <2>3. AnswersRight'
    BY <2>1 DEF AnswersRight, Right, NamedIds, Indexes
  <2>4. CountIsTheCount'
    BY <2>1 DEF CountIsTheCount
  <2> QED
    BY <1>0, <2>2, <2>3, <2>4, RightAtOnce
<1>3. ASSUME NEW id \in AskedIds, PropIdExists(id)
      PROVE  RightInv'
  <2> DEFINE exists == id < FirstNamed \/ id - FirstNamed < Count
  <2>1. /\ pc = "idle" /\ UNCHANGED <<ok, call, pc, at, entry, built, clean>>
        /\ answer' = [op |-> "exists", arg |-> id, kind |-> "value", value |-> exists, clean |-> AllOk]
    BY <1>3 DEF PropIdExists, AnswerAtOnce, Answer
  <2>2. AllOk => (exists = (id < FirstNamed \/ id \in NamedIds))
    <3>1. AllOk => Count = Len(Entries)
      BY DEF AllOk, Streams, Count
    <3> QED
      BY <1>a, <3>1, NamedRange
  <2> HIDE DEF exists
  <2>3. AnswersRight'
    BY <2>1, <2>2 DEF AnswersRight, Right
  <2>4. CountIsTheCount'
    BY <2>1 DEF CountIsTheCount
  <2> QED
    BY <1>0, <2>1, <2>3, <2>4, RightAtOnce DEF AllOk
<1>4. ASSUME NEW id \in AskedIds, LookupId(id)
      PROVE  RightInv'
  <2>1. CASE id < FirstNamed
    <3>1. /\ pc = "idle" /\ UNCHANGED <<ok, call, pc, at, entry, built, clean>>
          /\ answer' = [op |-> "id", arg |-> id, kind |-> "value", value |-> MapiProp(id), clean |-> AllOk]
      BY <1>4, <2>1 DEF LookupId, AnswerAtOnce, Answer
    <3>2. AnswersRight' /\ CountIsTheCount'
      BY <2>1, <3>1 DEF AnswersRight, Right, CountIsTheCount
    <3> QED
      BY <1>0, <3>1, <3>2, RightAtOnce DEF AllOk
  <2>2. CASE ~(id < FirstNamed) /\ OutOfRange(id)
    <3>1. /\ pc = "idle" /\ UNCHANGED <<ok, call, pc, at, entry, built, clean>>
          /\ answer' = [op |-> "id", arg |-> id, kind |-> "key_not_found", value |-> 0, clean |-> AllOk]
      BY <1>4, <2>2 DEF LookupId, Answer
    <3>2. ~AllOk
      <4>1. AllOk => Count = Len(Entries)
        BY DEF AllOk, Streams, Count
      <4> QED
        BY <1>a, <2>2, <4>1 DEF OutOfRange, Listed
    <3>3. AnswersRight' /\ CountIsTheCount'
      BY <3>1, <3>2 DEF AnswersRight, CountIsTheCount
    <3> QED
      BY <1>0, <3>1, <3>3, RightAtOnce DEF AllOk
  <2>3. CASE ~(id < FirstNamed) /\ ~OutOfRange(id)
    <3>1. Ask("id", id, "entry")
      BY <1>4, <2>3 DEF LookupId
    <3>2. id - FirstNamed \in Indexes
      BY <1>a, <2>3 DEF Listed, Indexes
    <3> QED
      BY <1>0, <3>1, <3>2, RightAsk
  <2> QED
    BY <2>1, <2>2, <2>3
<1>5. ASSUME NEW p \in AskedProps, LookupName(p)
      PROVE  RightInv'
  BY <1>0, <1>5, RightAsk DEF LookupName
<1> QED
  BY <1>1, <1>2, <1>3, <1>4, <1>5 DEF Call

\* A lookup of a name is right to find the property whose entry has the name,
\* and to find nothing if there is none.
LEMMA RightName ==
  ASSUME NEW p \in AskedProps, p.guid # "ps_mapi", NEW kind, NEW value, NEW good,
         \/ kind = "value" /\ Mapped(p, value)
         \/ kind = "key_not_found" /\ \A i \in Indexes : PropOf(Entries[i + 1]) # p
  PROVE  Right([op |-> "name", arg |-> p, kind |-> kind, value |-> value, clean |-> good])
<1>1. CASE kind = "value" /\ Mapped(p, value)
  <2>1. PICK i \in Indexes : PropOf(Entries[i + 1]) = p /\ value = FirstNamed + i
    BY <1>1 DEF Mapped
  <2>2. \E id \in NamedIds : Mapped(p, id)
    BY <1>1, <2>1 DEF NamedIds
  <2> QED
    BY <1>1, <2>2 DEF Right
<1>2. CASE kind = "key_not_found" /\ \A i \in Indexes : PropOf(Entries[i + 1]) # p
  <2>1. ~\E id \in NamedIds : Mapped(p, id)
    BY <1>2 DEF Mapped
  <2> QED
    BY <1>2, <2>1 DEF Right
<1> QED
  BY <1>1, <1>2

\* No entry has the guid of the MAPI properties.
LEMMA MapiUnnamed ==
  ASSUME NEW i \in Indexes
  PROVE  PropOf(Entries[i + 1]).guid # "ps_mapi"
<1>1. AllGuids[2] = "ps_mapi" /\ 1 \in GuidIndexes
  BY GuidsAre DEF GuidIndexes, KnownGuids
<1>2. PropOf(Entries[i + 1]).guid = AllGuids[Entries[i + 1].guid + 1]
  BY DEF PropOf
<1>3. AllGuids[Entries[i + 1].guid + 1] = AllGuids[1 + 1] => Entries[i + 1].guid = 1
  BY <1>1, EntryAt, StreamsAssumption
<1> QED
  BY <1>1, <1>2, <1>3, EntryAt

\* A read of construct that is not served, of something that is there unless the
\* streams are not good: the file cannot be read, and the answer is not expected
\* to be right.
LEMMA FlagsUnclean ==
  ASSUME RightInv, pc # "idle", NEW s \in Streams, NEW inside \in BOOLEAN,
         clean => inside, Flags(s, inside)
  PROVE  faulty /\ ~clean'
BY DEF RightInv, Good, Flags, AllOk

\* A step within construct.
LEMMA RightRead ==
  ASSUME RightInv, SafeInv', Constructing, Constructing', pc' # "entry",
         UNCHANGED <<faulty, call, at, answer>>,
         \/ UNCHANGED <<ok, clean>>
         \/ faulty /\ ~clean',
         clean' /\ clean =>
           /\ entry' = Entries[Index + 1]
           /\ pc' = "string" =>
                /\ entry'.string
                /\ built' = [guid |-> AllGuids[entry'.guid + 1], string |-> entry'.string,
                             name |-> entry'.ref]
           /\ pc' = "return" => built' = PropOf(entry')
  PROVE  RightInv'
<1>0. pc # "idle" /\ pc' # "idle"
  BY DEF Constructing
<1>2. Index' = Index
  BY DEF Index
<1>3. Good'
  BY <1>0, <1>2 DEF RightInv, Good, Constructing, AllOk
<1>4. Scanned'
  BY DEF RightInv, Scanned, Constructing
<1>5. AnswersRight' /\ CountIsTheCount'
  BY DEF RightInv, AnswersRight, CountIsTheCount
<1> QED
  BY <1>3, <1>4, <1>5 DEF RightInv

LEMMA RightStep ==
  ASSUME RightInv, Step, UNCHANGED faulty
  PROVE  RightInv'
<1>0. /\ SafeInv' /\ SafeInv /\ TypeOK /\ Flow /\ Good /\ Scanned
      /\ ok \in [Streams -> BOOLEAN] /\ faulty' = faulty
  BY SafeStep DEF RightInv, SafeInv, TypeOK
<1>a. pc # "idle" => \/ call.op = "name" /\ call.arg \in AskedProps
                     \/ call.op = "id" /\ call.arg \in AskedIds
  BY <1>0, Asked DEF TypeOK
<1>b. ~faulty => AllOk /\ clean
  BY <1>0 DEF Good
<1> DEFINE arg == call.arg
           IsNamed(i) == PropOf(Entries[i + 1]) = arg
<1>1. CASE GuidFound
  <2>1. pc = "guid_index" /\ ok' = ok /\ call.op = "name" /\ arg \in AskedProps
    BY <1>0, <1>1, <1>a DEF GuidFound, Flow
  <2>2. CASE arg.guid = "ps_mapi"
    <3>1. \A i \in Indexes : ~IsNamed(i)
      BY <2>2, MapiUnnamed
    <3>2. ~\E id \in NamedIds : Mapped(arg, id)
      BY <3>1 DEF Mapped
    <3>3. CASE arg.string \/ arg.name >= FirstNamed
      <4>1. Finish("key_not_found", 0, clean)
        BY <1>1, <2>2, <3>3 DEF GuidFound
      <4>2. ~(~arg.string /\ arg.name < FirstNamed)
        BY <2>1, <3>3, ProgramAssumption, StreamsAssumption
      <4>3. Right([op |-> call.op, arg |-> call.arg, kind |-> "key_not_found", value |-> 0, clean |-> clean])
        BY <2>1, <3>2, <4>2 DEF Right
      <4> QED
        BY <1>0, <1>b, <2>1, <4>1, <4>3, RightFinish DEF AllOk
    <3>4. CASE ~(arg.string \/ arg.name >= FirstNamed)
      <4>1. Finish("value", arg.name, clean)
        BY <1>1, <2>2, <3>4 DEF GuidFound
      <4>2. ~arg.string /\ arg.name < FirstNamed
        BY <2>1, <3>4, ProgramAssumption, StreamsAssumption
      <4>3. Right([op |-> call.op, arg |-> call.arg, kind |-> "value", value |-> arg.name, clean |-> clean])
        BY <2>1, <2>2, <4>2 DEF Right
      <4> QED
        BY <1>0, <1>b, <2>1, <4>1, <4>3, RightFinish DEF AllOk
    <3> QED
      BY <3>3, <3>4
  <2>3. CASE arg.guid # "ps_mapi"
    <3>1. pc' = "bucket" /\ UNCHANGED <<call, at, entry, built, answer, clean>>
      BY <1>1, <2>3 DEF GuidFound
    <3>2. Good'
      BY <1>0, <2>1, <3>1 DEF Good, Constructing, AllOk
    <3>3. Scanned'
      <4>1. at' = 0 /\ call' = call
        BY <1>0, <2>1, <3>1 DEF Flow
      <4>2. \A k \in DOMAIN Bucket(arg) : k \in Nat \ {0}
        BY InBucket
      <4>3. \A k \in DOMAIN Bucket(arg) : ~(k < 0 \/ k = 0)
        BY <4>2
      <4> QED
        BY <4>1, <4>3 DEF Scanned
    <3>4. AnswersRight' /\ CountIsTheCount'
      BY <1>0, <3>1 DEF RightInv, AnswersRight, CountIsTheCount
    <3> QED
      BY <1>0, <3>2, <3>3, <3>4 DEF RightInv
  <2> QED
    BY <2>2, <2>3
<1>2. CASE GuidNotFound
  <2> DEFINE here == \E g \in DOMAIN Guids : Guids[g] = arg.guid
  <2>1. /\ pc = "guid_index" /\ call.op = "name" /\ arg \in AskedProps
        /\ \A h \in 1..Len(KnownGuids) : KnownGuids[h] # arg.guid
        /\ ok' = [ok EXCEPT !["guid"] = TRUE]
        /\ Finish("key_not_found", 0, clean /\ ~(here /\ ok["guid"]))
    BY <1>0, <1>2, <1>a DEF GuidNotFound, Flow
  <2>2. arg.guid # "ps_mapi"
    <3>1. KnownGuids[2] = "ps_mapi"
      BY DEF KnownGuids
    <3> QED
      BY <2>1, <3>1, GuidsAre
  <2>3. ~here => \A i \in Indexes : ~IsNamed(i)
    <3>1. \A i \in Indexes : Entries[i + 1].guid \in GuidIndexes
                             /\ PropOf(Entries[i + 1]).guid = AllGuids[Entries[i + 1].guid + 1]
      BY EntryAt DEF PropOf
    <3> QED
      BY <2>1, <3>1, Guid
  <2>4. clean => ok["guid"]
    BY <1>0, <2>1 DEF Good, AllOk, Streams
  <2>5. ~faulty => AllOk'
    BY <1>0, <1>b, <2>1 DEF AllOk
  <2> DEFINE good == clean /\ ~(here /\ ok["guid"])
  <2>6. good => \A i \in Indexes : PropOf(Entries[i + 1]) # arg
    BY <2>3, <2>4
  <2> HIDE DEF here, good
  <2>7. good => Right([op |-> call.op, arg |-> call.arg, kind |-> "key_not_found",
                       value |-> 0, clean |-> good])
    BY <2>1, <2>2, <2>6, RightName
  <2>8. pc # "idle" /\ Finish("key_not_found", 0, good)
    BY <2>1 DEF good
  <2> QED
    BY <1>0, <2>5, <2>7, <2>8, RightFinish
<1>3. CASE Scan
  <2>1. PICK k \in DOMAIN Bucket(call.arg) :
          /\ NextCandidate(k)
          /\ IF call.arg.string
               THEN at' = k /\ pc' = "entry" /\ UNCHANGED <<call, entry, built, answer, clean>>
               ELSE Finish("value", FirstNamed + Bucket(call.arg)[k].index, clean)
    BY <1>3 DEF Scan
  <2>2. /\ pc = "bucket" /\ ok' = ok /\ call.op = "name" /\ HasGuid(arg)
        /\ arg.guid # "ps_mapi" /\ arg \in AskedProps
        /\ Candidate(Bucket(arg)[k], arg) /\ at \in Nat
    BY <1>0, <1>3, <2>1, Asked DEF Scan, Flow, TypeOK, NextCandidate
  <2> DEFINE i == Bucket(arg)[k].index
  <2>3. i \in Indexes /\ (~arg.string => PropOf(Entries[i + 1]) = arg)
    BY <2>2, CandidateIsNamed
  <2>4. CASE arg.string
    <3>1. at' = k /\ pc' = "entry" /\ UNCHANGED <<ok, call, entry, built, answer, clean>>
      BY <2>1, <2>2, <2>4
    <3>2. Index' = i
      BY <2>2, <3>1 DEF Index
    <3>3. Good'
      BY <1>0, <2>2, <2>3, <3>1, <3>2 DEF Good, Constructing, AllOk
    <3>4. Scanned'
      <4>1. ASSUME clean, NEW j \in DOMAIN Bucket(arg), Candidate(Bucket(arg)[j], arg), j < k
            PROVE  PropOf(Entries[Bucket(arg)[j].index + 1]) # arg
        <5>1. j \in Nat /\ k \in Nat
          BY InBucket
        <5>2. j \notin (at + 1)..(k - 1)
          BY <2>1, <4>1 DEF NextCandidate
        <5>3. j < at \/ j = at
          BY <2>2, <4>1, <5>1, <5>2
        <5> QED
          BY <1>0, <2>2, <4>1, <5>3 DEF Scanned
      <4> QED
        BY <3>1, <4>1 DEF Scanned
    <3>5. AnswersRight' /\ CountIsTheCount'
      BY <1>0, <3>1 DEF RightInv, AnswersRight, CountIsTheCount
    <3> QED
      BY <1>0, <3>3, <3>4, <3>5 DEF RightInv
  <2>5. CASE ~arg.string
    <3>1. Finish("value", FirstNamed + i, clean)
      BY <2>1, <2>5
    <3>2. Mapped(arg, FirstNamed + i)
      BY <2>3, <2>5 DEF Mapped
    <3>3. Right([op |-> call.op, arg |-> call.arg, kind |-> "value",
                 value |-> FirstNamed + i, clean |-> clean])
      BY <2>2, <3>2, RightName
    <3> HIDE DEF i
    <3> QED
      BY <1>0, <1>b, <2>2, <3>1, <3>3, RightFinish DEF AllOk
  <2> QED
    BY <2>4, <2>5
<1>4. CASE ScanEnds
  <2>1. /\ pc = "bucket" /\ ok' = ok /\ call.op = "name" /\ HasGuid(arg)
        /\ arg.guid # "ps_mapi" /\ arg \in AskedProps /\ at \in Nat
        /\ \A k \in DOMAIN Bucket(arg) : k > at => ~Candidate(Bucket(arg)[k], arg)
        /\ Finish("key_not_found", 0, clean)
    BY <1>0, <1>4, Asked DEF ScanEnds, Flow, TypeOK
  <2>2. ASSUME clean, NEW i \in Indexes, PropOf(Entries[i + 1]) = arg
        PROVE  FALSE
    <3>1. PICK k \in DOMAIN Bucket(arg) : Candidate(Bucket(arg)[k], arg) /\ Bucket(arg)[k].index = i
      BY <2>1, <2>2, NamedIsCandidate
    <3>2. k \in Nat
      BY InBucket
    <3>3. k < at \/ k = at
      BY <2>1, <3>1, <3>2
    <3> QED
      BY <1>0, <2>1, <2>2, <3>1, <3>3 DEF Scanned
  <2>3. clean => Right([op |-> call.op, arg |-> call.arg, kind |-> "key_not_found",
                        value |-> 0, clean |-> clean])
    BY <2>1, <2>2, RightName
  <2> QED
    BY <1>0, <1>b, <2>1, <2>3, RightFinish DEF AllOk
<1>5. CASE ScanFails
  <2>1. PICK kind \in {"failed", "key_not_found"} : Finish(kind, 0, FALSE)
    BY <1>5 DEF ScanFails
  <2> QED
    BY <1>0, <1>5, <2>1, RightFinish DEF ScanFails
<1>6. CASE ReadEntry
  <2>1. pc = "entry" /\ pc' = "guid" /\ UNCHANGED <<call, at, built, answer>>
        /\ Index \in Indexes
    BY <1>0, <1>6 DEF ReadEntry, Good, Constructing
  <2>2. Constructing /\ Constructing'
    BY <2>1 DEF Constructing
  <2>3. \/ UNCHANGED <<ok, clean>> /\ entry' = Entries[Index + 1]
        \/ Flags("entry", TRUE)
    BY <1>6, <2>1 DEF ReadEntry, Serves
  <2>4. Flags("entry", TRUE) => faulty /\ ~clean'
    BY <2>1, FlagsUnclean DEF Streams
  <2> QED
    BY <1>0, <2>1, <2>2, <2>3, <2>4, RightRead
<1>7. CASE ReadGuid
  <2> DEFINE g == entry.guid
             next == IF entry.string THEN "string" ELSE "return"
  <2>1. pc = "guid" /\ UNCHANGED <<call, at, entry, answer>> /\ pc' = next
    BY <1>7 DEF ReadGuid, Build
  <2>2. Constructing /\ Constructing' /\ pc' # "entry" /\ pc # "idle"
    BY <2>1 DEF Constructing
  <2>3. clean => /\ entry = Entries[Index + 1] /\ Index \in Indexes
                 /\ g \in GuidIndexes /\ entry.string \in BOOLEAN
    BY <1>0, <2>1, <2>2, EntryAt DEF Good
  <2>4. \/ /\ UNCHANGED <<ok, clean>>
           /\ clean => built' = [guid |-> AllGuids[g + 1], string |-> entry.string, name |-> entry.ref]
        \/ faulty /\ ~clean'
    <3>1. CASE g < Len(KnownGuids)
      BY <1>7, <2>3, <3>1, Guid DEF ReadGuid, Build
    <3>2. CASE ~(g < Len(KnownGuids)) /\ Serves("guid", g \in GuidIndexes) /\ Build(AllGuids[g + 1], next)
      BY <3>2 DEF Serves, Build
    <3>3. CASE Flags("guid", g \in GuidIndexes)
      <4> DEFINE inside == g \in GuidIndexes
      <4>1. inside \in BOOLEAN /\ (clean => inside)
        BY <2>3
      <4> HIDE DEF inside
      <4>2. Flags("guid", inside)
        BY <3>3 DEF inside
      <4> QED
        BY <2>2, <4>1, <4>2, FlagsUnclean DEF Streams
    <3> QED
      BY <1>7, <3>1, <3>2, <3>3 DEF ReadGuid
  <2>5. ~entry.string => PropOf(entry) = [guid |-> AllGuids[g + 1], string |-> entry.string, name |-> entry.ref]
    BY DEF PropOf
  <2>6. clean' /\ clean =>
           /\ entry' = Entries[Index + 1]
           /\ pc' = "string" =>
                /\ entry'.string
                /\ built' = [guid |-> AllGuids[entry'.guid + 1], string |-> entry'.string,
                             name |-> entry'.ref]
           /\ pc' = "return" => built' = PropOf(entry')
    BY <2>1, <2>3, <2>4, <2>5
  <2>7. \/ UNCHANGED <<ok, clean>>
        \/ faulty /\ ~clean'
    BY <2>4
  <2> QED
    BY <1>0, <2>1, <2>2, <2>6, <2>7, RightRead
<1>8. CASE ReadString
  <2> DEFINE inside == entry.ref \in DOMAIN Text
  <2>1. pc = "string" /\ Constructing /\ pc # "idle"
    BY <1>8 DEF ReadString, Constructing
  <2>2. clean => /\ entry = Entries[Index + 1] /\ Index \in Indexes
                 /\ entry.string /\ inside /\ ok["string"]
                 /\ built = [guid |-> AllGuids[entry.guid + 1], string |-> entry.string, name |-> entry.ref]
    BY <1>0, <2>1, EntryAt DEF Good, AllOk, Streams
  <2>3. CASE Serves("string", inside) /\ built' = [built EXCEPT !.name = Text[entry.ref]]
             /\ pc' = "return" /\ UNCHANGED <<call, at, entry, answer>>
    <3>1. clean => built' = PropOf(entry)
      BY <2>2, <2>3 DEF PropOf
    <3>2. UNCHANGED <<ok, clean>> /\ Constructing'
      BY <2>3 DEF Serves, Constructing
    <3> QED
      BY <1>0, <2>1, <2>2, <2>3, <3>1, <3>2, RightRead
  <2>4. CASE Flags("string", inside) /\ pc' = "return" /\ UNCHANGED <<call, at, entry, answer>>
    <3>1. inside \in BOOLEAN
      OBVIOUS
    <3> HIDE DEF inside
    <3>2. faulty /\ ~clean' /\ Constructing'
      BY <2>1, <2>2, <2>4, <3>1, FlagsUnclean DEF Streams, Constructing
    <3> QED
      BY <1>0, <2>1, <2>4, <3>2, RightRead
  <2>5. CASE /\ ~ok["string"] \/ ~inside \/ faulty
             /\ Finish("failed", 0, clean /\ ok["string"] /\ ~inside)
    <3>1. faulty /\ ~(clean /\ ok["string"] /\ ~inside)
      BY <1>b, <2>2, <2>5
    <3> DEFINE good == clean /\ ok["string"] /\ ~inside
    <3> HIDE DEF inside, good
    <3>2. Finish("failed", 0, good) /\ ~good
      BY <2>5, <3>1 DEF good
    <3> QED
      BY <1>0, <2>1, <3>1, <3>2, RightFinish
  <2> QED
    BY <1>8, <2>3, <2>4, <2>5 DEF ReadString
<1>9. CASE Return
  <2>1. pc = "return" /\ Constructing /\ ok' = ok
    BY <1>9 DEF Return, Constructing
  <2>2. clean => built = PropOf(Entries[Index + 1])
    BY <1>0, <2>1 DEF Good
  <2>3. Index \in Indexes
    BY <1>0, <2>1 DEF Good
  <2>4. CASE call.op = "id"
    <3>1. Finish("value", built, clean)
      BY <1>9, <2>4 DEF Return
    <3>2. Index = arg - FirstNamed /\ arg \in Nat /\ arg >= FirstNamed
      BY <1>0, <1>a, <2>1, <2>4, ProgramAssumption DEF Index, Flow
    <3>3. clean => Mapped(built, arg) /\ arg \in NamedIds /\ ~(arg < FirstNamed)
      <4>1. arg = FirstNamed + Index /\ ~(arg < FirstNamed)
        BY <3>2, StreamsAssumption
      <4> QED
        BY <2>2, <2>3, <4>1 DEF Mapped, NamedIds
    <3>4. clean => Right([op |-> call.op, arg |-> call.arg, kind |-> "value",
                          value |-> built, clean |-> clean])
      BY <2>4, <3>3 DEF Right
    <3> QED
      BY <1>0, <1>b, <2>1, <3>1, <3>4, RightFinish DEF AllOk
  <2>5. CASE call.op = "name"
    <3>1. /\ arg \in AskedProps /\ HasGuid(arg) /\ arg.guid # "ps_mapi" /\ arg.string
          /\ at \in DOMAIN Bucket(arg) /\ Candidate(Bucket(arg)[at], arg)
          /\ Index = Bucket(arg)[at].index
      BY <1>0, <1>a, <2>1, <2>5 DEF Flow, Index
    <3>2. CASE built.string /\ built.name = arg.name
      <4>1. Finish("value", FirstNamed + Index, clean)
        BY <1>9, <2>5, <3>2 DEF Return
      <4>2. clean => Mapped(arg, FirstNamed + Index)
        BY <2>2, <2>3, <3>1, <3>2, CandidateIsNamed DEF Mapped
      <4>3. clean => Right([op |-> call.op, arg |-> call.arg, kind |-> "value",
                            value |-> FirstNamed + Index, clean |-> clean])
        BY <2>5, <3>1, <4>2, RightName
      <4> QED
        BY <1>0, <1>b, <2>1, <4>1, <4>3, RightFinish DEF AllOk
    <3>3. CASE ~(built.string /\ built.name = arg.name)
      <4>1. pc' = "bucket" /\ UNCHANGED <<ok, call, at, entry, built, answer, clean>>
        BY <1>9, <2>1, <2>5, <3>3 DEF Return
      <4>2. clean => PropOf(Entries[Index + 1]) # arg
        BY <2>2, <3>1, <3>3
      <4>3. Good'
        BY <1>0, <2>1, <4>1 DEF Good, Constructing, AllOk
      <4>4. Scanned'
        <5>1. ASSUME clean, NEW k \in DOMAIN Bucket(arg), Candidate(Bucket(arg)[k], arg),
                     k < at \/ k = at
              PROVE  PropOf(Entries[Bucket(arg)[k].index + 1]) # arg
          <6>1. CASE k < at
            <7>1. \A j \in DOMAIN Bucket(arg) :
                    Candidate(Bucket(arg)[j], arg) /\ j < at =>
                      PropOf(Entries[Bucket(arg)[j].index + 1]) # arg
              BY <1>0, <2>1, <2>5, <5>1 DEF Scanned
            <7> QED
              BY <5>1, <6>1, <7>1
          <6>2. CASE k = at
            BY <3>1, <4>2, <5>1, <6>2
          <6> QED
            BY <5>1, <6>1, <6>2
        <5> QED
          BY <4>1, <5>1 DEF Scanned
      <4>5. AnswersRight' /\ CountIsTheCount'
        BY <1>0, <4>1 DEF RightInv, AnswersRight, CountIsTheCount
      <4> QED
        BY <1>0, <4>3, <4>4, <4>5 DEF RightInv
    <3> QED
      BY <3>2, <3>3
  <2> QED
    BY <1>a, <2>1, <2>4, <2>5
<1> QED
  BY <1>1, <1>2, <1>3, <1>4, <1>5, <1>6, <1>7, <1>8, <1>9 DEF Step

LEMMA RightAlways ==
  ASSUME Listed
  PROVE  Spec => []RightInv
<1>1. RightInv /\ [Next]_vars => RightInv'
  <2>1. RightInv /\ Next => RightInv'
    BY Listed, RightCall, RightStep DEF Next
  <2>2. RightInv /\ UNCHANGED vars => RightInv'
    BY DEF vars, RightInv, SafeInv, TypeOK, Flow, Constructing, IdNamesNeverWrong,
           Good, Scanned, Index, AllOk, AnswersRight, CountIsTheCount
  <2> QED
    BY <2>1, <2>2
<1> QED
  BY <1>1, RightInit, PTL DEF Spec

\* In any well-formed store, the lookups that find the streams good, and during
\* which the file can be read, are right: the two are inverse to each other,
\* names with one hash are told apart and what is not mapped is not found.
THEOREM LookupsRight ==
  ASSUME Listed
  PROVE  Spec => []AnswersRight
BY RightAlways, PTL DEF RightInv

\* When the file can be read, no call leaves a stream with a flag set.
THEOREM NoFlagLeft ==
  ASSUME Listed
  PROVE  Spec => []NoStreamLeftFlagged
<1>1. RightInv => NoStreamLeftFlagged
  BY DEF RightInv, Good, NoStreamLeftFlagged
<1> QED
  BY <1>1, RightAlways, PTL

\* When the file can be read, get_prop_count is the count after any calls.
THEOREM CountRight ==
  ASSUME Listed
  PROVE  Spec => []CountIsTheCount
BY RightAlways, PTL DEF RightInv
-----------------------------------------------------------------------------
(***************************************************************************)
(* A lookup runs down.                                                     *)
(***************************************************************************)

\* What a lookup c at the entry k of its bucket has before it at most: five steps
\* for each entry behind that, and those of the reads of the entry itself.
Behind(c, k) ==
  LET length == Len(Bucket(c.arg))
  IN IF c.op = "name" /\ k <= length THEN length - k ELSE 0
ReadsLeft(next) ==
  CASE next = "entry" -> 4 [] next = "guid" -> 3 [] next = "string" -> 2
    [] next \in {"return", "guid_index"} -> 1 [] OTHER -> 0
ToGo(c, k, next) == 5 * Behind(c, k) + ReadsLeft(next)

RunsDown ==
  /\ call' = call
  /\ ToGo(call, at, pc) \in Nat /\ ToGo(call, at', pc') \in Nat
  /\ ToGo(call, at', pc') < ToGo(call, at, pc)

LEMMA BucketLength ==
  ASSUME NEW p
  PROVE  Len(Bucket(p)) \in Nat /\ DOMAIN Bucket(p) = 1..Len(Bucket(p))
<1> DEFINE b == BucketOf[GuidIndex(p), p.string, HashBase(p)]
           S == {HashEntry(i) : i \in Indexes}
<1>1. CASE b \in DOMAIN Buckets
  <2>1. Bucket(p) = Buckets[b] /\ Buckets[b] \in Seq(S)
    BY <1>1, BucketAssumption DEF Bucket
  <2> HIDE DEF b, S
  <2> QED
    BY <2>1
<1>2. CASE b \notin DOMAIN Buckets
  <2>1. Bucket(p) = <<>>
    BY <1>2 DEF Bucket
  <2> QED
    BY <2>1
<1> QED
  BY <1>1, <1>2

LEMMA ReadsAre ==
  /\ ReadsLeft("entry") = 4 /\ ReadsLeft("guid") = 3 /\ ReadsLeft("string") = 2
  /\ ReadsLeft("return") = 1 /\ ReadsLeft("guid_index") = 1 /\ ReadsLeft("bucket") = 0
BY DEF ReadsLeft

\* A read of the entry that the lookup is at
LEMMA ReadRunsDown ==
  ASSUME SafeInv, UNCHANGED <<call, at>>, ReadsLeft(pc) \in Nat, ReadsLeft(pc') \in Nat,
         ReadsLeft(pc') < ReadsLeft(pc)
  PROVE  RunsDown
<1>1. Behind(call, at) \in Nat
  <2>1. at \in Nat
    BY DEF SafeInv, TypeOK
  <2> QED
    BY <2>1, BucketLength DEF Behind
<1> QED
  BY <1>1 DEF RunsDown, ToGo

\* and the next of the bucket.
LEMMA ScanRunsDown ==
  ASSUME SafeInv, pc = "bucket", NEW k \in DOMAIN Bucket(call.arg), k > at,
         at' = k, pc' = "entry", call' = call
  PROVE  RunsDown
<1>1. at \in Nat /\ call.op = "name"
  BY DEF SafeInv, TypeOK, Flow
<1> DEFINE length == Len(Bucket(call.arg))
<1>2. length \in Nat /\ k \in 1..length
  BY BucketLength
<1>3. Behind(call, at) = length - at /\ Behind(call, k) = length - k
  BY <1>1, <1>2 DEF Behind
<1> HIDE DEF length
<1> QED
  BY <1>1, <1>2, <1>3, ReadsAre DEF RunsDown, ToGo

LEMMA StepRunsDown ==
  ASSUME SafeInv, Step
  PROVE  pc' = "idle" \/ RunsDown
<1>1. CASE GuidFound
  <2>1. pc = "guid_index" /\ (pc' = "idle" \/ (pc' = "bucket" /\ UNCHANGED <<call, at>>))
    BY <1>1 DEF GuidFound, Finish
  <2> QED
    BY <2>1, ReadsAre, ReadRunsDown
<1>2. CASE GuidNotFound \/ ScanEnds \/ ScanFails
  BY <1>2 DEF GuidNotFound, ScanEnds, ScanFails, Finish
<1>3. CASE Scan
  <2>1. PICK k \in DOMAIN Bucket(call.arg) :
          k > at /\ (pc' = "idle" \/ (at' = k /\ pc' = "entry" /\ call' = call))
    BY <1>3 DEF Scan, NextCandidate, Finish
  <2> QED
    BY <1>3, <2>1, ScanRunsDown DEF Scan
<1>4. CASE ReadEntry
  <2>1. pc = "entry" /\ pc' = "guid" /\ UNCHANGED <<call, at>>
    BY <1>4 DEF ReadEntry
  <2> QED
    BY <2>1, ReadsAre, ReadRunsDown
<1>5. CASE ReadGuid
  <2>1. pc = "guid" /\ pc' \in {"string", "return"} /\ UNCHANGED <<call, at>>
    BY <1>5 DEF ReadGuid, Build
  <2> QED
    BY <2>1, ReadsAre, ReadRunsDown
<1>6. CASE ReadString
  <2>1. pc = "string" /\ (pc' = "idle" \/ (pc' = "return" /\ UNCHANGED <<call, at>>))
    BY <1>6 DEF ReadString, Finish
  <2> QED
    BY <2>1, ReadsAre, ReadRunsDown
<1>7. CASE Return
  <2>1. pc = "return" /\ (pc' = "idle" \/ (pc' = "bucket" /\ UNCHANGED <<call, at>>))
    BY <1>7 DEF Return, Finish
  <2> QED
    BY <2>1, ReadsAre, ReadRunsDown
<1> QED
  BY <1>1, <1>2, <1>3, <1>4, <1>5, <1>6, <1>7 DEF Step

\* Each step of a lookup ends it or leaves it less to do, whatever the streams
\* hold, their flags say or reading the file does: the scan never looks at an entry of the
\* bucket twice.  That is all of Answered but its fairness.
THEOREM LookupsRunDown ==
  Spec => [][pc # "idle" => pc' = "idle" \/ RunsDown]_vars
<1>1. SafeInv /\ [Next]_vars => [pc # "idle" => pc' = "idle" \/ RunsDown]_vars
  <2>1. ASSUME Call, pc # "idle" PROVE FALSE
    BY <2>1 DEF Call, GetPropCount, GetPropList, PropIdExists, LookupId, LookupName,
                AnswerAtOnce, Ask
  <2> QED
    BY <2>1, StepRunsDown DEF Next
<1> QED
  BY <1>1, SafeAlways, PTL DEF Spec
=============================================================================
