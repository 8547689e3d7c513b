--------------------------- MODULE Database_proof ---------------------------
(***************************************************************************)
(* The database, for any well-formed store of two levels, any level of     *)
(* validation, any damage that it is there to notice and any reads that    *)
(* are refused; and before that, the structures on disk.                   *)
(***************************************************************************)
EXTENDS Database, FiniteSetTheorems, SequenceTheorems, NaturalsInduction,
        WellFoundedInduction, TLAPS

-----------------------------------------------------------------------------
(***************************************************************************)
(* The disk structures: what the functions over them do for data of any    *)
(* length and any key.  The tables are only known to be inverse to each    *)
(* other (TablesAreInverse).                                               *)
(***************************************************************************)

\* What a wrap does to a sum or a difference of two bytes.
LEMMA ByteWraps ==
  ASSUME NEW n \in Int
  PROVE  /\ n \in 0..255 => AsByte(n) = n
         /\ n \in 256..511 => AsByte(n) = n - 256
         /\ n \in (-256)..(-1) => AsByte(n) = n + 256
<1>1. CASE n \in 0..255
  BY <1>1 DEF AsByte
<1>2. CASE n \in 256..511
  BY <1>2 DEF AsByte
<1>3. CASE n \in (-256)..(-1)
  BY <1>3 DEF AsByte
<1> QED
  BY <1>1, <1>2, <1>3

LEMMA AnyIsByte ==
  ASSUME NEW n \in Int
  PROVE  AsByte(n) \in Byte
  BY DEF AsByte, Byte

LEMMA ByteArithmetic ==
  ASSUME NEW x \in Byte, NEW k \in Byte
  PROVE  /\ AsByte(x + k) \in Byte /\ AsByte(x - k) \in Byte
         /\ AsByte(AsByte(x + k) - k) = x
         /\ AsByte(AsByte(x - k) + k) = x
<1>1. x \in 0..255 /\ k \in 0..255
  BY DEF Byte
<1>2. AsByte(x + k) \in Byte /\ AsByte(x - k) \in Byte
  BY <1>1, AnyIsByte
<1>3. AsByte(AsByte(x + k) - k) = x
  <2>1. CASE x + k \in 0..255
    <3>1. AsByte(x + k) = x + k
      BY <1>1, <2>1, ByteWraps
    <3> QED
      BY <1>1, <3>1, ByteWraps
  <2>2. CASE x + k \in 256..511
    <3>1. AsByte(x + k) = x + k - 256
      BY <1>1, <2>2, ByteWraps
    <3>2. x - 256 \in (-256)..(-1) /\ AsByte(x + k) - k = x - 256
      BY <1>1, <3>1
    <3> QED
      BY <1>1, <3>2, ByteWraps
  <2> QED
    BY <1>1, <2>1, <2>2
<1>4. AsByte(AsByte(x - k) + k) = x
  <2>1. CASE x - k \in 0..255
    <3>1. AsByte(x - k) = x - k
      BY <1>1, <2>1, ByteWraps
    <3> QED
      BY <1>1, <3>1, ByteWraps
  <2>2. CASE x - k \in (-256)..(-1)
    <3>1. AsByte(x - k) = x - k + 256
      BY <1>1, <2>2, ByteWraps
    <3>2. x + 256 \in 256..511 /\ AsByte(x - k) + k = x + 256
      BY <1>1, <3>1
    <3> QED
      BY <1>1, <3>2, ByteWraps
  <2> QED
    BY <1>1, <2>1, <2>2
<1> QED
  BY <1>2, <1>3, <1>4

LEMMA XorBitBound ==
  ASSUME NEW x \in Nat, NEW y \in Nat, NEW i \in Nat \ {0}
  PROVE  XorBit(x, y, i) \in Nat /\ XorBit(x, y, i) <= i
<1> DEFINE s == Bit(x, i) + Bit(y, i)
<1>1. Bit(x, i) \in 0..1 /\ Bit(y, i) \in 0..1
  BY DEF Bit
<1>2. s % 2 \in {0, 1}
  BY <1>1
<1>3. CASE s % 2 = 0
  BY <1>3 DEF XorBit
<1>4. CASE s % 2 = 1
  BY <1>4 DEF XorBit
<1> QED
  BY <1>2, <1>3, <1>4

LEMMA UshortArithmetic ==
  ASSUME NEW x \in Int
  PROVE  AsUshort(x) \in Ushort /\ AsUshort(AsUshort(x) + 1) = AsUshort(x + 1)
  BY DEF AsUshort, Ushort

LEMMA UshortIsInt ==
  ASSUME NEW x \in Ushort
  PROVE  x \in Int
  BY DEF Ushort

LEMMA XorInRange ==
  ASSUME NEW x \in Nat, NEW y \in Nat
  PROVE  Xor(x, y) \in Ushort
<1>1. ASSUME NEW i \in Nat \ {0}
      PROVE  XorBits(x, y, i) \in Nat /\ XorBits(x, y, i) <= 15 * i
  <2>1. XorBit(x, y, i) \in Nat /\ XorBit(x, y, i) <= i
    BY XorBitBound
  <2>2. XorBit(x, y, 2 * i) \in Nat /\ XorBit(x, y, 2 * i) <= 2 * i
    BY XorBitBound
  <2>3. XorBit(x, y, 4 * i) \in Nat /\ XorBit(x, y, 4 * i) <= 4 * i
    BY XorBitBound
  <2>4. XorBit(x, y, 8 * i) \in Nat /\ XorBit(x, y, 8 * i) <= 8 * i
    BY XorBitBound
  <2> QED
    BY <2>1, <2>2, <2>3, <2>4 DEF XorBits
<1>2. /\ XorBits(x, y, 1) \in Nat /\ XorBits(x, y, 1) <= 15
      /\ XorBits(x, y, 16) \in Nat /\ XorBits(x, y, 16) <= 240
      /\ XorBits(x, y, 256) \in Nat /\ XorBits(x, y, 256) <= 3840
      /\ XorBits(x, y, 4096) \in Nat /\ XorBits(x, y, 4096) <= 61440
  BY <1>1
<1> DEFINE a == XorBits(x, y, 1)
           b == XorBits(x, y, 16)
           c == XorBits(x, y, 256)
           d == XorBits(x, y, 4096)
<1>3. Xor(x, y) = a + b + c + d
  BY DEF Xor
<1> HIDE DEF a, b, c, d
<1>4. /\ a \in Nat /\ b \in Nat /\ c \in Nat /\ d \in Nat
      /\ a <= 15 /\ b <= 240 /\ c <= 3840 /\ d <= 61440
  BY <1>2 DEF a, b, c, d
<1>5. a + b + c + d \in Nat /\ a + b + c + d <= 65535
  BY <1>4
<1>6. a + b + c + d \in Ushort
  BY <1>5 DEF Ushort
<1> QED
  BY <1>3, <1>6

LEMMA WordInRange ==
  ASSUME NEW key \in Nat
  PROVE  Word(key) \in Ushort
<1>1. Low(key) \in Nat /\ High(key) \in Nat
  BY DEF Low, High, AsUshort
<1> QED
  BY <1>1, XorInRange DEF Word

\* The word moves on from byte to byte, and wraps: w = (ushort)(w + 1), disk.h:1680.
LEMMA WordMovesOn ==
  ASSUME NEW key \in Nat, NEW i \in Nat
  PROVE  /\ WordAt(key, i) \in Ushort
         /\ WordAt(key, i + 1) = AsUshort(WordAt(key, i) + 1)
<1> DEFINE x == Word(key) + i - 1
<1>1. Word(key) \in Int
  BY WordInRange, UshortIsInt
<1>2. x \in Int /\ Word(key) + (i + 1) - 1 = x + 1
  BY <1>1
<1>3. WordAt(key, i) = AsUshort(x) /\ WordAt(key, i + 1) = AsUshort(x + 1)
  BY <1>2 DEF WordAt
<1> HIDE DEF x
<1> QED
  BY <1>2, <1>3, UshortArithmetic

LEMMA TurnedTwice ==
  ASSUME NEW b \in Byte, NEW w \in Ushort
  PROVE  Turned(b, w) \in Byte /\ Turned(Turned(b, w), w) = b
<1> DEFINE low == AsByte(w)
           high == AsByte(w \div 256)
           first == At1(AsByte(b + low))
           second == At2(AsByte(first + high))
           third == At3(AsByte(second - high))
           c == AsByte(third - low)
<1>1. low \in Byte /\ high \in Byte
  <2>1. w \in Int /\ w \div 256 \in Int
    BY DEF Ushort
  <2> QED
    BY <2>1, AnyIsByte
<1> HIDE DEF low, high
<1>2. AsByte(b + low) \in Byte /\ first \in Byte
  BY <1>1, ByteArithmetic, TablesAreInverse
<1>3. At3(first) = AsByte(b + low)
  BY <1>2, TablesAreInverse
<1> HIDE DEF first
<1>4. AsByte(first + high) \in Byte /\ second \in Byte
  BY <1>1, <1>2, ByteArithmetic, TablesAreInverse
<1>5. At2(second) = AsByte(first + high)
  BY <1>4, TablesAreInverse
<1> HIDE DEF second
<1>6. AsByte(second - high) \in Byte /\ third \in Byte
  BY <1>1, <1>4, ByteArithmetic, TablesAreInverse
<1>7. At1(third) = AsByte(second - high)
  BY <1>6, TablesAreInverse
<1> HIDE DEF third
<1>8. c \in Byte /\ AsByte(c + low) = third
  BY <1>1, <1>6, ByteArithmetic
<1>9. Turned(b, w) = c
  BY DEF Turned, low, high, first, second, third
<1> HIDE DEF c
<1>10. AsByte(At1(AsByte(c + low)) + high) = second
  BY <1>1, <1>4, <1>7, <1>8, ByteArithmetic
<1>11. AsByte(At2(AsByte(At1(AsByte(c + low)) + high)) - high) = first
  BY <1>1, <1>2, <1>5, <1>10, ByteArithmetic
<1>12. AsByte(At3(first) - low) = b
  BY <1>1, <1>3, ByteArithmetic
<1>13. Turned(c, w) = b
  BY <1>11, <1>12 DEF Turned, low, high
<1> QED
  BY <1>8, <1>9, <1>13

\* Data that the cyclic method has encrypted is given back by the cyclic method with
\* the same key (disk.h:1660-1682): for data of any length, through the words that wrap.
THEOREM CyclicDecrypts ==
  ASSUME NEW data \in Seq(Byte), NEW key \in Nat
  PROVE  Cyclic(Cyclic(data, key), key) = data
<1> DEFINE once == Cyclic(data, key)
           twice == Cyclic(once, key)
<1>1. DOMAIN once = DOMAIN data /\ DOMAIN twice = DOMAIN data
  BY DEF Cyclic
<1>2. ASSUME NEW i \in DOMAIN data
      PROVE  twice[i] = data[i]
  <2>1. i \in Nat /\ data[i] \in Byte
    OBVIOUS
  <2>2. WordAt(key, i) \in Ushort
    BY <2>1, WordMovesOn
  <2>3. once[i] = Turned(data[i], WordAt(key, i))
    BY DEF Cyclic
  <2>4. twice[i] = Turned(once[i], WordAt(key, i))
    BY <1>1 DEF Cyclic
  <2> QED
    BY <2>1, <2>2, <2>3, <2>4, TurnedTwice
<1>3. twice = [i \in DOMAIN twice |-> twice[i]]
  BY DEF Cyclic
<1>4. data = [i \in DOMAIN data |-> data[i]]
  OBVIOUS
<1> HIDE DEF twice
<1>5. twice = data
  BY <1>1, <1>2, <1>3, <1>4
<1> QED
  BY <1>5 DEF twice

\* permute with encrypt = false gives back what it made with encrypt = true
\* (disk.h:1647-1658).
THEOREM PermuteDecrypts ==
  ASSUME NEW data \in Seq(Byte)
  PROVE  Permute(Permute(data, TRUE), FALSE) = data
<1> DEFINE once == Permute(data, TRUE)
           twice == Permute(once, FALSE)
<1>1. DOMAIN once = DOMAIN data /\ DOMAIN twice = DOMAIN data
  BY DEF Permute
<1>2. ASSUME NEW i \in DOMAIN data
      PROVE  twice[i] = data[i]
  <2>1. data[i] \in Byte
    OBVIOUS
  <2>2. once[i] = At1(data[i])
    BY DEF Permute
  <2>3. twice[i] = At3(once[i])
    BY <1>1 DEF Permute
  <2> QED
    BY <2>1, <2>2, <2>3, TablesAreInverse
<1>3. twice = [i \in DOMAIN twice |-> twice[i]]
  BY DEF Permute
<1>4. data = [i \in DOMAIN data |-> data[i]]
  OBVIOUS
<1> HIDE DEF twice
<1>5. twice = data
  BY <1>1, <1>2, <1>3, <1>4
<1> QED
  BY <1>5 DEF twice

\* align_slot rounds up to the next slot and no further, and so the trailer that
\* read_block_data finds at the end of a block (database.h:240-251) is behind its data.
THEOREM TrailerIsBehindTheData ==
  ASSUME NEW size \in Nat, NEW layout
  PROVE  LET aligned == AlignDisk(layout, size)
         IN /\ aligned % BytesPerSlot = 0
            /\ aligned - TrailerSize(layout) >= size
            /\ aligned - TrailerSize(layout) < size + BytesPerSlot
<1>1. TrailerSize(layout) \in {12, 16}
  BY DEF TrailerSize
<1> DEFINE sum == size + TrailerSize(layout)
<1>2. sum \in Nat
  BY <1>1
<1>3. /\ AlignSlot(sum) % BytesPerSlot = 0
      /\ AlignSlot(sum) \in sum..(sum + BytesPerSlot - 1)
  <2> HIDE DEF sum
  <2> DEFINE last == sum + 63
  <2>1. last \in Nat
    BY <1>2
  <2>2. AlignSlot(sum) = last - (last % 64)
    BY <1>2 DEF AlignSlot, BytesPerSlot
  <2> HIDE DEF last
  <2>3. last % 64 \in 0..63 /\ (last - (last % 64)) % 64 = 0
    BY <2>1
  <2> QED
    BY <1>2, <2>1, <2>2, <2>3 DEF last, BytesPerSlot
<1> QED
  BY <1>1, <1>2, <1>3 DEF AlignDisk, BytesPerSlot

-----------------------------------------------------------------------------
(***************************************************************************)
(* Least and greatest numbers.                                             *)
(***************************************************************************)

LEMMA HasLeast ==
  ASSUME NEW S \in SUBSET Nat, S # {}
  PROVE  \E x \in S : \A y \in S : x <= y
<1>1. PICK x \in S : \A y \in S : ~ (<<y, x>> \in OpToRel(<, Nat))
  BY NatLessThanWellFounded, WFMin, Zenon
<1>2. \A y \in S : x <= y
  <2> SUFFICES ASSUME NEW y \in S, y < x PROVE FALSE
    OBVIOUS
  <2>1. <<y, x>> \in OpToRel(<, Nat)
    BY Zenon DEF OpToRel
  <2> QED
    BY <1>1, <2>1, Zenon
<1> QED
  BY <1>2

\* The smallest set without a greatest number would have, without one of its
\* numbers, a greatest one.
LEMMA HasGreatest ==
  ASSUME NEW D \in SUBSET Nat, IsFiniteSet(D), NEW S \in SUBSET D, S # {}
  PROVE  \E x \in S : \A y \in S : y <= x
<1> DEFINE Bad == {T \in SUBSET D : T # {} /\ ~ \E x \in T : \A y \in T : y <= x}
           Sizes == {Cardinality(T) : T \in Bad}
<1>1. \A T \in SUBSET D : IsFiniteSet(T) /\ Cardinality(T) \in Nat
  BY FS_Subset, FS_CardinalityType
<1>2. SUFFICES ASSUME S \in Bad PROVE FALSE
  OBVIOUS
<1>3. Sizes \in SUBSET Nat /\ Sizes # {}
  BY <1>1, <1>2
<1>4. PICK n \in Sizes : \A m \in Sizes : n <= m
  BY <1>3, HasLeast
<1>5. PICK T \in Bad : n = Cardinality(T)
  BY <1>4
<1>6. PICK x \in T : TRUE
  BY <1>5
<1>7. T \ {x} \in SUBSET D /\ Cardinality(T \ {x}) = n - 1 /\ n \in Nat
  BY <1>1, <1>5, <1>6, FS_RemoveElement
<1>8. T \ {x} \notin Bad
  <2>1. \A U \in Bad : n <= Cardinality(U)
    BY <1>4
  <2>2. ~(n <= Cardinality(T \ {x}))
    BY <1>7
  <2> QED
    BY <2>1, <2>2
<1>9. CASE T \ {x} = {}
  BY <1>5, <1>6, <1>9
<1>10. CASE T \ {x} # {}
  <2>1. PICK z \in T \ {x} : \A y \in T \ {x} : y <= z
    BY <1>7, <1>8, <1>10
  <2>2. T \subseteq Nat /\ x \in Nat /\ z \in Nat
    BY <1>5, <1>6, <2>1
  <2>3. \A y \in T : y <= (IF x <= z THEN z ELSE x)
    BY <2>1, <2>2
  <2>4. (IF x <= z THEN z ELSE x) \in T
    BY <1>6, <2>1
  <2> QED
    BY <1>5, <2>3, <2>4
<1> QED
  BY <1>9, <1>10

-----------------------------------------------------------------------------
(***************************************************************************)
(* Tests made one after the other.                                         *)
(***************************************************************************)

Passes(tests) == \A i \in DOMAIN tests : ~tests[i].fails

LEMMA CheckedPasses ==
  ASSUME NEW tests, NEW v, Passes(tests)
  PROVE  Checked(tests, v) = Value(v)
BY DEF Passes, Checked

\* What is thrown is the error of a test that fails, and of none after it.
LEMMA CheckedFails ==
  ASSUME NEW tests, NEW v, NEW n \in Nat, DOMAIN tests = 1..n, NEW i \in 1..n, tests[i].fails
  PROVE  \E j \in 1..i : tests[j].fails /\ Checked(tests, v) = Throws(tests[j].e)
<1> DEFINE failed == {k \in DOMAIN tests : tests[k].fails}
           first == CHOOSE k \in failed : \A j \in failed : k <= j
<1>1. failed \in SUBSET Nat /\ i \in failed
  OBVIOUS
<1>2. first \in failed /\ \A j \in failed : first <= j
  BY <1>1, HasLeast, Zenon
<1>3. Checked(tests, v) = Throws(tests[first].e)
  BY <1>1 DEF Checked
<1> HIDE DEF first
<1>4. first \in 1..i /\ tests[first].fails
  BY <1>1, <1>2
<1> QED
  BY <1>3, <1>4

LEMMA CheckedEither ==
  ASSUME NEW tests, NEW v, NEW n \in Nat, DOMAIN tests = 1..n
  PROVE  \/ Passes(tests) /\ Checked(tests, v) = Value(v)
         \/ \E j \in 1..n : tests[j].fails /\ Checked(tests, v) = Throws(tests[j].e)
<1>1. CASE Passes(tests)
  BY <1>1, CheckedPasses
<1>2. ASSUME NEW i \in 1..n, tests[i].fails
      PROVE  \E j \in 1..n : tests[j].fails /\ Checked(tests, v) = Throws(tests[j].e)
  <2>1. PICK j \in 1..i : tests[j].fails /\ Checked(tests, v) = Throws(tests[j].e)
    BY <1>2, CheckedFails
  <2>2. j \in 1..n
    OBVIOUS
  <2> QED
    BY <2>1, <2>2
<1> QED
  BY <1>1, <1>2 DEF Passes

\* A test that was made before or after others.
LEMMA TestSays ==
  ASSUME NEW P, NEW e
  PROVE  (Test(P, e).fails <=> P) /\ Test(P, e).e = e
BY DEF Test

Errors == Corrupt \cup Unread
Tests == Seq([fails : BOOLEAN, e : Errors])

LEMMA Joined ==
  ASSUME NEW s \in Tests, NEW t \in Tests
  PROVE  LET n == Len(s) + Len(t)
         IN /\ s \o t \in Tests /\ Len(s \o t) = n
            /\ \A i \in 1..n : (s \o t)[i] = IF i <= Len(s) THEN s[i] ELSE t[i - Len(s)]
BY ConcatProperties DEF Tests

\* Some tests and then others.
LEMMA CheckedBoth ==
  ASSUME NEW s \in Tests, NEW t \in Tests, NEW v
  PROVE  \/ Passes(s) /\ Passes(t) /\ Checked(s \o t, v) = Value(v)
         \/ \E i \in DOMAIN s : s[i].fails /\ Checked(s \o t, v) = Throws(s[i].e)
         \/ \E i \in DOMAIN t : t[i].fails /\ Checked(s \o t, v) = Throws(t[i].e)
<1> DEFINE st == s \o t
           n == Len(s) + Len(t)
<1>1. /\ st \in Tests /\ Len(st) = n
      /\ \A i \in 1..n : st[i] = IF i <= Len(s) THEN s[i] ELSE t[i - Len(s)]
  BY Joined
<1>2. Len(s) \in Nat /\ Len(t) \in Nat /\ DOMAIN s = 1..Len(s) /\ DOMAIN t = 1..Len(t)
      /\ DOMAIN st = 1..n /\ n \in Nat
  BY <1>1 DEF Tests
<1> SUFFICES \/ Passes(s) /\ Passes(t) /\ Checked(st, v) = Value(v)
             \/ \E i \in DOMAIN s : s[i].fails /\ Checked(st, v) = Throws(s[i].e)
             \/ \E i \in DOMAIN t : t[i].fails /\ Checked(st, v) = Throws(t[i].e)
  OBVIOUS
<1> HIDE DEF st
<1>3. \A i \in DOMAIN s : i \in 1..n /\ st[i] = s[i]
  BY <1>1, <1>2
<1>4. \A i \in DOMAIN t : Len(s) + i \in 1..n /\ st[Len(s) + i] = t[i]
  <2> SUFFICES ASSUME NEW i \in DOMAIN t
               PROVE  Len(s) + i \in 1..n /\ st[Len(s) + i] = t[i]
    OBVIOUS
  <2>1. Len(s) + i \in 1..n /\ ~(Len(s) + i <= Len(s)) /\ Len(s) + i - Len(s) = i
    BY <1>2
  <2> QED
    BY <1>1, <2>1
<1> HIDE DEF n
<1>5. CASE Passes(st) /\ Checked(st, v) = Value(v)
  BY <1>2, <1>3, <1>4, <1>5 DEF Passes
<1>6. ASSUME NEW j \in 1..n, st[j].fails, Checked(st, v) = Throws(st[j].e)
      PROVE  \/ \E i \in DOMAIN s : s[i].fails /\ Checked(st, v) = Throws(s[i].e)
             \/ \E i \in DOMAIN t : t[i].fails /\ Checked(st, v) = Throws(t[i].e)
  <2>1. CASE j <= Len(s)
    BY <1>1, <1>2, <1>6, <2>1
  <2>2. CASE ~(j <= Len(s))
    <3>1. st[j] = t[j - Len(s)] /\ j - Len(s) \in DOMAIN t
      BY <1>1, <1>2, <2>2 DEF n
    <3> QED
      BY <1>6, <3>1
  <2> QED
    BY <2>1, <2>2
<1> QED
  BY <1>2, <1>5, <1>6, CheckedEither


-----------------------------------------------------------------------------
(***************************************************************************)
(* Reading a page, from whatever is in the file.                           *)
(***************************************************************************)

\* The tests of read_page_data
PagePasses(ref) ==
  LET s == At(ref.loc)
  IN /\ ~(Weak /\ ref.loc + PageSize > db.eof)
     /\ ~(Weak /\ (ref.loc - FirstAmapPageLocation) % PageSize # 0)
     /\ InFile(ref.loc, PageSize)
     /\ ~(Full /\ s.trailer.crc # s.data)
     /\ ~(Weak /\ s.trailer.id # ref.id)
     /\ ~(Weak /\ s.trailer.type # s.trailer.repeat)
     /\ ~(Weak /\ s.trailer.sig # ComputeSignature(ref.id, ref.loc))

LEMMA PageTestsAre ==
  ASSUME NEW ref
  PROVE  /\ Len(PageTests(ref)) = 7 /\ DOMAIN PageTests(ref) = 1..7
         /\ PageTests(ref) \in Tests
         /\ PagePasses(ref) <=> Passes(PageTests(ref))
         /\ PageTests(ref)[1] = Test(Weak /\ ref.loc + PageSize > db.eof, "unexpected_page")
         /\ PageTests(ref)[2] =
              Test(Weak /\ (ref.loc - FirstAmapPageLocation) % PageSize # 0, "unexpected_page")
         /\ PageTests(ref)[3] = Test(~InFile(ref.loc, PageSize), "out_of_range")
         /\ PageTests(ref)[1].e = "unexpected_page" /\ PageTests(ref)[2].e = "unexpected_page"
         /\ PageTests(ref)[3].e = "out_of_range"
         /\ PageTests(ref)[1].fails <=> Weak /\ ref.loc + PageSize > db.eof
         /\ PageTests(ref)[2].fails <=> Weak /\ (ref.loc - FirstAmapPageLocation) % PageSize # 0
         /\ PageTests(ref)[3].fails <=> ~InFile(ref.loc, PageSize)
<1> DEFINE s == At(ref.loc)
           t == PageTests(ref)
           p1 == Weak /\ ref.loc + PageSize > db.eof
           p2 == Weak /\ (ref.loc - FirstAmapPageLocation) % PageSize # 0
           p3 == ~InFile(ref.loc, PageSize)
           p4 == Full /\ s.trailer.crc # s.data
           p5 == Weak /\ s.trailer.id # ref.id
           p6 == Weak /\ s.trailer.type # s.trailer.repeat
           p7 == Weak /\ s.trailer.sig # ComputeSignature(ref.id, ref.loc)
<1>1. t = << Test(p1, "unexpected_page"), Test(p2, "unexpected_page"), Test(p3, "out_of_range"),
             Test(p4, "crc_fail"), Test(p5, "unexpected_page"), Test(p6, "database_corrupt"),
             Test(p7, "sig_mismatch") >>
  BY DEF PageTests
<1>2. PagePasses(ref) <=> ~p1 /\ ~p2 /\ ~p3 /\ ~p4 /\ ~p5 /\ ~p6 /\ ~p7
  BY DEF PagePasses
<1>3. p1 \in BOOLEAN /\ p2 \in BOOLEAN /\ p3 \in BOOLEAN /\ p4 \in BOOLEAN /\ p5 \in BOOLEAN
      /\ p6 \in BOOLEAN /\ p7 \in BOOLEAN
  BY DEF Weak, Full, InFile
<1> SUFFICES /\ Len(t) = 7 /\ DOMAIN t = 1..7 /\ t \in Tests
             /\ PagePasses(ref) <=> Passes(t)
             /\ t[1] = Test(p1, "unexpected_page") /\ t[2] = Test(p2, "unexpected_page")
             /\ t[3] = Test(p3, "out_of_range")
             /\ t[1].e = "unexpected_page" /\ t[2].e = "unexpected_page" /\ t[3].e = "out_of_range"
             /\ (t[1].fails <=> p1) /\ (t[2].fails <=> p2) /\ (t[3].fails <=> p3)
  OBVIOUS
<1> HIDE DEF t, p1, p2, p3, p4, p5, p6, p7
<1>4. Passes(t) <=> ~p1 /\ ~p2 /\ ~p3 /\ ~p4 /\ ~p5 /\ ~p6 /\ ~p7
  BY <1>1, <1>3 DEF Passes, Test
<1>5. t \in Tests
  BY <1>1, <1>3 DEF Test, Tests, Errors, Corrupt, Unread
<1> QED
  BY <1>1, <1>2, <1>4, <1>5, TestSays

\* A page that is read is what is there, and has passed; what is thrown for one
\* that has passed is unexpected_page.
LEMMA ReadPageCases ==
  ASSUME NEW tree, NEW leaf, NEW ref
  PROVE  LET a == ReadPage(tree, leaf, ref)
             s == At(ref.loc)
             fits == s.trailer.type = tree /\ (s.data.level = 0) \in leaf
         IN \/ /\ a = Value([type |-> tree, level |-> s.data.level, body |-> s.data.body])
               /\ PagePasses(ref) /\ fits
            \/ /\ \E e \in Errors : a = Throws(e)
               /\ PagePasses(ref) => a = Throws("unexpected_page") /\ ~fits
<1> DEFINE s == At(ref.loc)
           v == [type |-> tree, level |-> s.data.level, body |-> s.data.body]
           q1 == s.trailer.type # tree
           q2 == (s.data.level = 0) \notin leaf
           t == PageTests(ref)
           u == << Test(q1, "unexpected_page"), Test(q2, "unexpected_page") >>
           a == ReadPage(tree, leaf, ref)
<1>1. a = Checked(t \o u, v)
  BY DEF ReadPage
<1>2. q1 \in BOOLEAN /\ q2 \in BOOLEAN /\ u = << Test(q1, "unexpected_page"), Test(q2, "unexpected_page") >>
  OBVIOUS
<1>3. Len(t) = 7 /\ t \in Tests /\ (PagePasses(ref) <=> Passes(t))
      /\ DOMAIN t = 1..7
  BY PageTestsAre
<1> SUFFICES \/ a = Value(v) /\ PagePasses(ref) /\ ~q1 /\ ~q2
             \/ /\ \E e \in Errors : a = Throws(e)
                /\ PagePasses(ref) => a = Throws("unexpected_page") /\ (q1 \/ q2)
  OBVIOUS
<1> HIDE DEF q1, q2, t, v, s, u, a
<1>4. /\ u \in Tests /\ DOMAIN u = 1..2 /\ (Passes(u) <=> ~q1 /\ ~q2)
      /\ \A i \in 1..2 : u[i].e = "unexpected_page"
  BY <1>2 DEF Test, Tests, Errors, Corrupt, Unread, Passes
<1>5. \A i \in DOMAIN t : t[i].e \in Errors
  <2>1. \A i \in 1..7 : t[i] \in [fails : BOOLEAN, e : Errors]
    BY <1>3, ElementOfSeq DEF Tests
  <2> QED
    BY <1>3, <2>1
<1>6. \A i \in DOMAIN u : u[i].fails => (q1 \/ q2) /\ u[i].e = "unexpected_page"
  BY <1>4 DEF Passes
<1>7. "unexpected_page" \in Errors
  BY DEF Errors, Corrupt
<1>8. CASE Passes(t) /\ Passes(u) /\ a = Value(v)
  BY <1>3, <1>4, <1>8
<1>9. ASSUME NEW i \in DOMAIN t, t[i].fails, a = Throws(t[i].e)
      PROVE  (\E e \in Errors : a = Throws(e)) /\ ~PagePasses(ref)
  BY <1>3, <1>5, <1>9 DEF Passes
<1>10. ASSUME NEW i \in DOMAIN u, u[i].fails, a = Throws(u[i].e)
       PROVE  a = Throws("unexpected_page") /\ (q1 \/ q2)
  BY <1>6, <1>10
<1> QED
  BY <1>1, <1>3, <1>4, <1>7, <1>8, <1>9, <1>10, CheckedBoth

-----------------------------------------------------------------------------
(***************************************************************************)
(* What is in the file.                                                    *)
(***************************************************************************)

FileOK == build \in Builds /\ store \in Stores /\ damage \in Damages(build)

LEMMA Builds3 ==
  ASSUME FileOK
  PROVE  /\ build \in {"NONE", "WEAK", "FULL"}
         /\ store.layout \in {"ansi", "unicode"} /\ store.crypt \in {"none", "permute", "cyclic"}
         /\ store.wVer \in Nat /\ (store.wVer >= UnicodeMin) = (store.layout = "unicode")
BY StoresAssumption DEF FileOK

LEMMA Originals ==
  /\ Original(Header) = HeaderSector
  /\ \A l \in DOMAIN PageAt : Original(l) = PageSector(l) /\ l # Header /\ l \notin DOMAIN BlockAt
  /\ \A l \in DOMAIN BlockAt : Original(l) = BlockSector(l) /\ l # Header /\ l \notin DOMAIN PageAt
  /\ \A l \in Elsewhere : Original(l) = Nowhere /\ l # Header /\ l \notin Locs
BY PlacesAssumption DEF Original, Locs

\* One part of what is there is as it was.
LEMMA RotIn ==
  ASSUME NEW l, NEW data, NEW trailer, Original(l) = Sector(data, trailer), NEW part, NEW d,
         part \in {"data", "trailer"}, d \in Rot(l, part)
  PROVE  /\ d.at = l
         /\ part = "data" => d.is.trailer = trailer
         /\ part = "trailer" => d.is.data = data
<1> DEFINE s == Sector(data, trailer)
<1>1. PICK f : d = [at |-> l, is |-> [s EXCEPT ![part][f] = Rotten]]
  BY DEF Rot
<1>2. s = [data |-> data, trailer |-> trailer]
  BY DEF Sector
<1> HIDE DEF s
<1>3. CASE part = "data"
  BY <1>1, <1>2, <1>3
<1>4. CASE part = "trailer"
  BY <1>1, <1>2, <1>4
<1> QED
  BY <1>3, <1>4

LEMMA DamageIs ==
  ASSUME FileOK, damage # None
  PROVE  damage \in Noticed(build) /\ damage.is # Original(damage.at)
BY DEF FileOK, Damages

\* What a damage may be.
LEMMA DamageKinds ==
  ASSUME FileOK, damage # None
  PROVE  \/ /\ damage.at \in DOMAIN PageAt
            /\ \E m \in DOMAIN PageAt : /\ damage.is = PageSector(m)
                                        /\ build = "NONE" => PageAt[m].type # PageAt[damage.at].type
         \/ /\ build = "WEAK" /\ damage.at \in DOMAIN BlockAt
            /\ \E m \in DOMAIN BlockAt : damage.is = BlockSector(m)
         \/ build = "WEAK" /\ \E l \in Locs : damage \in Rot(l, "trailer")
         \/ build = "WEAK" /\ damage \in OtherVersion \cup RottenHeader
         \/ build = "FULL" /\ \E l \in Locs : damage \in Rot(l, "data") \cup Rot(l, "trailer")
<1>1. damage \in Noticed(build) /\ build \in {"NONE", "WEAK", "FULL"}
  BY DamageIs, Builds3
<1>2. ASSUME NEW places, damage \in Swapped(places)
      PROVE  damage.at \in places /\ \E m \in places : damage.is = Original(m)
  BY <1>2 DEF Swapped
<1>3. ASSUME damage \in WrongPage
      PROVE  damage.at \in DOMAIN PageAt /\ \E m \in DOMAIN PageAt : damage.is = PageSector(m)
  BY <1>2, <1>3, Originals DEF WrongPage
<1>4. \A m : PageSector(m).trailer.type = PageAt[m].type
  BY DEF PageSector, Sector
<1>5. CASE build = "NONE"
  <2>1. damage \in WrongPage /\ damage.is.trailer.type # PageAt[damage.at].type
    BY <1>1, <1>5 DEF Noticed, OtherTree
  <2> QED
    BY <1>3, <1>4, <2>1
<1>6. CASE build = "WEAK"
  <2>1. damage \in WrongPage \cup WrongBlock \cup RottenTrailer \cup OtherVersion \cup RottenHeader
    BY <1>1, <1>6 DEF Noticed
  <2>2. CASE damage \in WrongBlock
    <3>1. damage.at \in DOMAIN BlockAt /\ \E m \in DOMAIN BlockAt : damage.is = Original(m)
      BY <1>2, <2>2 DEF WrongBlock
    <3> QED
      BY <1>6, <3>1, Originals
  <2>3. CASE damage \in WrongPage
    BY <1>3, <1>6, <2>3
  <2>4. CASE damage \in RottenTrailer
    BY <1>6, <2>4 DEF RottenTrailer
  <2>5. CASE damage \in OtherVersion \cup RottenHeader
    BY <1>6, <2>5
  <2> QED
    BY <2>1, <2>2, <2>3, <2>4, <2>5
<1>7. CASE build = "FULL"
  <2>1. damage \in WrongPage \/ damage \in RottenTrailer \/ damage \in RottenData
    BY <1>1, <1>7 DEF Noticed
  <2>2. CASE damage \in RottenTrailer \/ damage \in RottenData
    BY <1>7, <2>2 DEF RottenTrailer, RottenData
  <2> QED
    BY <1>3, <1>7, <2>1, <2>2
<1> QED
  BY <1>1, <1>5, <1>6, <1>7

LEMMA HeaderOnly ==
  ASSUME NEW d \in OtherVersion \cup RottenHeader
  PROVE  d.at = Header
<1>1. CASE d \in OtherVersion
  BY <1>1 DEF OtherVersion
<1>2. CASE d \in RottenHeader
  <2>1. d \in Rot(Header, "data") \/ d \in Rot(Header, "trailer")
    BY <1>2 DEF RottenHeader
  <2> QED
    BY <2>1 DEF Rot
<1> QED
  BY <1>1, <1>2

LEMMA RotAt ==
  ASSUME NEW l, NEW part, NEW d \in Rot(l, part)
  PROVE  d.at = l
BY DEF Rot

\* A field that is set to what it is.
LEMMA SetToItself ==
  ASSUME NEW g, g = [x \in DOMAIN g |-> g[x]], NEW f, NEW v, g[f] = v
  PROVE  [g EXCEPT ![f] = v] = g
OBVIOUS

\* A field that has changed.
LEMMA RotField ==
  ASSUME NEW l, NEW data, NEW trailer, Original(l) = Sector(data, trailer), NEW part, NEW d,
         part \in {"data", "trailer"}, d \in Rot(l, part), d.is # Original(l),
         data = [x \in DOMAIN data |-> data[x]], trailer = [x \in DOMAIN trailer |-> trailer[x]]
  PROVE  /\ part = "data" =>
              /\ d.is.trailer = trailer
              /\ \E f \in DOMAIN data :
                   /\ data[f] # Rotten /\ d.is.data[f] = Rotten
                   /\ \A g \in DOMAIN data : g # f => d.is.data[g] = data[g]
         /\ part = "trailer" =>
              /\ d.is.data = data
              /\ \E f \in DOMAIN trailer :
                   /\ trailer[f] # Rotten /\ d.is.trailer[f] = Rotten
                   /\ \A g \in DOMAIN trailer : g # f => d.is.trailer[g] = trailer[g]
<1> DEFINE s == Sector(data, trailer)
<1>1. PICK f \in DOMAIN s[part] : d = [at |-> l, is |-> [s EXCEPT ![part][f] = Rotten]]
  BY DEF Rot
<1>2. s = [data |-> data, trailer |-> trailer]
  BY DEF Sector
<1>3. d.is = [s EXCEPT ![part][f] = Rotten] /\ d.is # s
  BY <1>1
<1>4. s = [x \in DOMAIN s |-> s[x]]
  BY <1>2
<1> HIDE DEF s
<1>5. CASE part = "data"
  <2>1. f \in DOMAIN data /\ s["data"] = data
    BY <1>1, <1>2, <1>5
  <2>2. d.is = [s EXCEPT !["data"] = [data EXCEPT ![f] = Rotten]]
    BY <1>3, <1>5, <2>1
  <2>3. data[f] # Rotten
    BY <1>3, <1>4, <2>1, <2>2, SetToItself
  <2>4. d.is.trailer = trailer /\ d.is.data = [data EXCEPT ![f] = Rotten]
    BY <1>2, <2>2
  <2> QED
    BY <1>5, <2>1, <2>3, <2>4
<1>6. CASE part = "trailer"
  <2>1. f \in DOMAIN trailer /\ s["trailer"] = trailer
    BY <1>1, <1>2, <1>6
  <2>2. d.is = [s EXCEPT !["trailer"] = [trailer EXCEPT ![f] = Rotten]]
    BY <1>3, <1>6, <2>1
  <2>3. trailer[f] # Rotten
    BY <1>3, <1>4, <2>1, <2>2, SetToItself
  <2>4. d.is.data = data /\ d.is.trailer = [trailer EXCEPT ![f] = Rotten]
    BY <1>2, <2>2
  <2> QED
    BY <1>6, <2>1, <2>3, <2>4
<1> QED
  BY <1>5, <1>6

\* A page that has passed, as one of its tree, is the one that the reference is to.
LEMMA PageRight ==
  ASSUME FileOK, NEW l \in DOMAIN PageAt, NEW ref, ref.loc = l, ref.id = PageAt[l].id,
         PagePasses(ref), At(l).trailer.type \in Trees,
         Weak \/ At(l).trailer.type = PageAt[l].type
  PROVE  /\ At(l).data = [level |-> PageAt[l].level, body |-> PageAt[l].body]
         /\ At(l).trailer.type = PageAt[l].type
<1> DEFINE data(m) == [level |-> PageAt[m].level, body |-> PageAt[m].body]
           trailer(m) == [id |-> PageAt[m].id, type |-> PageAt[m].type, repeat |-> PageAt[m].type,
                          sig |-> ComputeSignature(PageAt[m].id, m), crc |-> data(m)]
<1>1. \A m : PageSector(m) = Sector(data(m), trailer(m))
  BY DEF PageSector
<1>2. \A m : /\ PageSector(m).data = data(m) /\ PageSector(m).trailer = trailer(m)
             /\ PageSector(m).trailer.id = PageAt[m].id /\ PageSector(m).trailer.type = PageAt[m].type
             /\ trailer(m).crc = data(m)
  BY <1>1 DEF Sector
<1>3. Original(l) = PageSector(l) /\ l \in Locs /\ l # Header /\ l \notin DOMAIN BlockAt
  BY Originals DEF Locs
<1> SUFFICES At(l).data = data(l) /\ At(l).trailer.type = PageAt[l].type
  OBVIOUS
<1>0. /\ data(l) = [x \in DOMAIN data(l) |-> data(l)[x]]
      /\ trailer(l) = [x \in DOMAIN trailer(l) |-> trailer(l)[x]] /\ "type" \in DOMAIN trailer(l)
      /\ trailer(l).type = PageAt[l].type
  OBVIOUS
<1> HIDE DEF data, trailer
<1>4. CASE damage = None \/ damage.at # l
  BY <1>2, <1>3, <1>4 DEF At
<1>5. CASE damage # None /\ damage.at = l
  <2>1. At(l) = damage.is /\ damage.is # PageSector(l)
    BY <1>3, <1>5, DamageIs DEF At
  <2>2. ASSUME NEW m \in DOMAIN PageAt, damage.is = PageSector(m),
               build = "NONE" => PageAt[m].type # PageAt[l].type
        PROVE  FALSE
    <3>1. m # l
      BY <2>1, <2>2
    <3>2. Weak
      BY <1>2, <2>1, <2>2, Builds3 DEF Weak
    <3>3. PageAt[m].id = PageAt[l].id
      BY <1>2, <2>1, <2>2, <3>2 DEF PagePasses
    <3> QED
      BY <3>1, <3>3, PagesAssumption
  <2>3. CASE damage \in Rot(l, "trailer")
    <3>1. /\ damage.is.data = data(l)
          /\ \E f \in DOMAIN trailer(l) :
               /\ damage.is.trailer[f] = Rotten
               /\ \A g \in DOMAIN trailer(l) : g # f => damage.is.trailer[g] = trailer(l)[g]
      BY <1>0, <1>1, <1>3, <2>1, <2>3, RotField
    <3>2. Rotten \notin Trees
      BY NamesAssumption
    <3> QED
      BY <1>0, <2>1, <3>1, <3>2
  <2>4. CASE damage \in Rot(l, "data") /\ build = "FULL"
    <3>1. At(l).trailer = trailer(l)
      BY <1>1, <1>3, <2>1, <2>4, RotIn
    <3>2. At(l).trailer.crc = At(l).data
      BY <2>4 DEF PagePasses, Full
    <3> QED
      BY <1>2, <3>1, <3>2
  <2> QED
    BY <1>3, <1>5, <2>1, <2>2, <2>3, <2>4, DamageKinds, HeaderOnly, RotAt
<1> QED
  BY <1>4, <1>5

\* Opening a store in its own format, undamaged, is all that passes.
LEMMA HeaderRight ==
  ASSUME FileOK, NEW layout \in {"ansi", "unicode"}, Passes(HeaderTests(layout))
  PROVE  layout = store.layout /\ At(Header).data = HeaderSector.data /\ At(Header) = Original(Header)
<1> DEFINE h == At(Header)
           data == [wVer |-> store.wVer, roots |-> Roots, eof |-> Eof, crypt |-> store.crypt]
           trailer == [partial |-> FirstPart(data),
                       full |-> IF store.layout = "ansi" THEN None ELSE data]
<1>1. /\ (h.data.wVer >= UnicodeMin) = (layout = "unicode")
      /\ Weak => h.trailer.partial = FirstPart(h.data)
      /\ Weak /\ layout = "unicode" => h.trailer.full = h.data
  <2> DEFINE p1 == (h.data.wVer >= UnicodeMin) # (layout = "unicode")
             p2 == Weak /\ h.trailer.partial # FirstPart(h.data)
             p3 == Weak /\ layout = "unicode" /\ h.trailer.full # h.data
  <2>1. HeaderTests(layout) =
          << Test(p1, "invalid_format"), Test(p2, "crc_fail"), Test(p3, "crc_fail") >>
    BY DEF HeaderTests
  <2> SUFFICES ~p1 /\ ~p2 /\ ~p3
    OBVIOUS
  <2> HIDE DEF p1, p2, p3
  <2> QED
    BY <2>1 DEF Passes, Test
<1>2. Original(Header) = Sector(data, trailer) /\ HeaderSector.data = data
  BY Originals DEF HeaderSector, Sector
<1>3. /\ store.layout \in {"ansi", "unicode"} /\ store.wVer \in Nat
      /\ (store.wVer >= UnicodeMin) = (store.layout = "unicode")
  BY Builds3
<1>4. /\ data = [x \in DOMAIN data |-> data[x]] /\ trailer = [x \in DOMAIN trailer |-> trailer[x]]
      /\ DOMAIN data = {"wVer", "roots", "eof", "crypt"} /\ DOMAIN trailer = {"partial", "full"}
      /\ data.wVer = store.wVer /\ trailer.partial = FirstPart(data)
      /\ trailer.full = IF store.layout = "ansi" THEN None ELSE data
  OBVIOUS
<1>5. \A x : FirstPart(x) = IF store.layout = "ansi" THEN x ELSE [x EXCEPT !.crypt = None]
  BY DEF FirstPart
<1>6. CASE damage = None \/ damage.at # Header
  <2>1. h = Sector(data, trailer)
    BY <1>2, <1>6 DEF At
  <2>2. h.data = data
    BY <2>1 DEF Sector
  <2> QED
    BY <1>1, <1>2, <1>3, <1>4, <1>6, <2>2 DEF At
<1> HIDE DEF data, trailer
<1>7. CASE damage # None /\ damage.at = Header
  <2>1. h = damage.is /\ damage.is # Original(Header) /\ damage.is # Sector(data, trailer)
    BY <1>2, <1>7, DamageIs DEF At
  <2>2. build = "WEAK" /\ damage \in OtherVersion \cup RottenHeader /\ Weak
    <3>1. Header \notin DOMAIN PageAt /\ Header \notin DOMAIN BlockAt /\ Header \notin Locs
      BY Originals, PlacesAssumption
    <3> QED
      BY <1>7, <3>1, DamageKinds, RotAt DEF Weak
  <2>3. CASE damage \in OtherVersion
    <3>0. PICK s \in Stores :
            damage = [at |-> Header, is |-> [HeaderSector EXCEPT !.data.wVer = s.wVer]]
      BY <2>3, Zenon DEF OtherVersion
    <3>1. damage.is = [HeaderSector EXCEPT !.data.wVer = s.wVer]
      BY <3>0
    <3> DEFINE w == s.wVer
               now == [data EXCEPT !.wVer = w]
               sec == Sector(data, trailer)
    <3>2. sec = [data |-> data, trailer |-> trailer] /\ HeaderSector = sec
      BY <1>2, Originals DEF Sector
    <3>3. sec = [x \in DOMAIN sec |-> sec[x]]
      BY <3>2
    <3> HIDE DEF sec, w
    <3>4. damage.is = [sec EXCEPT !.data = now] /\ sec.data = data
      BY <3>1, <3>2 DEF w
    <3>5. h.data = now /\ h.trailer = trailer
      BY <2>1, <3>2, <3>4
    <3>6. w # data.wVer
      BY <1>4, <2>1, <3>3, <3>4, SetToItself DEF sec
    <3>7. now.wVer = w /\ [data EXCEPT !.crypt = None].wVer = data.wVer
          /\ [now EXCEPT !.crypt = None].wVer = w
      BY <1>4
    <3>8. FirstPart(data) = FirstPart(now)
      BY <1>1, <1>4, <2>2, <3>5
    <3> QED
      BY <1>3, <1>5, <3>6, <3>7, <3>8
  <2>4. CASE damage \in RottenHeader /\ damage \in Rot(Header, "data")
    <3>1. PICK f \in DOMAIN data :
            /\ h.trailer = trailer /\ data[f] # Rotten /\ h.data[f] = Rotten
            /\ \A g \in DOMAIN data : g # f => h.data[g] = data[g]
      BY <1>2, <1>4, <2>1, <2>4, RotField
    <3>2. h.data # data /\ h.data.wVer # Rotten
      BY <2>1, <2>4, <3>1 DEF RottenHeader
    <3>3. h.data.wVer = store.wVer
      BY <1>4, <3>1, <3>2
    <3>4. layout = store.layout
      BY <1>1, <1>3, <3>3
    <3> QED
      BY <1>1, <1>3, <1>4, <1>5, <2>2, <3>1, <3>2, <3>4
  <2>5. CASE damage \in RottenHeader /\ damage \in Rot(Header, "trailer")
    <3>1. PICK f \in DOMAIN trailer :
            h.data = data /\ trailer[f] # Rotten /\ h.trailer[f] = Rotten
      BY <1>2, <1>4, <2>1, <2>5, RotField
    <3>2. layout = store.layout
      BY <1>1, <1>3, <1>4, <3>1
    <3>3. CASE f = "partial"
      BY <1>1, <1>4, <2>2, <3>1, <3>3
    <3>4. CASE f = "full"
      <4>1. store.layout = "unicode"
        BY <1>3, <2>1, <2>5, <3>1, <3>4 DEF RottenHeader
      <4> QED
        BY <1>1, <1>4, <2>2, <3>1, <3>2, <3>4, <4>1
    <3> QED
      BY <1>4, <3>3, <3>4
  <2> QED
    BY <2>2, <2>3, <2>4, <2>5 DEF RottenHeader
<1> QED
  BY <1>6, <1>7

-----------------------------------------------------------------------------
(***************************************************************************)
(* Reading a block.                                                        *)
(***************************************************************************)

TrueDb == [layout |-> store.layout, roots |-> Roots, eof |-> Eof, crypt |-> store.crypt]

\* The tests of read_block_data
BlockPasses(bi) ==
  LET s == At(bi.loc)
      aligned == AlignDisk(db.layout, bi.size)
  IN /\ ~(Weak /\ aligned > MaxBlockDiskSize)
     /\ ~(Weak /\ bi.loc + aligned > db.eof)
     /\ InFile(bi.loc, aligned)
     /\ ~(Weak /\ s.trailer.id # bi.id)
     /\ ~(Weak /\ s.trailer.cb # bi.size)
     /\ ~(Weak /\ s.trailer.sig # ComputeSignature(bi.id, bi.loc))
     /\ ~(Full /\ s.trailer.crc # s.data)

LEMMA BlockTestsAre ==
  ASSUME NEW bi
  PROVE  /\ BlockTests(bi) \in Tests /\ DOMAIN BlockTests(bi) = 1..7 /\ Len(BlockTests(bi)) = 7
         /\ BlockPasses(bi) <=> Passes(BlockTests(bi))
<1> DEFINE s == At(bi.loc)
           aligned == AlignDisk(db.layout, bi.size)
           t == BlockTests(bi)
           p1 == Weak /\ aligned > MaxBlockDiskSize
           p2 == Weak /\ bi.loc + aligned > db.eof
           p3 == ~InFile(bi.loc, aligned)
           p4 == Weak /\ s.trailer.id # bi.id
           p5 == Weak /\ s.trailer.cb # bi.size
           p6 == Weak /\ s.trailer.sig # ComputeSignature(bi.id, bi.loc)
           p7 == Full /\ s.trailer.crc # s.data
<1>1. t = << Test(p1, "unexpected_block"), Test(p2, "unexpected_block"), Test(p3, "out_of_range"),
             Test(p4, "unexpected_block"), Test(p5, "unexpected_block"), Test(p6, "sig_mismatch"),
             Test(p7, "crc_fail") >>
  BY DEF BlockTests
<1>2. BlockPasses(bi) <=> ~p1 /\ ~p2 /\ ~p3 /\ ~p4 /\ ~p5 /\ ~p6 /\ ~p7
  BY DEF BlockPasses
<1>3. p1 \in BOOLEAN /\ p2 \in BOOLEAN /\ p3 \in BOOLEAN /\ p4 \in BOOLEAN /\ p5 \in BOOLEAN
      /\ p6 \in BOOLEAN /\ p7 \in BOOLEAN
  BY DEF Weak, Full, InFile
<1> SUFFICES t \in Tests /\ DOMAIN t = 1..7 /\ Len(t) = 7 /\ (BlockPasses(bi) <=> Passes(t))
  OBVIOUS
<1> HIDE DEF t, p1, p2, p3, p4, p5, p6, p7
<1>4. Passes(t) <=> ~p1 /\ ~p2 /\ ~p3 /\ ~p4 /\ ~p5 /\ ~p6 /\ ~p7
  BY <1>1, <1>3 DEF Passes, Test
<1>5. t \in Tests
  BY <1>1, <1>3 DEF Test, Tests, Errors, Corrupt, Unread
<1> QED
  BY <1>1, <1>2, <1>4, <1>5

\* The answer a of a read whose test P comes before those of the block, or after.
Tested(a, P, bi, v) ==
  \/ a = Value(v) /\ BlockPasses(bi) /\ ~P
  \/ \E e \in Errors : a = Throws(e) /\ (BlockPasses(bi) => e = "unexpected_block" /\ P)

LEMMA TestedBlock ==
  ASSUME NEW bi, NEW P \in BOOLEAN, NEW v, NEW a,
         \/ a = Checked(<<Test(P, "unexpected_block")>> \o BlockTests(bi), v)
         \/ a = Checked(BlockTests(bi) \o <<Test(P, "unexpected_block")>>, v)
  PROVE  Tested(a, P, bi, v)
<1> DEFINE u == <<Test(P, "unexpected_block")>>
           t == BlockTests(bi)
<1>1. /\ t \in Tests /\ (BlockPasses(bi) <=> Passes(t))
      /\ \A i \in DOMAIN t : t[i].e \in Errors
  <2>1. t \in Tests /\ DOMAIN t = 1..7 /\ Len(t) = 7 /\ (BlockPasses(bi) <=> Passes(t))
    BY BlockTestsAre
  <2>2. \A i \in 1..7 : t[i] \in [fails : BOOLEAN, e : Errors]
    BY <2>1, ElementOfSeq DEF Tests
  <2> QED
    BY <2>1, <2>2
<1>2. /\ u \in Tests /\ (Passes(u) <=> ~P)
      /\ \A i \in DOMAIN u : u[i].e = "unexpected_block" /\ (u[i].fails => P)
  BY DEF Test, Tests, Errors, Corrupt, Unread, Passes
<1>3. a = Checked(u \o t, v) \/ a = Checked(t \o u, v)
  OBVIOUS
<1> HIDE DEF u, t
<1>4. \/ Passes(t) /\ Passes(u) /\ a = Value(v)
      \/ \E i \in DOMAIN t : t[i].fails /\ a = Throws(t[i].e)
      \/ \E i \in DOMAIN u : u[i].fails /\ a = Throws(u[i].e)
  BY <1>1, <1>2, <1>3, CheckedBoth
<1>5. "unexpected_block" \in Errors
  BY DEF Errors, Corrupt
<1>6. ASSUME NEW i \in DOMAIN t, t[i].fails, a = Throws(t[i].e)
      PROVE  \E e \in Errors : a = Throws(e) /\ ~BlockPasses(bi)
  BY <1>1, <1>6 DEF Passes
<1>7. ASSUME NEW i \in DOMAIN u, u[i].fails, a = Throws(u[i].e)
      PROVE  a = Throws("unexpected_block") /\ P
  BY <1>2, <1>7
<1> QED
  BY <1>1, <1>2, <1>4, <1>5, <1>6, <1>7 DEF Tested

\* A block that has passed is the one that the entry is of, and one that is not
\* damaged passes.
LEMMA BlockRight ==
  ASSUME FileOK, db = TrueDb, NEW l \in DOMAIN BlockAt, NEW bi,
         bi.loc = l, bi.id = BlockAt[l].id, bi.size = BlockAt[l].size
  PROVE  /\ BlockPasses(bi) => At(l).data = BlockSector(l).data
         /\ damage = None => BlockPasses(bi) /\ At(l).data = BlockSector(l).data
<1> DEFINE body(m) == IF BlockAt[m].type = "external" THEN Encoded(BlockAt[m].body, BlockAt[m].id)
                      ELSE BlockAt[m].body
           data(m) == [type |-> BlockAt[m].type, level |-> BlockAt[m].level, body |-> body(m)]
           trailer(m) == [id |-> BlockAt[m].id, cb |-> BlockAt[m].size,
                          sig |-> ComputeSignature(BlockAt[m].id, m), crc |-> data(m)]
<1>1. \A m : BlockSector(m) = Sector(data(m), trailer(m))
  BY DEF BlockSector
<1>2. \A m : /\ BlockSector(m).data = data(m) /\ BlockSector(m).trailer = trailer(m)
             /\ trailer(m).id = BlockAt[m].id /\ trailer(m).cb = BlockAt[m].size
             /\ trailer(m).sig = ComputeSignature(BlockAt[m].id, m) /\ trailer(m).crc = data(m)
  BY <1>1 DEF Sector
<1>3. Original(l) = BlockSector(l) /\ l \in Locs /\ l # Header /\ l \notin DOMAIN PageAt
  BY Originals DEF Locs
<1> HIDE DEF data, trailer
<1>4. CASE damage = None
  <2>1. At(l) = BlockSector(l)
    BY <1>3, <1>4 DEF At
  <2>2. db.layout = store.layout /\ db.eof = Eof /\ store.layout \in {"ansi", "unicode"}
    BY Builds3 DEF TrueDb
  <2>3. LET aligned == AlignDisk(db.layout, bi.size)
        IN aligned <= MaxBlockDiskSize /\ l + aligned <= Eof
    BY <2>2, BlocksAssumption
  <2>4. ~(AlignDisk(db.layout, bi.size) > MaxBlockDiskSize)
        /\ ~(l + AlignDisk(db.layout, bi.size) > Eof)
    <3>1. l \in Nat /\ bi.size \in Nat /\ Eof \in Nat
      BY BlocksAssumption, StoresAssumption
    <3>2. AlignDisk(db.layout, bi.size) \in Int
      BY <3>1 DEF AlignDisk, AlignSlot, TrailerSize, BytesPerSlot
    <3> QED
      BY <2>3, <3>1, <3>2 DEF MaxBlockDiskSize
  <2>5. BlockPasses(bi)
    BY <1>2, <2>1, <2>2, <2>3, <2>4 DEF BlockPasses, InFile
  <2> QED
    BY <1>2, <2>1, <2>5
<1>5. CASE damage # None /\ damage.at # l
  BY <1>3, <1>5 DEF At
<1>6. CASE damage # None /\ damage.at = l
  <2>1. At(l) = damage.is /\ damage.is # BlockSector(l)
    BY <1>3, <1>6, DamageIs DEF At
  <2>2. ASSUME build = "WEAK", NEW m \in DOMAIN BlockAt, damage.is = BlockSector(m),
               BlockPasses(bi)
        PROVE  FALSE
    <3>1. BlockAt[m].id = BlockAt[l].id
      BY <1>2, <2>1, <2>2 DEF BlockPasses, Weak
    <3> QED
      BY <2>1, <2>2, <3>1, BlocksAssumption
  <2>3. CASE damage \in Rot(l, "trailer")
    BY <1>1, <1>2, <1>3, <1>6, <2>1, <2>3, RotIn
  <2>4. CASE damage \in Rot(l, "data") /\ build = "FULL"
    <3>1. At(l).trailer = trailer(l)
      BY <1>1, <1>3, <2>1, <2>4, RotIn
    <3>2. BlockPasses(bi) => At(l).trailer.crc = At(l).data
      BY <2>4 DEF BlockPasses, Full
    <3> QED
      BY <1>2, <1>6, <3>1, <3>2
  <2> QED
    BY <1>3, <1>6, <2>1, <2>2, <2>3, <2>4, DamageKinds, HeaderOnly, RotAt
<1> QED
  BY <1>4, <1>5, <1>6

LEMMA Results ==
  /\ \A e : Throws(e).throws = e
  /\ \A v : Value(v).throws = None /\ Value(v).value = v
  /\ \A e \in Errors : e # None
BY NamesAssumption DEF Throws, Value, Errors

\* An answer is the true one, or excused.
Well(a, truth) ==
  a = truth \/ a.throws \in Unread \/ (damage # None /\ a.throws \in Corrupt)

\* The answer of a read of a block: the true one if the block passes.
WellRead(bi, a, truth) == Well(a, truth) /\ (BlockPasses(bi) => a = truth)

LEMMA FromTested ==
  ASSUME NEW a, NEW P, NEW bi, NEW v, Tested(a, P, bi, v), NEW truth,
         BlockPasses(bi) /\ ~P => Value(v) = truth,
         BlockPasses(bi) /\ P => truth = Throws("unexpected_block"),
         damage = None => BlockPasses(bi)
  PROVE  WellRead(bi, a, truth)
<1>1. CASE a = Value(v) /\ BlockPasses(bi) /\ ~P
  BY <1>1 DEF Well, WellRead
<1>2. ASSUME NEW e \in Errors, a = Throws(e), BlockPasses(bi) => e = "unexpected_block" /\ P
      PROVE  WellRead(bi, a, truth)
  <2>1. a.throws = e
    BY <1>2, Results
  <2>2. CASE BlockPasses(bi)
    BY <1>2, <2>2 DEF Well, WellRead
  <2>3. CASE ~BlockPasses(bi)
    BY <2>1, <2>3 DEF Well, WellRead, Errors
  <2> QED
    BY <2>2, <2>3
<1> QED
  BY <1>1, <1>2 DEF Tested

\* A read of a damaged block that throws
LEMMA NotPassed ==
  ASSUME NEW a, NEW P, NEW bi, NEW v, Tested(a, P, bi, v), ~BlockPasses(bi), damage # None,
         NEW truth
  PROVE  WellRead(bi, a, truth)
<1>1. PICK e \in Errors : a = Throws(e)
  BY DEF Tested
<1> QED
  BY <1>1, Results DEF Well, WellRead, Errors

\* The entry that the BBT has for the block at l.
EntryOf(bi, l) ==
  /\ l \in DOMAIN BlockAt /\ bi.loc = l /\ bi.id = BlockAt[l].id /\ bi.size = BlockAt[l].size
  /\ bi.id # 0

LEMMA BlockData ==
  ASSUME NEW l \in DOMAIN BlockAt
  PROVE  LET d == BlockSector(l).data
             b == BlockAt[l]
         IN /\ d.type = b.type /\ d.level = b.level
            /\ d.body = IF b.type = "external" THEN Encoded(b.body, b.id) ELSE b.body
            /\ b.type \in {"external", "extended", "sub"}
            /\ IsInternal(b.id) = (b.type # "external")
BY BlocksAssumption DEF BlockSector, Sector

LEMMA DecodedRight ==
  ASSUME FileOK, NEW l \in DOMAIN BlockAt, BlockAt[l].type = "external"
  PROVE  Decoded(Encoded(BlockAt[l].body, BlockAt[l].id), store.crypt, BlockAt[l].id)
           = BlockAt[l].body
<1> DEFINE body == BlockAt[l].body
           id == BlockAt[l].id
<1>1. body \in Seq(Byte) /\ id \in Nat /\ store.crypt \in {"none", "permute", "cyclic"}
  BY BlocksAssumption, Builds3
<1> SUFFICES Decoded(Encoded(body, id), store.crypt, id) = body
  OBVIOUS
<1> HIDE DEF body, id
<1>2. CASE store.crypt = "permute"
  <2>1. Encoded(body, id) = Permute(body, TRUE) /\ \A x : Decoded(x, store.crypt, id) = Permute(x, FALSE)
    BY <1>2 DEF Encoded, Decoded
  <2> QED
    BY <1>1, <2>1, PermuteDecrypts
<1>3. CASE store.crypt = "cyclic"
  <2>1. Encoded(body, id) = Cyclic(body, id) /\ \A x : Decoded(x, store.crypt, id) = Cyclic(x, id)
    BY <1>3 DEF Encoded, Decoded
  <2> QED
    BY <1>1, <2>1, CyclicDecrypts
<1>4. CASE store.crypt = "none"
  BY <1>4 DEF Encoded, Decoded
<1> QED
  BY <1>1, <1>2, <1>3, <1>4

LEMMA ExternalRight ==
  ASSUME FileOK, db = TrueDb, NEW l, NEW bi, EntryOf(bi, l)
  PROVE  LET b == BlockAt[l]
         IN WellRead(bi, ExternalBlock(bi),
                 IF b.type = "external" THEN Value(Block("external", bi, 0, b.body))
                 ELSE Throws("unexpected_block"))
<1> DEFINE b == BlockAt[l]
           v == Block("external", bi, 0, Decoded(At(bi.loc).data.body, db.crypt, bi.id))
           P == IsInternal(bi.id)
           truth == IF b.type = "external" THEN Value(Block("external", bi, 0, b.body))
                    ELSE Throws("unexpected_block")
<1>1. ExternalBlock(bi) = Checked(<<Test(P, "unexpected_block")>> \o BlockTests(bi), v)
  BY DEF ExternalBlock, EntryOf
<1>2. P \in BOOLEAN /\ (P <=> b.type # "external")
  BY BlockData DEF EntryOf, IsInternal
<1>3. BlockPasses(bi) => At(l).data = BlockSector(l).data
  BY BlockRight DEF EntryOf
<1>4. damage = None => BlockPasses(bi)
  BY BlockRight DEF EntryOf
<1>5. ASSUME BlockPasses(bi), ~P
      PROVE  Value(v) = truth
  <2>1. b.type = "external" /\ At(bi.loc).data.body = Encoded(b.body, b.id)
    BY <1>2, <1>3, <1>5, BlockData DEF EntryOf
  <2>2. v = Block("external", bi, 0, b.body)
    BY <2>1, DecodedRight DEF EntryOf, TrueDb
  <2> QED
    BY <2>1, <2>2
<1>6. P => truth = Throws("unexpected_block")
  BY <1>2
<1>7. Tested(ExternalBlock(bi), P, bi, v)
  <2> HIDE DEF P, v
  <2> QED
    BY <1>1, <1>2, TestedBlock
<1> HIDE DEF P, v, truth
<1>8. WellRead(bi, ExternalBlock(bi), truth)
  BY <1>4, <1>5, <1>6, <1>7, FromTested
<1> QED
  BY <1>8 DEF truth

LEMMA ExtendedRight ==
  ASSUME FileOK, db = TrueDb, NEW l, NEW bi, EntryOf(bi, l)
  PROVE  LET b == BlockAt[l]
         IN /\ b.type # "sub" =>
                 WellRead(bi, ExtendedBlock(bi),
                      IF b.type = "extended" THEN Value(Block("extended", bi, b.level, b.body))
                      ELSE Throws("unexpected_block"))
            /\ \E v : Tested(ExtendedBlock(bi), b.type = "external", bi, v)
<1> DEFINE b == BlockAt[l]
           data == At(bi.loc).data
           v == Block("extended", bi, data.level, data.body)
           P == ~IsInternal(bi.id)
           truth == IF b.type = "extended" THEN Value(Block("extended", bi, b.level, b.body))
                    ELSE Throws("unexpected_block")
<1>1. ExtendedBlock(bi) = Checked(<<Test(P, "unexpected_block")>> \o BlockTests(bi), v)
  BY DEF ExtendedBlock
<1>2. P \in BOOLEAN /\ P = (b.type = "external") /\ b.type \in {"external", "extended", "sub"}
  BY BlockData DEF EntryOf, IsInternal
<1>3. BlockPasses(bi) => At(l).data = BlockSector(l).data
  BY BlockRight DEF EntryOf
<1>4. damage = None => BlockPasses(bi)
  BY BlockRight DEF EntryOf
<1>5. ASSUME BlockPasses(bi), ~P, b.type # "sub"
      PROVE  Value(v) = truth
  <2>1. b.type = "extended" /\ data.level = b.level /\ data.body = b.body
    BY <1>2, <1>3, <1>5, BlockData DEF EntryOf
  <2> QED
    BY <2>1
<1>6. P => truth = Throws("unexpected_block")
  BY <1>2
<1>7. Tested(ExtendedBlock(bi), P, bi, v)
  <2> HIDE DEF P, v
  <2> QED
    BY <1>1, <1>2, TestedBlock
<1> HIDE DEF P, v, truth
<1>8. b.type # "sub" => WellRead(bi, ExtendedBlock(bi), truth)
  BY <1>4, <1>5, <1>6, <1>7, FromTested
<1> QED
  BY <1>2, <1>7, <1>8 DEF truth

\* What the functions for data and for subnodes are to answer of a block.
DataTruth(bi, b) ==
  IF b.type = "sub" THEN Throws("unexpected_block")
  ELSE Value(Block(b.type, bi, b.level, b.body))
SubTruth(bi, b) == Value(Block(KindOf(b), bi, b.level, b.body))

LEMMA HeaderInFile ==
  ASSUME FileOK, db = TrueDb, NEW l, NEW bi, EntryOf(bi, l)
  PROVE  InFile(bi.loc, ExtendedHeaderSize(db.layout))
<1> DEFINE size == BlockAt[l].size
           layout == store.layout
<1>1. l \in Nat /\ size \in Nat /\ Eof \in Nat /\ layout \in {"ansi", "unicode"}
      /\ l + AlignDisk(layout, size) <= Eof
  BY BlocksAssumption, StoresAssumption, Builds3 DEF EntryOf
<1>2. bi.loc = l /\ db.layout = layout
  BY DEF EntryOf, TrueDb
<1> HIDE DEF size, layout
<1>3. AlignDisk(layout, size) \in Int /\ size + ExtendedHeaderSize(layout) <= AlignDisk(layout, size)
  BY <1>1 DEF AlignDisk, AlignSlot, TrailerSize, BytesPerSlot, ExtendedHeaderSize
<1>4. ExtendedHeaderSize(layout) \in Nat
  BY DEF ExtendedHeaderSize
<1> QED
  BY <1>1, <1>2, <1>3, <1>4 DEF InFile

LEMMA DataRight ==
  ASSUME FileOK, db = TrueDb, NEW l, NEW bi, EntryOf(bi, l)
  PROVE  WellRead(bi, DataBlock(bi), DataTruth(bi, BlockAt[l]))
<1> DEFINE b == BlockAt[l]
           data == At(bi.loc).data
<1>1. b.type \in {"external", "extended", "sub"} /\ (IsInternal(bi.id) <=> b.type # "external")
      /\ InFile(bi.loc, ExtendedHeaderSize(db.layout))
      /\ (b.type = "external" => b.level = 0)
  BY BlockData, HeaderInFile, BlocksAssumption DEF EntryOf, IsInternal
<1>2. BlockPasses(bi) => data.type = b.type
  BY BlockRight, BlockData DEF EntryOf
<1>3. damage = None => BlockPasses(bi)
  BY BlockRight DEF EntryOf
<1>4. CASE b.type = "external"
  BY <1>1, <1>4, ExternalRight DEF DataBlock, DataTruth
<1>5. CASE b.type # "external" /\ data.type # "extended"
  <2>1. DataBlock(bi) = Throws("unexpected_block")
    BY <1>1, <1>5 DEF DataBlock
  <2>2. BlockPasses(bi) => DataTruth(bi, b) = Throws("unexpected_block")
    BY <1>1, <1>2, <1>5 DEF DataTruth
  <2>3. Throws("unexpected_block").throws \in Corrupt
    BY Results DEF Corrupt
  <2> QED
    BY <1>3, <2>1, <2>2, <2>3 DEF WellRead, Well
<1>6. CASE b.type # "external" /\ data.type = "extended"
  <2>1. DataBlock(bi) = ExtendedBlock(bi)
    BY <1>1, <1>6 DEF DataBlock
  <2>2. CASE b.type = "extended"
    BY <2>1, <2>2, ExtendedRight DEF DataTruth
  <2>3. CASE b.type = "sub"
    <3>1. ~BlockPasses(bi) /\ damage # None
      BY <1>2, <1>3, <1>6, <2>3
    <3>2. PICK v : Tested(ExtendedBlock(bi), b.type = "external", bi, v)
      BY ExtendedRight
    <3> QED
      BY <2>1, <3>1, <3>2, NotPassed
  <2> QED
    BY <1>1, <1>6, <2>2, <2>3
<1> QED
  BY <1>4, <1>5, <1>6

LEMMA SubnodeTested ==
  ASSUME NEW bi
  PROVE  LET data == At(bi.loc).data
         IN /\ Tested(SubnodeLeafBlock(bi), data.level # 0, bi,
                      Block("subnode_leaf", bi, 0, data.body))
            /\ Tested(SubnodeNonleafBlock(bi), data.level = 0, bi,
                      Block("subnode_nonleaf", bi, data.level, data.body))
<1> DEFINE data == At(bi.loc).data
           P == data.level # 0
           Q == data.level = 0
           v == Block("subnode_leaf", bi, 0, data.body)
           w == Block("subnode_nonleaf", bi, data.level, data.body)
<1>1. P \in BOOLEAN /\ Q \in BOOLEAN
  OBVIOUS
<1>2. SubnodeLeafBlock(bi) = Checked(BlockTests(bi) \o <<Test(P, "unexpected_block")>>, v)
  BY DEF SubnodeLeafBlock
<1>3. SubnodeNonleafBlock(bi) = Checked(BlockTests(bi) \o <<Test(Q, "unexpected_block")>>, w)
  BY DEF SubnodeNonleafBlock
<1> SUFFICES Tested(SubnodeLeafBlock(bi), P, bi, v) /\ Tested(SubnodeNonleafBlock(bi), Q, bi, w)
  OBVIOUS
<1> HIDE DEF P, Q, v, w
<1> QED
  BY <1>1, <1>2, <1>3, TestedBlock

LEMMA SubnodesRight ==
  ASSUME FileOK, db = TrueDb, NEW l, NEW bi, EntryOf(bi, l), BlockAt[l].type = "sub"
  PROVE  LET b == BlockAt[l]
         IN /\ WellRead(bi, SubnodeLeafBlock(bi),
                        IF b.level = 0 THEN SubTruth(bi, b) ELSE Throws("unexpected_block"))
            /\ WellRead(bi, SubnodeNonleafBlock(bi),
                        IF b.level = 0 THEN Throws("unexpected_block") ELSE SubTruth(bi, b))
            /\ WellRead(bi, SubnodeBlock(bi), SubTruth(bi, b))
<1> DEFINE b == BlockAt[l]
           data == At(bi.loc).data
           v == Block("subnode_leaf", bi, 0, data.body)
           w == Block("subnode_nonleaf", bi, data.level, data.body)
           leaf == IF b.level = 0 THEN SubTruth(bi, b) ELSE Throws("unexpected_block")
           nonleaf == IF b.level = 0 THEN Throws("unexpected_block") ELSE SubTruth(bi, b)
<1>1. BlockPasses(bi) => data.level = b.level /\ data.body = b.body
  BY BlockRight, BlockData DEF EntryOf
<1>2. damage = None => BlockPasses(bi)
  BY BlockRight DEF EntryOf
<1>3. Tested(SubnodeLeafBlock(bi), data.level # 0, bi, v) /\
      Tested(SubnodeNonleafBlock(bi), data.level = 0, bi, w)
  BY SubnodeTested
<1>4. BlockPasses(bi) => /\ b.level = 0 => Value(v) = SubTruth(bi, b)
                         /\ b.level # 0 => Value(w) = SubTruth(bi, b)
  BY <1>1 DEF SubTruth, KindOf
<1> HIDE DEF v, w
<1>5. WellRead(bi, SubnodeLeafBlock(bi), leaf)
  BY <1>1, <1>2, <1>3, <1>4, FromTested
<1>6. WellRead(bi, SubnodeNonleafBlock(bi), nonleaf)
  BY <1>1, <1>2, <1>3, <1>4, FromTested
<1>7. WellRead(bi, SubnodeBlock(bi), SubTruth(bi, b))
  <2>1. bi.id # 0
    BY DEF EntryOf
  <2>2. CASE data.level = 0
    <3>1. SubnodeBlock(bi) = SubnodeLeafBlock(bi)
      BY <2>1, <2>2 DEF SubnodeBlock
    <3>2. CASE b.level = 0
      BY <1>5, <3>1, <3>2
    <3>3. CASE b.level # 0
      BY <1>1, <1>2, <1>3, <2>2, <3>1, <3>3, NotPassed
    <3> QED
      BY <3>2, <3>3
  <2>3. CASE data.level # 0
    <3>1. SubnodeBlock(bi) = SubnodeNonleafBlock(bi)
      BY <2>1, <2>3 DEF SubnodeBlock
    <3>2. CASE b.level # 0
      BY <1>6, <3>1, <3>2
    <3>3. CASE b.level = 0
      BY <1>1, <1>2, <1>3, <2>3, <3>1, <3>3, NotPassed
    <3> QED
      BY <3>2, <3>3
  <2> QED
    BY <2>2, <2>3
<1> QED
  BY <1>5, <1>6, <1>7

LEMMA AnyRight ==
  ASSUME FileOK, db = TrueDb, NEW l, NEW bi, EntryOf(bi, l)
  PROVE  WellRead(bi, AnyBlock(bi), Value(Block(KindOf(BlockAt[l]), bi, BlockAt[l].level, BlockAt[l].body)))
<1> DEFINE b == BlockAt[l]
           a == DataBlock(bi)
           truth == Value(Block(KindOf(b), bi, b.level, b.body))
<1>1. WellRead(bi, a, DataTruth(bi, b))
  BY DataRight
<1>2. b.type # "sub" => DataTruth(bi, b) = truth
  BY DEF DataTruth, KindOf
<1>3. damage = None => BlockPasses(bi)
  BY BlockRight DEF EntryOf
<1>4. Throws("unexpected_block").throws = "unexpected_block" /\ truth.throws = None
      /\ "unexpected_block" # None
  BY Results DEF Errors, Corrupt
<1> SUFFICES WellRead(bi, AnyBlock(bi), truth)
  OBVIOUS
<1> HIDE DEF truth
<1>5. CASE b.type = "sub" /\ a.throws = "unexpected_block"
  BY <1>5, SubnodesRight DEF AnyBlock, SubTruth, truth
<1>6. CASE b.type = "sub" /\ a.throws # "unexpected_block"
  BY <1>1, <1>4, <1>6 DEF AnyBlock, DataTruth, Well, WellRead
<1>7. CASE b.type # "sub" /\ a.throws # "unexpected_block"
  BY <1>1, <1>2, <1>7 DEF AnyBlock
<1>8. CASE b.type # "sub" /\ a.throws = "unexpected_block"
  <2>1. ~BlockPasses(bi) /\ damage # None
    BY <1>1, <1>2, <1>3, <1>4, <1>8 DEF WellRead
  <2>2. AnyBlock(bi) = SubnodeLeafBlock(bi) \/ AnyBlock(bi) = SubnodeNonleafBlock(bi)
    BY <1>8 DEF AnyBlock, SubnodeBlock, EntryOf
  <2> QED
    BY <2>1, <2>2, SubnodeTested, NotPassed
<1> QED
  BY <1>5, <1>6, <1>7, <1>8

-----------------------------------------------------------------------------
(***************************************************************************)
(* The entries of the trees.                                               *)
(***************************************************************************)

Leaf(t, k) == Children(t)[k].loc

LEMMA LeafIs ==
  ASSUME NEW t \in Trees, NEW k \in DOMAIN Children(t)
  PROVE  /\ Leaf(t, k) \in Leaves(t) /\ IsPage(Children(t)[k], t, 0)
         /\ \A j \in DOMAIN PageAt[Leaf(t, k)].body :
              j \in Nat /\ k <= j /\ \A m \in DOMAIN Children(t) : m <= j => m <= k
BY PagesAssumption DEF Leaf, Leaves, IsPage

LEMMA RootIs ==
  ASSUME NEW t \in Trees
  PROVE  /\ IsPage(Roots[t], t, 1) /\ DOMAIN Children(t) \subseteq Nat
         /\ IsFiniteSet(DOMAIN Children(t))
BY PagesAssumption DEF IsPage, Children

\* No key is in two leaves.
LEMMA LeavesApart ==
  ASSUME NEW t \in Trees, NEW l \in Leaves(t), NEW m \in Leaves(t),
         NEW j \in DOMAIN PageAt[l].body, j \in DOMAIN PageAt[m].body
  PROVE  l = m
<1>1. PICK k \in DOMAIN Children(t) : Leaf(t, k) = l
  BY PagesAssumption DEF Leaves, Leaf
<1>2. PICK i \in DOMAIN Children(t) : Leaf(t, i) = m
  BY PagesAssumption DEF Leaves, Leaf
<1>3. k <= j /\ i <= j /\ k <= i /\ i <= k
  BY <1>1, <1>2, LeafIs
<1>4. k \in Nat /\ i \in Nat
  BY RootIs
<1> QED
  BY <1>1, <1>2, <1>3, <1>4

LEMMA EntryIs ==
  ASSUME NEW t \in Trees, NEW l \in Leaves(t), NEW j \in DOMAIN PageAt[l].body
  PROVE  j \in Keys(t) /\ Entries[t][j] = PageAt[l].body[j]
<1> DEFINE keys == UNION {DOMAIN PageAt[m].body : m \in Leaves(t)}
           f == [k \in keys |->
                   PageAt[CHOOSE m \in Leaves(t) : k \in DOMAIN PageAt[m].body].body[k]]
<1>1. Entries[t] = f
  BY DEF Entries
<1>2. j \in keys
  OBVIOUS
<1>3. (CHOOSE m \in Leaves(t) : j \in DOMAIN PageAt[m].body) = l
  BY LeavesApart
<1>4. f[j] = PageAt[l].body[j] /\ DOMAIN f = keys
  BY <1>2, <1>3
<1> HIDE DEF f, keys
<1> QED
  BY <1>1, <1>2, <1>4 DEF Keys

LEMMA KeyIsIn ==
  ASSUME NEW t \in Trees, NEW j \in Keys(t)
  PROVE  \E l \in Leaves(t) : j \in DOMAIN PageAt[l].body
<1> DEFINE keys == UNION {DOMAIN PageAt[m].body : m \in Leaves(t)}
<1>1. Keys(t) = keys
  BY DEF Keys, Entries
<1> QED
  BY <1>1

\* What a lookup in the leaf under the greatest key that is not larger finds, or
\* does not find, is what the tree has.
LEMMA FloorLeaf ==
  ASSUME NEW t \in Trees, NEW j \in Nat, NEW k \in DOMAIN Children(t), k <= j,
         \A m \in DOMAIN Children(t) : m <= j => m <= k
  PROVE  j \in Keys(t) <=> j \in DOMAIN PageAt[Leaf(t, k)].body
<1>1. ASSUME j \in Keys(t)
      PROVE  j \in DOMAIN PageAt[Leaf(t, k)].body
  <2>1. PICK l \in Leaves(t) : j \in DOMAIN PageAt[l].body
    BY <1>1, KeyIsIn
  <2>2. PICK i \in DOMAIN Children(t) : Leaf(t, i) = l
    BY PagesAssumption DEF Leaves, Leaf
  <2>3. i <= k /\ k <= i
    BY <2>1, <2>2, LeafIs
  <2>4. i \in Nat /\ k \in Nat
    BY RootIs
  <2> QED
    BY <2>1, <2>2, <2>3, <2>4
<1> QED
  BY <1>1, EntryIs, LeafIs

LEMMA NoFloor ==
  ASSUME NEW t \in Trees, NEW j \in Nat, \A m \in DOMAIN Children(t) : ~(m <= j)
  PROVE  j \notin Keys(t)
<1> SUFFICES ASSUME j \in Keys(t) PROVE FALSE
  OBVIOUS
<1>1. PICK l \in Leaves(t) : j \in DOMAIN PageAt[l].body
  BY KeyIsIn
<1>2. PICK i \in DOMAIN Children(t) : Leaf(t, i) = l
  BY PagesAssumption DEF Leaves, Leaf
<1> QED
  BY <1>1, <1>2, LeafIs

\* An entry of the BBT describes a block.
LEMMA EntryOfBlock ==
  ASSUME NEW j \in Keys("bbt")
  PROVE  LET bi == Entries["bbt"][j]
         IN EntryOf(bi, bi.loc) /\ bi.id = j
<1>1. "bbt" \in Trees
  BY DEF Trees
<1>2. PICK l \in Leaves("bbt") : j \in DOMAIN PageAt[l].body
  BY <1>1, KeyIsIn
<1>3. Entries["bbt"][j] = PageAt[l].body[j]
  BY <1>1, <1>2, EntryIs
<1> QED
  BY <1>2, <1>3, BlocksAssumption DEF EntryOf

-----------------------------------------------------------------------------
(***************************************************************************)
(* What the functions that read blocks answer.                             *)
(***************************************************************************)

LEMMA BlockFnsAre ==
  /\ DOMAIN BlockFns = {"read_block", "read_data_block", "read_external_block",
                        "read_extended_block", "read_subnode_block", "read_subnode_leaf_block",
                        "read_subnode_nonleaf_block"}
  /\ BlockFns["read_block"] = {"external", "extended", "subnode_leaf", "subnode_nonleaf"}
  /\ BlockFns["read_data_block"] = {"external", "extended"}
  /\ BlockFns["read_external_block"] = {"external"}
  /\ BlockFns["read_extended_block"] = {"extended"}
  /\ BlockFns["read_subnode_block"] = {"subnode_leaf", "subnode_nonleaf"}
  /\ BlockFns["read_subnode_leaf_block"] = {"subnode_leaf"}
  /\ BlockFns["read_subnode_nonleaf_block"] = {"subnode_nonleaf"}
BY DEF BlockFns, Subnodes

LEMMA NoKeyOfZero ==
  /\ Plain(0) = 0 /\ 0 \notin Keys("bbt")
<1>1. Plain(0) = 0
  BY DEF Plain
<1>2. 0 \notin Keys("bbt")
  BY EntryOfBlock DEF EntryOf
<1> QED
  BY <1>1, <1>2

\* No block, of the functions that are asked for it
LEMMA NoBlockRight ==
  ASSUME NEW fn \in DOMAIN BlockFns, Asks(fn, 0)
  PROVE  ReadBlock(fn, NoBlock) = BlockTruth(fn, 0)
<1>1. fn \in {"read_block", "read_data_block", "read_external_block", "read_subnode_block"}
  BY NoKeyOfZero, NamesAssumption, BlockFnsAre DEF Asks
<1>2. BlockTruth(fn, 0) = Block0(fn)
  BY DEF BlockTruth
<1>3. NoBlock.id = 0 /\ ~IsInternal(0)
  BY DEF NoBlock, IsInternal
<1> DEFINE none == Value(Block("external", NoBlock, 0, None))
<1>4. ExternalBlock(NoBlock) = none /\ DataBlock(NoBlock) = none
  BY <1>3 DEF ExternalBlock, DataBlock
<1>5. AnyBlock(NoBlock) = none
  <2>1. none.throws = None /\ None # "unexpected_block"
    BY Results DEF Errors, Corrupt
  <2> HIDE DEF none
  <2> QED
    BY <1>4, <2>1 DEF AnyBlock
<1>6. SubnodeBlock(NoBlock) = Value(Block("subnode_leaf", NoBlock, 0, None))
  BY <1>3 DEF SubnodeBlock
<1>7. CASE fn = "read_block"
  BY <1>2, <1>5, <1>7, BlockFnsAre DEF ReadBlock, Block0
<1>8. CASE fn = "read_data_block"
  BY <1>2, <1>4, <1>8, BlockFnsAre DEF ReadBlock, Block0
<1>9. CASE fn = "read_external_block"
  BY <1>2, <1>4, <1>9, BlockFnsAre DEF ReadBlock, Block0
<1>10. CASE fn = "read_subnode_block"
  BY <1>2, <1>6, <1>10 DEF ReadBlock, Block0
<1> QED
  BY <1>1, <1>7, <1>8, <1>9, <1>10

LEMMA KindIs ==
  ASSUME NEW l \in DOMAIN BlockAt
  PROVE  LET b == BlockAt[l]
         IN /\ b.type = "external" => KindOf(b) = "external" /\ b.level = 0
            /\ b.type = "extended" => KindOf(b) = "extended"
            /\ b.type = "sub" => KindOf(b) = IF b.level = 0 THEN "subnode_leaf" ELSE "subnode_nonleaf"
            /\ b.type \in {"external", "extended", "sub"}
BY BlocksAssumption DEF KindOf

LEMMA ReadBlockRight ==
  ASSUME FileOK, db = TrueDb, NEW fn \in DOMAIN BlockFns, NEW bid \in Nat, Asks(fn, bid), NEW bi,
         bid = 0 => bi = NoBlock,
         bid # 0 => Plain(bid) \in Keys("bbt") /\ bi = Entries["bbt"][Plain(bid)]
  PROVE  Well(ReadBlock(fn, bi), BlockTruth(fn, bid))
<1>1. CASE bid = 0
  BY <1>1, NoBlockRight DEF Well
<1>2. CASE bid # 0
  <2> DEFINE l == bi.loc
             b == BlockAt[l]
             kind == KindOf(b)
             truth == IF kind \notin BlockFns[fn] THEN Throws("unexpected_block")
                      ELSE Value(Block(kind, bi, b.level, b.body))
  <2>1. EntryOf(bi, l) /\ l \in DOMAIN BlockAt
    BY <1>2, EntryOfBlock DEF EntryOf
  <2>2. BlockTruth(fn, bid) = truth
    BY <1>2 DEF BlockTruth
  <2>3. /\ b.type = "external" => kind = "external" /\ b.level = 0
        /\ b.type = "extended" => kind = "extended"
        /\ b.type = "sub" => kind = IF b.level = 0 THEN "subnode_leaf" ELSE "subnode_nonleaf"
        /\ b.type \in {"external", "extended", "sub"}
    BY <2>1, KindIs
  <2>4. Plain(bid) # Plain(Absent)
    BY <1>2, NamesAssumption
  <2>5. bid # Absent
    BY <2>4
  <2>6. KindAt(bid) = kind
    BY <1>2 DEF KindAt
  <2>7. /\ fn = "read_extended_block" => b.type # "sub"
        /\ fn \in {"read_subnode_block", "read_subnode_leaf_block", "read_subnode_nonleaf_block"} =>
             b.type = "sub"
    BY <1>2, <2>3, <2>5, <2>6 DEF Asks, Subnodes
  <2> SUFFICES Well(ReadBlock(fn, bi), truth)
    BY <2>2
  <2>8. CASE fn = "read_block"
    <3>1. truth = Value(Block(kind, bi, b.level, b.body))
      BY <2>3, <2>8, BlockFnsAre
    <3>2. ReadBlock(fn, bi) = AnyBlock(bi)
      BY <2>8 DEF ReadBlock
    <3> QED
      BY <2>1, <3>1, <3>2, AnyRight DEF WellRead
  <2>9. CASE fn = "read_data_block"
    <3>1. truth = DataTruth(bi, b)
      BY <2>3, <2>9, BlockFnsAre DEF DataTruth
    <3>2. ReadBlock(fn, bi) = DataBlock(bi)
      BY <2>9 DEF ReadBlock
    <3> QED
      BY <2>1, <3>1, <3>2, DataRight DEF WellRead
  <2>10. CASE fn = "read_external_block"
    <3>1. truth = IF b.type = "external" THEN Value(Block("external", bi, 0, b.body))
                  ELSE Throws("unexpected_block")
      BY <2>3, <2>10, BlockFnsAre
    <3>2. ReadBlock(fn, bi) = ExternalBlock(bi)
      BY <2>10 DEF ReadBlock
    <3> QED
      BY <2>1, <3>1, <3>2, ExternalRight DEF WellRead
  <2>11. CASE fn = "read_extended_block"
    <3>1. truth = IF b.type = "extended" THEN Value(Block("extended", bi, b.level, b.body))
                  ELSE Throws("unexpected_block")
      BY <2>3, <2>7, <2>11, BlockFnsAre
    <3>2. ReadBlock(fn, bi) = ExtendedBlock(bi)
      BY <2>11 DEF ReadBlock
    <3> QED
      BY <2>1, <2>7, <2>11, <3>1, <3>2, ExtendedRight DEF WellRead
  <2>12. CASE fn = "read_subnode_block"
    <3>1. truth = SubTruth(bi, b)
      BY <2>3, <2>7, <2>12, BlockFnsAre DEF SubTruth
    <3>2. ReadBlock(fn, bi) = SubnodeBlock(bi)
      BY <2>12 DEF ReadBlock
    <3> QED
      BY <2>1, <2>7, <2>12, <3>1, <3>2, SubnodesRight DEF WellRead
  <2>13. CASE fn = "read_subnode_leaf_block"
    <3>1. truth = IF b.level = 0 THEN SubTruth(bi, b) ELSE Throws("unexpected_block")
      BY <2>3, <2>7, <2>13, BlockFnsAre DEF SubTruth
    <3>2. ReadBlock(fn, bi) = SubnodeLeafBlock(bi)
      BY <2>13 DEF ReadBlock
    <3> QED
      BY <2>1, <2>7, <2>13, <3>1, <3>2, SubnodesRight DEF WellRead
  <2>14. CASE fn = "read_subnode_nonleaf_block"
    <3>1. truth = IF b.level = 0 THEN Throws("unexpected_block") ELSE SubTruth(bi, b)
      BY <2>3, <2>7, <2>14, BlockFnsAre DEF SubTruth
    <3>2. ReadBlock(fn, bi) = SubnodeNonleafBlock(bi)
      BY <2>14 DEF ReadBlock
    <3> QED
      BY <2>1, <2>7, <2>14, <3>1, <3>2, SubnodesRight DEF WellRead
  <2> QED
    BY <2>8, <2>9, <2>10, <2>11, <2>12, <2>13, <2>14, BlockFnsAre
<1> QED
  BY <1>1, <1>2

-----------------------------------------------------------------------------
(***************************************************************************)
(* What the functions that read pages answer.                              *)
(***************************************************************************)

\* A page that is not damaged passes.
LEMMA WholePage ==
  ASSUME FileOK, db = TrueDb, damage = None, NEW l \in DOMAIN PageAt,
         NEW ref, ref.loc = l, ref.id = PageAt[l].id
  PROVE  /\ PagePasses(ref) /\ At(l).trailer.type = PageAt[l].type
         /\ At(l).data = [level |-> PageAt[l].level, body |-> PageAt[l].body]
<1> DEFINE data == [level |-> PageAt[l].level, body |-> PageAt[l].body]
           trailer == [id |-> PageAt[l].id, type |-> PageAt[l].type, repeat |-> PageAt[l].type,
                       sig |-> ComputeSignature(PageAt[l].id, l), crc |-> data]
<1>1. At(l) = Sector(data, trailer)
  BY Originals DEF At, PageSector
<1>2. At(l).data = data /\ At(l).trailer = trailer
  BY <1>1 DEF Sector
<1>3. /\ trailer.id = ref.id /\ trailer.type = PageAt[l].type /\ trailer.repeat = PageAt[l].type
      /\ trailer.sig = ComputeSignature(ref.id, l) /\ trailer.crc = data
  OBVIOUS
<1>4. l \in Nat /\ l + PageSize <= Eof /\ (l - FirstAmapPageLocation) % PageSize = 0 /\ Eof \in Nat
      /\ PageSize \in Nat
  BY PagesAssumption, StoresAssumption DEF PageSize
<1>5. db.eof = Eof /\ ~(l + PageSize > Eof)
  BY <1>4 DEF TrueDb
<1> SUFFICES PagePasses(ref) /\ At(l).trailer.type = PageAt[l].type /\ At(l).data = data
  OBVIOUS
<1> HIDE DEF data, trailer
<1> QED
  BY <1>2, <1>3, <1>4, <1>5 DEF PagePasses, InFile

\* The tests on where a page is come first.
LEMMA PlaceFails ==
  ASSUME NEW tree, NEW leaf, NEW ref, NEW i \in 1..3, PageTests(ref)[i].fails
  PROVE  ReadPage(tree, leaf, ref) \in {Throws("unexpected_page"), Throws("out_of_range")}
<1> DEFINE s == At(ref.loc)
           v == [type |-> tree, level |-> s.data.level, body |-> s.data.body]
           t == PageTests(ref)
           u == << Test(s.trailer.type # tree, "unexpected_page"),
                   Test((s.data.level = 0) \notin leaf, "unexpected_page") >>
           st == t \o u
           a == ReadPage(tree, leaf, ref)
<1>1. a = Checked(st, v)
  BY DEF ReadPage
<1>2. /\ t \in Tests /\ Len(t) = 7 /\ u \in Tests /\ Len(u) = 2
      /\ t[1].e = "unexpected_page" /\ t[2].e = "unexpected_page" /\ t[3].e = "out_of_range"
  <2>1. /\ t \in Tests /\ Len(t) = 7
        /\ t[1].e = "unexpected_page" /\ t[2].e = "unexpected_page" /\ t[3].e = "out_of_range"
    BY PageTestsAre
  <2> DEFINE P == s.trailer.type # tree
             Q == (s.data.level = 0) \notin leaf
  <2>2. u = << Test(P, "unexpected_page"), Test(Q, "unexpected_page") >> /\ P \in BOOLEAN /\ Q \in BOOLEAN
    OBVIOUS
  <2> HIDE DEF P, Q, u, t
  <2>3. u \in Tests /\ Len(u) = 2
    BY <2>2 DEF Test, Tests, Errors, Corrupt, Unread
  <2> QED
    BY <2>1, <2>3
<1> HIDE DEF t, u
<1>3. DOMAIN st = 1..9 /\ \A j \in 1..3 : st[j] = t[j]
  <2>1. /\ st \in Tests /\ Len(st) = Len(t) + Len(u)
        /\ \A j \in 1..(Len(t) + Len(u)) : st[j] = IF j <= Len(t) THEN t[j] ELSE u[j - Len(t)]
    BY <1>2, Joined
  <2> HIDE DEF st
  <2>2. \A j \in 1..3 : j \in 1..9 /\ j <= 7
    OBVIOUS
  <2> QED
    BY <1>2, <2>1, <2>2 DEF Tests
<1>4. i \in 1..9 /\ st[i].fails
  BY <1>3 DEF t
<1> HIDE DEF st
<1>5. PICK j \in 1..i : Checked(st, v) = Throws(st[j].e)
  BY <1>3, <1>4, CheckedFails
<1>6. j \in 1..3
  OBVIOUS
<1> QED
  BY <1>1, <1>2, <1>3, <1>5, <1>6

\* There is no page elsewhere.
LEMMA ReadNowhere ==
  ASSUME FileOK, db = TrueDb, NEW ref, ref.loc \in Elsewhere, NEW tree \in Trees, NEW leaf
  PROVE  ReadPage(tree, leaf, ref) \in {Throws("unexpected_page"), Throws("out_of_range")}
<1> DEFINE l == ref.loc
<1>1. /\ l \in Nat /\ l \notin Locs /\ l # Header /\ Eof \in Nat /\ db.eof = Eof
      /\ l + PageSize > Eof \/ (l - FirstAmapPageLocation) % PageSize # 0
  BY PlacesAssumption, StoresAssumption DEF TrueDb
<1>2. At(l) = Nowhere
  <2>1. damage # None => damage.at # l
    BY <1>1, DamageKinds, HeaderOnly, RotAt DEF Locs
  <2> QED
    BY <2>1, Originals DEF At
<1>3. At(l).trailer.type # tree
  BY <1>2, NamesAssumption DEF Nowhere, Sector
<1>4. CASE \E i \in 1..3 : PageTests(ref)[i].fails
  BY <1>4, PlaceFails
<1>5. CASE \A i \in 1..3 : ~PageTests(ref)[i].fails
  <2> DEFINE t == PageTests(ref)
             p == Weak /\ l + PageSize > db.eof
             q == Weak /\ (l - FirstAmapPageLocation) % PageSize # 0
  <2>0. 1 \in 1..3 /\ 2 \in 1..3 /\ 3 \in 1..3
    OBVIOUS
  <2>1. ~p /\ ~q /\ InFile(l, PageSize)
    <3>1. ~t[1].fails /\ ~t[2].fails /\ ~t[3].fails
      BY <1>5, <2>0
    <3>2. (t[1].fails <=> p) /\ (t[2].fails <=> q) /\ (t[3].fails <=> ~InFile(l, PageSize))
      BY PageTestsAre
    <3> HIDE DEF t, p, q
    <3> QED
      BY <3>1, <3>2
  <2>3. ~Weak
    BY <1>1, <2>1
  <2>4. PagePasses(ref)
    BY <2>1, <2>3 DEF PagePasses, Weak, Full
  <2>5. ReadPage(tree, leaf, ref) = Throws("unexpected_page")
    <3> DEFINE a == ReadPage(tree, leaf, ref)
               s == At(ref.loc)
               fits == s.trailer.type = tree /\ (s.data.level = 0) \in leaf
               v == [type |-> tree, level |-> s.data.level, body |-> s.data.body]
    <3>1. \/ a = Value(v) /\ PagePasses(ref) /\ fits
          \/ /\ \E e \in Errors : a = Throws(e)
             /\ PagePasses(ref) => a = Throws("unexpected_page") /\ ~fits
      BY ReadPageCases
    <3> QED
      BY <1>3, <2>4, <3>1
  <2> QED
    BY <2>5
<1> QED
  BY <1>4, <1>5

PageTruth(fn, ref) ==
  IF /\ ref.loc \in DOMAIN PageAt /\ PageAt[ref.loc].type = PageFns[fn].tree
     /\ (PageAt[ref.loc].level = 0) \in PageFns[fn].leaf
    THEN Value(PageOf(ref.loc)) ELSE Throws("unexpected_page")

LEMMA PageFnsAre ==
  ASSUME NEW fn \in DOMAIN PageFns
  PROVE  PageFns[fn].tree \in Trees
BY DEF PageFns, Trees

LEMMA ReadPageRight ==
  ASSUME FileOK, db = TrueDb, NEW fn \in DOMAIN PageFns, NEW ref \in Refs, AsksPage(fn, ref)
  PROVE  Well(ReadPage(PageFns[fn].tree, PageFns[fn].leaf, ref), PageTruth(fn, ref))
<1> DEFINE l == ref.loc
           tree == PageFns[fn].tree
           leaf == PageFns[fn].leaf
           a == ReadPage(tree, leaf, ref)
           s == At(l)
           fits == s.trailer.type = tree /\ (s.data.level = 0) \in leaf
           v == [type |-> tree, level |-> s.data.level, body |-> s.data.body]
           truth == IF /\ l \in DOMAIN PageAt /\ PageAt[l].type = tree
                       /\ (PageAt[l].level = 0) \in leaf
                      THEN Value(PageOf(l)) ELSE Throws("unexpected_page")
<1>1. tree \in Trees
  BY PageFnsAre
<1>2. Throws("unexpected_page").throws \in Corrupt /\ Throws("out_of_range").throws \in Unread
  BY Results DEF Corrupt, Unread
<1>3. \/ a = Value(v) /\ PagePasses(ref) /\ fits
      \/ /\ \E e \in Errors : a = Throws(e)
         /\ PagePasses(ref) => a = Throws("unexpected_page") /\ ~fits
  BY ReadPageCases
<1>4. AsksPage(fn, ref) <=> Weak \/ \E m \in DOMAIN PageAt : PageAt[m].id = ref.id /\ PageAt[m].type = tree
  BY DEF AsksPage
<1> SUFFICES Well(a, truth)
  BY DEF PageTruth
<1>5. CASE l \in Elsewhere
  <2>1. a \in {Throws("unexpected_page"), Throws("out_of_range")}
    BY <1>1, <1>5, ReadNowhere
  <2>2. l \notin DOMAIN PageAt
    BY <1>5, Originals DEF Locs
  <2> QED
    BY <1>2, <2>1, <2>2 DEF Well
<1>6. CASE l \in DOMAIN PageAt /\ ref.id = PageAt[l].id
  <2>1. Weak \/ tree = PageAt[l].type
    BY <1>4, <1>6, PagesAssumption
  <2>2. PagePasses(ref) /\ s.trailer.type = tree =>
          tree = PageAt[l].type /\ s.data = [level |-> PageAt[l].level, body |-> PageAt[l].body]
    BY <1>1, <1>6, <2>1, PageRight
  <2>3. CASE a = Value(v) /\ PagePasses(ref) /\ fits
    <3>1. tree = PageAt[l].type /\ s.data.level = PageAt[l].level /\ s.data.body = PageAt[l].body
      BY <2>2, <2>3
    <3> QED
      BY <1>6, <2>3, <3>1 DEF PageOf, Well
  <2>4. CASE damage # None /\ \E e \in Errors : a = Throws(e)
    BY <2>4, Results DEF Well, Errors
  <2>5. CASE damage = None /\ PagePasses(ref) /\ ~fits /\ a = Throws("unexpected_page")
    <3>1. s.trailer.type = PageAt[l].type /\ s.data = [level |-> PageAt[l].level, body |-> PageAt[l].body]
      BY <1>6, <2>5, WholePage
    <3>2. truth = Throws("unexpected_page")
      BY <2>5, <3>1
    <3> QED
      BY <2>5, <3>2 DEF Well
  <2> QED
    BY <1>3, <1>6, <2>3, <2>4, <2>5, WholePage
<1>7. l \in Elsewhere \/ (l \in DOMAIN PageAt /\ ref.id = PageAt[l].id)
  BY DEF Refs
<1> QED
  BY <1>5, <1>6, <1>7

\* A page of the trees, read when it is needed.
LEMMA FetchRight ==
  ASSUME FileOK, db = TrueDb, NEW t \in Trees, NEW ref,
         ref.loc \in DOMAIN PageAt, ref.id = PageAt[ref.loc].id, PageAt[ref.loc].type = t
  PROVE  LET a == ReadPage(t, BOOLEAN, ref)
         IN \/ a = Value(PageOf(ref.loc))
            \/ a.throws # None /\ damage # None /\ a.throws \in Errors
<1> DEFINE l == ref.loc
           a == ReadPage(t, BOOLEAN, ref)
           s == At(l)
           v == [type |-> t, level |-> s.data.level, body |-> s.data.body]
           leaf == BOOLEAN
           fits == s.trailer.type = t /\ (s.data.level = 0) \in leaf
<1> SUFFICES \/ a = Value(PageOf(l))
             \/ a.throws # None /\ damage # None /\ a.throws \in Errors
  OBVIOUS
<1>0. a = ReadPage(t, leaf, ref) /\ ((s.data.level = 0) \in leaf)
  OBVIOUS
<1> HIDE DEF a, leaf
<1>1. \/ a = Value(v) /\ PagePasses(ref) /\ fits
      \/ /\ \E e \in Errors : a = Throws(e)
         /\ PagePasses(ref) => a = Throws("unexpected_page") /\ ~fits
  BY <1>0, ReadPageCases
<1>2. CASE a = Value(v) /\ PagePasses(ref) /\ fits
  <2>1. s.data = [level |-> PageAt[l].level, body |-> PageAt[l].body]
    BY <1>2, PageRight
  <2>2. v = PageOf(l)
    BY <2>1 DEF PageOf
  <2> QED
    BY <1>2, <2>2
<1>3. CASE damage # None /\ \E e \in Errors : a = Throws(e)
  BY <1>3, Results
<1>4. damage = None => PagePasses(ref) /\ fits
  BY <1>0, WholePage
<1> QED
  BY <1>1, <1>2, <1>3, <1>4

-----------------------------------------------------------------------------
(***************************************************************************)
(* The inductive invariant: what a call that has not ended is doing, and   *)
(* what it knows by then.                                                  *)
(***************************************************************************)

OpenCall == [fn |-> "open_database", arg |-> None]
RootFns == {"read_nbt_root", "read_bbt_root"}
TreeOf(fn) == IF fn \in {"read_nbt_root", "lookup_node_info"} THEN "nbt" ELSE "bbt"
WrongHeader == damage # None /\ damage.at = Header

\* The greatest key of the root's that is not larger than what is looked for
FloorIs(t, k) ==
  /\ k \in DOMAIN Children(t) /\ k <= Key
  /\ \A m \in DOMAIN Children(t) : m <= Key => m <= k

\* The entry of a block id, or none for the id 0.
InfoIs(bid, bi) ==
  /\ bid = 0 => bi = NoBlock
  /\ bid # 0 => Plain(bid) \in Keys("bbt") /\ bi = Entries["bbt"][Plain(bid)]

Idle == pc = "idle" /\ path = <<>> /\ info = None
Opening ==
  /\ pc \in {"open_small_pst", "open_large_pst"} /\ path = <<>> /\ info = None
  /\ call = OpenCall /\ answer = None
  /\ pc = "open_large_pst" => store.layout = "unicode" \/ WrongHeader
Asking == call \in Calls /\ answer = None /\ db = TrueDb
Paging ==
  /\ pc = "page" /\ path = <<>> /\ info = None /\ Asking
  /\ call.fn \in DOMAIN PageFns /\ AsksPage(call.fn, call.arg)
Descending ==
  /\ pc = "descend" /\ info = None /\ Asking
  /\ call.fn \in RootFns \cup Lookups \cup DOMAIN BlockFns
  /\ call.fn \in DOMAIN BlockFns \cup {"lookup_block_info"} => call.arg # 0
  /\ \/ path = <<TreeOf(call.fn)>>
     \/ \E k \in DOMAIN Children(TreeOf(call.fn)) :
          /\ path = <<TreeOf(call.fn), k>> /\ FloorIs(TreeOf(call.fn), k)
          /\ <<TreeOf(call.fn)>> \in DOMAIN cached /\ call.fn \notin RootFns
Reading ==
  /\ pc = "block" /\ path = <<>> /\ info # None /\ Asking
  /\ call.fn \in DOMAIN BlockFns \cup {"lookup_block_info"}
  /\ InfoIs(call.arg, info)

Inv ==
  /\ FileOK
  /\ db # None => db = TrueDb
  /\ DOMAIN cached \subseteq Paths /\ CachedRight
  /\ call \in Calls \cup {NoCall, OpenCall}
  /\ call = NoCall => pc = "idle" /\ answer = None
  /\ Idle \/ Opening \/ Paging \/ Descending \/ Reading
  /\ OpensRight /\ AnswersRight

\* What a call is.
LEMMA CallIs ==
  ASSUME NEW c \in Calls
  PROVE  /\ c.fn \notin {None, "open_database"}
         /\ \/ c.fn \in RootFns
            \/ c.fn = "lookup_node_info" /\ c.arg \in Nat
            \/ c.fn = "lookup_block_info" /\ c.arg \in Nat
            \/ c.fn \in DOMAIN PageFns /\ c.arg \in Refs
            \/ c.fn \in DOMAIN BlockFns /\ c.arg \in Nat /\ Asks(c.fn, c.arg)
<1> DEFINE pageFns == {"read_nbt_page", "read_bbt_page", "read_nbt_leaf_page",
                       "read_bbt_leaf_page", "read_nbt_nonleaf_page", "read_bbt_nonleaf_page"}
           nodeKeys == Keys("nbt") \cup {Absent}
<1>1. DOMAIN PageFns = pageFns
  BY DEF PageFns
<1>2. nodeKeys \subseteq Nat /\ Bids \subseteq Nat
  <2>1. Absent \in Nat /\ Bids \subseteq Nat
    BY StoresAssumption
  <2>2. "nbt" \in Trees
    BY DEF Trees
  <2>3. ASSUME NEW j \in Keys("nbt")
        PROVE  j \in Nat
    <3>1. PICK l \in Leaves("nbt") : j \in DOMAIN PageAt[l].body
      BY <2>2, KeyIsIn
    <3> QED
      BY <3>1, PagesAssumption DEF Leaves
  <2> QED
    BY <2>1, <2>3
<1>3. None \notin DOMAIN PageFns \cup DOMAIN BlockFns
        \cup {"read_nbt_root", "read_bbt_root", "lookup_node_info", "lookup_block_info"}
  BY NamesAssumption
<1>4. "open_database" \notin DOMAIN PageFns \cup DOMAIN BlockFns
  BY <1>1, BlockFnsAre
<1> HIDE DEF pageFns, nodeKeys
<1>5. \/ c \in [fn : {"read_nbt_root", "read_bbt_root"}, arg : {None}]
      \/ c \in [fn : {"lookup_node_info"}, arg : nodeKeys]
      \/ c \in [fn : {"lookup_block_info"}, arg : Bids]
      \/ c \in [fn : DOMAIN PageFns, arg : Refs]
      \/ c \in {d \in [fn : DOMAIN BlockFns, arg : Bids] : Asks(d.fn, d.arg)}
  BY DEF Calls, nodeKeys
<1> QED
  BY <1>2, <1>3, <1>4, <1>5 DEF RootFns

\* The functions of one group are of no other.
LEMMA FnsApart ==
  /\ \A fn \in DOMAIN PageFns :
       fn \notin DOMAIN BlockFns \cup RootFns \cup Lookups \cup {"open_database"}
  /\ \A fn \in DOMAIN BlockFns : fn \notin RootFns \cup Lookups \cup {"open_database"}
  /\ \A fn \in RootFns : fn \notin Lookups \cup {"open_database"}
BY BlockFnsAre DEF PageFns, RootFns, Lookups

LEMMA CleanIsPlain ==
  ASSUME NEW n \in Nat
  PROVE  Clean(n) = Plain(n) /\ Plain(n) \in Nat
BY DEF Clean, Plain

\* The paths, and the page at each.
LocOf(p) == IF Len(p) = 1 THEN Roots[p[1]].loc ELSE Children(p[1])[p[2]].loc

LEMMA PathIs ==
  ASSUME NEW p
  PROVE  p \in Paths <=> \E t \in Trees : p = <<t>> \/ \E k \in DOMAIN Children(t) : p = <<t, k>>
BY DEF Paths, Children

LEMMA PageOfPath ==
  ASSUME NEW t \in Trees
  PROVE  /\ LocOf(<<t>>) = Roots[t].loc /\ IsPage(Roots[t], t, 1)
         /\ PageOf(LocOf(<<t>>)).body = Children(t) /\ PageOf(LocOf(<<t>>)).level = 1
         /\ \A k \in DOMAIN Children(t) :
              /\ LocOf(<<t, k>>) = Leaf(t, k) /\ IsPage(Children(t)[k], t, 0)
              /\ PageOf(LocOf(<<t, k>>)).body = PageAt[Leaf(t, k)].body
              /\ PageOf(LocOf(<<t, k>>)).level = 0
<1>1. LocOf(<<t>>) = Roots[t].loc /\ \A k : LocOf(<<t, k>>) = Leaf(t, k)
  BY DEF LocOf, Leaf
<1>2. \A l : PageOf(l).body = PageAt[l].body /\ PageOf(l).level = PageAt[l].level
  BY DEF PageOf
<1>3. IsPage(Roots[t], t, 1) /\ \A k \in DOMAIN Children(t) : IsPage(Children(t)[k], t, 0)
  BY RootIs, LeafIs
<1> QED
  BY <1>1, <1>2, <1>3 DEF IsPage, Children, Leaf

LEMMA CachedIs ==
  CachedRight <=> \A p \in DOMAIN cached : cached[p] = PageOf(LocOf(p))
<1>1. \A p : (IF Len(p) = 1 THEN Roots[p[1]].loc ELSE PageAt[Roots[p[1]].loc].body[p[2]].loc) = LocOf(p)
  BY DEF LocOf, Children
<1> QED
  BY <1>1, Zenon DEF CachedRight

LEMMA InvTypes ==
  ASSUME Inv
  PROVE  TypeOK
<1>1. db = None \/ db.layout \in {"ansi", "unicode"}
  BY Builds3 DEF Inv, TrueDb
<1>2. call \in Calls \cup {NoCall, [fn |-> "open_database", arg |-> None]}
  BY DEF Inv, OpenCall
<1>3. \A fn : TreeOf(fn) \in Trees
  BY DEF TreeOf, Trees
<1>4. Descending => path \in Paths /\ path # <<>>
  <2>1. ASSUME Descending, path = <<TreeOf(call.fn)>>
        PROVE  path \in Paths /\ path # <<>>
    BY <1>3, <2>1, PathIs
  <2>2. ASSUME Descending, NEW k \in DOMAIN Children(TreeOf(call.fn)), path = <<TreeOf(call.fn), k>>
        PROVE  path \in Paths /\ path # <<>>
    BY <1>3, <2>2, PathIs
  <2> QED
    BY <2>1, <2>2 DEF Descending
<1>5. /\ pc \in {"idle", "open_small_pst", "open_large_pst", "descend", "page", "block"}
      /\ path \in Paths \cup {<<>>} /\ (pc = "descend") = (path # <<>>)
      /\ (pc = "block") = (info # None)
  BY <1>4 DEF Inv, Idle, Opening, Paging, Descending, Reading
<1> QED
  BY <1>1, <1>2, <1>5 DEF TypeOK, Inv

LEMMA InitInv ==
  ASSUME Init
  PROVE  Inv
<1>1. FileOK /\ Idle /\ db = None /\ answer = None /\ call = NoCall /\ DOMAIN cached = {}
  BY DEF Init, FileOK, Idle
<1>2. DOMAIN cached \subseteq Paths /\ CachedRight
  BY <1>1 DEF CachedRight
<1>3. OpensRight /\ AnswersRight
  BY <1>1 DEF OpensRight, AnswersRight
<1>4. pc = "idle"
  BY DEF Init
<1> QED
  BY <1>1, <1>2, <1>3, <1>4 DEF Inv

\* The file does not change.
LEMMA SameFile ==
  ASSUME FileOK, build' = build, store' = store, damage' = damage
  PROVE  FileOK' /\ TrueDb' = TrueDb /\ (WrongHeader' <=> WrongHeader)
<1>1. \A h : FirstPart(h)' = FirstPart(h)
  BY DEF FirstPart
<1>2. HeaderSector' = HeaderSector
  BY <1>1 DEF HeaderSector
<1>3. \A plain, id : Encoded(plain, id)' = Encoded(plain, id)
  BY DEF Encoded
<1>4. \A l : BlockSector(l)' = BlockSector(l)
  BY <1>3 DEF BlockSector
<1>5. \A l : Original(l)' = Original(l)
  BY <1>2, <1>4 DEF Original
<1>6. \A l, part : Rot(l, part)' = Rot(l, part)
  BY <1>5 DEF Rot
<1>7. \A places : Swapped(places)' = Swapped(places)
  BY <1>5 DEF Swapped
<1>8. /\ WrongPage' = WrongPage /\ WrongBlock' = WrongBlock
      /\ RottenTrailer' = RottenTrailer /\ RottenData' = RottenData
  BY <1>6, <1>7 DEF WrongPage, WrongBlock, RottenTrailer, RottenData
<1>9. OtherTree' = OtherTree
  BY <1>8 DEF OtherTree
<1>10. OtherVersion' = OtherVersion
  BY <1>2 DEF OtherVersion
<1>11. RottenHeader' = RottenHeader
  BY <1>6 DEF RottenHeader
<1>12. \A level : Noticed(level)' = Noticed(level)
  BY <1>8, <1>9, <1>10, <1>11 DEF Noticed
<1>13. FileOK'
  BY <1>5, <1>12 DEF FileOK, Damages
<1> QED
  BY <1>13 DEF TrueDb, WrongHeader

\* What the program may be given at the end of a call.
Proper(a) ==
  /\ call.fn = "open_database" =>
       \/ a = Value(store.layout) /\ db' = TrueDb
       \/ a.throws \in Unread
       \/ WrongHeader /\ a.throws \in Corrupt
  /\ call.fn # "open_database" => Well(a, Truth(call))

\* A call ends.
LEMMA Ending ==
  ASSUME Inv, call # NoCall, NEW a, Ends(a), Proper(a), db' # None => db' = TrueDb,
         cached' = cached
  PROVE  Inv'
<1>1. /\ answer' = a /\ pc' = "idle" /\ path' = <<>> /\ info' = None
      /\ build' = build /\ store' = store /\ damage' = damage /\ call' = call
  BY DEF Ends, disk
<1>2. FileOK' /\ Idle' /\ TrueDb' = TrueDb
  BY <1>1, SameFile DEF Inv, Idle
<1>3. CachedRight' /\ DOMAIN cached' \subseteq Paths
  BY DEF CachedRight, Inv
<1>4. OpensRight'
  BY <1>1 DEF Proper, OpensRight, WrongHeader, TrueDb
<1>5. AnswersRight'
  BY <1>1 DEF Proper, AnswersRight, Excused, Well
<1> QED
  BY <1>1, <1>2, <1>3, <1>4, <1>5 DEF Inv

LEMMA CallsAreMade ==
  ASSUME NEW c \in Calls \cup {OpenCall}
  PROVE  c # NoCall
<1>1. None # "open_database"
  BY NamesAssumption
<1> QED
  BY <1>1, CallIs DEF NoCall, OpenCall

\* A call goes on.
LEMMA Going ==
  ASSUME Inv, UNCHANGED disk, db' # None => db' = TrueDb, DOMAIN cached' \subseteq Paths,
         CachedRight', call' \in Calls \cup {OpenCall}, answer' = None,
         Opening' \/ Paging' \/ Descending' \/ Reading'
  PROVE  Inv'
<1>1. FileOK' /\ TrueDb' = TrueDb
  BY SameFile DEF Inv, disk
<1>2. call' # NoCall
  BY CallsAreMade
<1>3. OpensRight' /\ AnswersRight'
  BY DEF OpensRight, AnswersRight
<1> QED
  BY <1>1, <1>2, <1>3 DEF Inv

LEMMA OpenDatabaseInv ==
  ASSUME Inv, OpenDatabase
  PROVE  Inv'
<1>1. UNCHANGED disk /\ db' = db /\ cached' = cached /\ call' = OpenCall /\ pc' = "open_small_pst"
      /\ answer' = None /\ path' = <<>> /\ info' = None
  BY DEF OpenDatabase, OpenCall, Inv, Idle, Opening, Paging, Descending, Reading
<1>2. Opening'
  BY <1>1 DEF Opening
<1>3. CachedRight'
  BY <1>1 DEF Inv, CachedRight
<1> QED
  BY <1>1, <1>2, <1>3, Going DEF Inv

LEMMA GoOnInv ==
  ASSUME Inv, GoOn
  PROVE  Inv'
<1>1. UNCHANGED disk /\ db' = db /\ cached' = cached /\ call' = NoCall /\ answer' = None
      /\ pc' = pc /\ path' = path /\ info' = info /\ answer # None
  BY DEF GoOn
<1>2. Idle
  BY <1>1 DEF Inv, Opening, Asking, Paging, Descending, Reading
<1>3. FileOK' /\ TrueDb' = TrueDb
  BY <1>1, SameFile DEF Inv, disk
<1>4. OpensRight' /\ AnswersRight' /\ CachedRight' /\ Idle' /\ pc' = "idle"
  BY <1>1, <1>2 DEF OpensRight, AnswersRight, CachedRight, Inv, Idle
<1> QED
  BY <1>1, <1>3, <1>4 DEF Inv

LEMMA CallInv ==
  ASSUME Inv, NEW c \in Calls, Call(c)
  PROVE  Inv'
<1>1. UNCHANGED disk /\ db' = db /\ cached' = cached /\ call' = c /\ answer' = None
      /\ db = TrueDb /\ path = <<>> /\ info = None
  BY DEF Call, Inv, Idle, Opening, Paging, Descending, Reading
<1>2. TrueDb' = TrueDb /\ Asking'
  BY <1>1, SameFile DEF Inv, disk, Asking
<1>3. CachedRight'
  BY <1>1 DEF Inv, CachedRight
<1>4. CASE c.fn \in DOMAIN PageFns
  <2>1. pc' = "page" /\ path' = path /\ info' = info /\ AsksPage(c.fn, c.arg)
    BY <1>4 DEF Call
  <2>2. AsksPage(c.fn, c.arg)'
    BY <1>1, <2>1 DEF AsksPage, Weak, disk
  <2>3. Paging'
    BY <1>1, <1>2, <1>4, <2>1, <2>2 DEF Paging
  <2> QED
    BY <1>1, <1>3, <2>3, Going DEF Inv
<1>5. CASE c.fn \in DOMAIN BlockFns \cup {"lookup_block_info"} /\ c.arg = 0
  <2>1. c.fn \notin DOMAIN PageFns
    BY <1>5, FnsApart DEF Lookups
  <2>2. pc' = "block" /\ path' = path /\ info' = NoBlock /\ NoBlock # None
    BY <1>5, <2>1, NamesAssumption DEF Call
  <2>3. Reading'
    BY <1>1, <1>2, <1>5, <2>2 DEF Reading, InfoIs
  <2> QED
    BY <1>1, <1>3, <2>3, Going DEF Inv
<1>6. CASE c.fn \notin DOMAIN PageFns /\ ~(c.fn \in DOMAIN BlockFns \cup {"lookup_block_info"} /\ c.arg = 0)
  <2>1. pc' = "descend" /\ path' = <<TreeOf(c.fn)>> /\ info' = info
    BY <1>6 DEF Call, TreeOf
  <2>2. c.fn \in RootFns \cup Lookups \cup DOMAIN BlockFns
    BY <1>6, CallIs DEF Lookups
  <2>3. Descending'
    BY <1>1, <1>2, <1>6, <2>1, <2>2 DEF Descending
  <2> QED
    BY <1>1, <1>3, <2>3, Going DEF Inv
<1> QED
  BY <1>4, <1>5, <1>6

-----------------------------------------------------------------------------
(***************************************************************************)
(* Opening.                                                                *)
(***************************************************************************)

LEMMA HeaderTestsAre ==
  ASSUME NEW layout
  PROVE  LET t == HeaderTests(layout)
             h == At(Header)
         IN /\ DOMAIN t = 1..3 /\ \A j \in 1..3 : t[j].e \in Corrupt
            /\ t[1].e = "invalid_format"
            /\ t[1].fails <=> (h.data.wVer >= UnicodeMin) # (layout = "unicode")
            /\ Passes(t) <=>
                 /\ (h.data.wVer >= UnicodeMin) = (layout = "unicode")
                 /\ Weak => h.trailer.partial = FirstPart(h.data)
                 /\ Weak /\ layout = "unicode" => h.trailer.full = h.data
<1> DEFINE t == HeaderTests(layout)
           h == At(Header)
           p1 == (h.data.wVer >= UnicodeMin) # (layout = "unicode")
           p2 == Weak /\ h.trailer.partial # FirstPart(h.data)
           p3 == Weak /\ layout = "unicode" /\ h.trailer.full # h.data
<1>1. t = << Test(p1, "invalid_format"), Test(p2, "crc_fail"), Test(p3, "crc_fail") >>
  BY DEF HeaderTests
<1>2. p1 \in BOOLEAN /\ p2 \in BOOLEAN /\ p3 \in BOOLEAN
  BY DEF Weak
<1> SUFFICES /\ DOMAIN t = 1..3 /\ \A j \in 1..3 : t[j].e \in Corrupt
             /\ t[1].e = "invalid_format" /\ (t[1].fails <=> p1)
             /\ (Passes(t) <=> ~p1 /\ ~p2 /\ ~p3)
  OBVIOUS
<1> HIDE DEF t, p1, p2, p3
<1>3. Passes(t) <=> ~p1 /\ ~p2 /\ ~p3
  BY <1>1, <1>2 DEF Passes, Test
<1>4. DOMAIN t = 1..3 /\ \A j \in 1..3 : t[j].e \in Corrupt
  BY <1>1 DEF Test, Corrupt
<1>5. t[1].e = "invalid_format" /\ (t[1].fails <=> p1)
  BY <1>1, <1>2 DEF Test
<1> QED
  BY <1>3, <1>4, <1>5

\* A header that is not damaged passes in the store's own format only.
LEMMA WholeHeader ==
  ASSUME FileOK, ~WrongHeader
  PROVE  /\ Passes(HeaderTests(store.layout))
         /\ \A layout \in {"ansi", "unicode"} :
              layout # store.layout => HeaderTests(layout)[1].fails
<1> DEFINE h == At(Header)
           data == [wVer |-> store.wVer, roots |-> Roots, eof |-> Eof, crypt |-> store.crypt]
           trailer == [partial |-> FirstPart(data),
                       full |-> IF store.layout = "ansi" THEN None ELSE data]
<1>1. h = Sector(data, trailer)
  BY Originals DEF At, HeaderSector, WrongHeader
<1>2. h.data = data /\ h.trailer = trailer
  BY <1>1 DEF Sector
<1>3. /\ data.wVer = store.wVer /\ trailer.partial = FirstPart(data)
      /\ trailer.full = IF store.layout = "ansi" THEN None ELSE data
  OBVIOUS
<1>4. /\ store.layout \in {"ansi", "unicode"} /\ store.wVer \in Nat
      /\ (store.wVer >= UnicodeMin) = (store.layout = "unicode")
  BY Builds3
<1> HIDE DEF data, trailer
<1>5. /\ (h.data.wVer >= UnicodeMin) = (store.layout = "unicode")
      /\ h.trailer.partial = FirstPart(h.data)
      /\ store.layout = "unicode" => h.trailer.full = h.data
  BY <1>2, <1>3, <1>4
<1>6. Passes(HeaderTests(store.layout))
  BY <1>5, HeaderTestsAre
<1>7. ASSUME NEW layout \in {"ansi", "unicode"}, layout # store.layout
      PROVE  HeaderTests(layout)[1].fails
  <2>1. (h.data.wVer >= UnicodeMin) # (layout = "unicode")
    BY <1>4, <1>5, <1>7
  <2> QED
    BY <2>1, HeaderTestsAre
<1> QED
  BY <1>6, <1>7

\* What the tests of a header that fail throw.
LEMMA HeaderThrows ==
  ASSUME NEW layout, NEW v
  PROVE  LET a == Checked(HeaderTests(layout), v)
         IN /\ \/ Passes(HeaderTests(layout)) /\ a = Value(v)
               \/ ~Passes(HeaderTests(layout)) /\ \E e \in Corrupt : a = Throws(e)
            /\ HeaderTests(layout)[1].fails => a = Throws("invalid_format")
<1> DEFINE t == HeaderTests(layout)
           a == Checked(t, v)
<1>1. /\ DOMAIN t = 1..3 /\ \A j \in 1..3 : t[j].e \in Corrupt
      /\ t[1].e = "invalid_format"
  BY HeaderTestsAre
<1> SUFFICES /\ \/ Passes(t) /\ a = Value(v)
                \/ ~Passes(t) /\ \E e \in Corrupt : a = Throws(e)
             /\ t[1].fails => a = Throws("invalid_format")
  OBVIOUS
<1> HIDE DEF t
<1>2. \/ Passes(t) /\ a = Value(v)
      \/ \E j \in 1..3 : t[j].fails /\ a = Throws(t[j].e)
  BY <1>1, CheckedEither
<1>3. ASSUME t[1].fails
      PROVE  a = Throws("invalid_format")
  <2>0. 3 \in Nat /\ 1 \in 1..3
    OBVIOUS
  <2>1. \E j \in 1..1 : t[j].fails /\ Checked(t, v) = Throws(t[j].e)
    BY <1>1, <1>3, <2>0, CheckedFails, Zenon
  <2>2. \A j \in 1..1 : j = 1
    OBVIOUS
  <2> QED
    BY <1>1, <2>1, <2>2
<1> QED
  BY <1>1, <1>2, <1>3 DEF Passes

LEMMA OpenInv ==
  ASSUME Inv, Opening, NEW layout \in {"ansi", "unicode"}, Open(layout),
         layout = "ansi" => Checked(HeaderTests("ansi"), None).throws # "invalid_format",
         layout = "unicode" => store.layout = "unicode" \/ WrongHeader
  PROVE  Inv'
<1> DEFINE t == HeaderTests(layout)
           a == Checked(t, layout)
<1>1. /\ db' = (IF a.throws = None THEN Opened(layout) ELSE None)
      /\ Ends(a) /\ cached' = cached
  BY DEF Open
<1>2. call = OpenCall /\ call # NoCall /\ call.fn = "open_database"
  BY CallsAreMade DEF Opening, OpenCall
<1>3. CASE Passes(t) /\ a = Value(layout)
  <2>1. layout = store.layout /\ At(Header).data = HeaderSector.data
    BY <1>3, HeaderRight DEF Inv
  <2>2. HeaderSector.data = [wVer |-> store.wVer, roots |-> Roots, eof |-> Eof, crypt |-> store.crypt]
    BY DEF HeaderSector, Sector
  <2>3. Opened(layout) = TrueDb
    BY <2>1, <2>2 DEF Opened, TrueDb
  <2>4. db' = TrueDb
    BY <1>1, <1>3, <2>3, Results
  <2>5. TrueDb' = TrueDb
    BY <1>1, SameFile DEF Ends, disk, Inv
  <2>6. Proper(a)
    BY <1>2, <1>3, <2>1, <2>4 DEF Proper
  <2> QED
    BY <1>1, <1>2, <2>4, <2>5, <2>6, Ending
<1>4. CASE ~Passes(t) /\ \E e \in Corrupt : a = Throws(e)
  <2>1. a.throws \in Corrupt /\ a.throws # None
    BY <1>4, Results DEF Errors
  <2>2. WrongHeader
    <3>1. SUFFICES ASSUME ~WrongHeader, layout # store.layout PROVE FALSE
      BY <1>4, WholeHeader DEF Inv
    <3>2. layout = "ansi" /\ t[1].fails
      BY <3>1, WholeHeader, Builds3 DEF Inv
    <3>3. Checked(HeaderTests("ansi"), None) = Throws("invalid_format")
      BY <3>2, HeaderThrows
    <3> QED
      BY <3>2, <3>3, Results
  <2>3. Proper(a) /\ db' = None
    BY <1>1, <1>2, <2>1, <2>2 DEF Proper
  <2> QED
    BY <1>1, <1>2, <2>3, Ending
<1> QED
  BY <1>3, <1>4, HeaderThrows

\* A call that ends because a read was refused.
LEMMA RefusedInv ==
  ASSUME Inv, call # NoCall, Refused \/ NotOpened
  PROVE  Inv'
<1>1. PICK e \in Unread : Ends(Throws(e)) /\ db' = db /\ cached' = cached
  BY DEF Refused, NotOpened, Unread
<1>2. Proper(Throws(e))
  BY <1>1, Results DEF Proper, Well
<1>3. TrueDb' = TrueDb
  BY <1>1, SameFile DEF Ends, disk, Inv
<1> QED
  BY <1>1, <1>2, <1>3, Ending DEF Inv

LEMMA OpenSmallPstInv ==
  ASSUME Inv, OpenSmallPst
  PROVE  Inv'
<1>1. Opening /\ call = OpenCall /\ call # NoCall
  BY CallsAreMade DEF OpenSmallPst, Inv, Idle, Opening, Paging, Descending, Reading
<1>2. CASE NotOpened \/ Refused
  BY <1>1, <1>2, RefusedInv
<1>3. CASE /\ Checked(HeaderTests("ansi"), None).throws = "invalid_format"
           /\ pc' = "open_large_pst"
           /\ UNCHANGED <<disk, db, cached, call, path, info, answer>>
  <2>1. store.layout = "unicode" \/ WrongHeader
    <3>1. SUFFICES ASSUME store.layout = "ansi", ~WrongHeader PROVE FALSE
      BY Builds3 DEF Inv
    <3>2. Checked(HeaderTests("ansi"), None) = Value(None)
      BY <3>1, WholeHeader, HeaderThrows DEF Inv
    <3> QED
      BY <1>3, <3>2, Results DEF Errors, Corrupt
  <2>2. Opening'
    BY <1>1, <1>3, <2>1 DEF Opening, WrongHeader, disk
  <2>3. CachedRight'
    BY <1>3 DEF Inv, CachedRight
  <2>4. TrueDb' = TrueDb /\ answer' = None
    BY <1>1, <1>3, SameFile DEF Inv, disk, Opening
  <2> QED
    BY <1>1, <1>3, <2>2, <2>3, <2>4, Going DEF Inv
<1>4. CASE Checked(HeaderTests("ansi"), None).throws # "invalid_format" /\ Open("ansi")
  BY <1>1, <1>4, OpenInv
<1> QED
  BY <1>2, <1>3, <1>4 DEF OpenSmallPst

LEMMA OpenLargePstInv ==
  ASSUME Inv, OpenLargePst
  PROVE  Inv'
<1>1. Opening /\ call = OpenCall /\ call # NoCall /\ pc = "open_large_pst"
  BY CallsAreMade DEF OpenLargePst, Inv, Idle, Opening, Paging, Descending, Reading
<1>2. CASE NotOpened \/ Refused
  BY <1>1, <1>2, RefusedInv
<1>3. CASE Open("unicode")
  BY <1>1, <1>3, OpenInv DEF Opening
<1> QED
  BY <1>2, <1>3 DEF OpenLargePst

-----------------------------------------------------------------------------
(***************************************************************************)
(* The lookups.                                                            *)
(***************************************************************************)

LEMMA TruthIs ==
  ASSUME NEW c
  PROVE  /\ c.fn \in RootFns => Truth(c) = Value(PageOf(Roots[TreeOf(c.fn)].loc))
         /\ c.fn = "lookup_node_info" =>
              Truth(c) = IF c.arg \in Keys("nbt") THEN Value(Entries["nbt"][c.arg])
                         ELSE Throws("key_not_found")
         /\ c.fn = "lookup_block_info" =>
              Truth(c) = IF c.arg = 0 THEN Value(NoBlock)
                         ELSE IF Plain(c.arg) \in Keys("bbt")
                           THEN Value(Entries["bbt"][Plain(c.arg)])
                         ELSE Throws("key_not_found")
         /\ c.fn \in DOMAIN PageFns => Truth(c) = PageTruth(c.fn, c.arg)
         /\ c.fn \in DOMAIN BlockFns => Truth(c) = BlockTruth(c.fn, c.arg)
<1>1. CASE c.fn \in RootFns
  <2>1. c.fn \notin DOMAIN PageFns \cup DOMAIN BlockFns \cup Lookups
    BY <1>1, FnsApart
  <2> QED
    BY <1>1, <2>1 DEF Truth, RootFns, TreeOf, Lookups
<1>2. CASE c.fn \in Lookups
  <2>1. c.fn \notin DOMAIN PageFns \cup DOMAIN BlockFns \cup RootFns
    BY <1>2, FnsApart
  <2> QED
    BY <1>2, <2>1 DEF Truth, Lookups, RootFns
<1>3. CASE c.fn \in DOMAIN PageFns
  <2>1. c.fn \notin DOMAIN BlockFns \cup RootFns \cup Lookups
    BY <1>3, FnsApart
  <2> QED
    BY <1>3, <2>1 DEF Truth, RootFns, Lookups, PageTruth
<1>4. CASE c.fn \in DOMAIN BlockFns
  <2>1. c.fn \notin DOMAIN PageFns \cup RootFns \cup Lookups
    BY <1>4, FnsApart
  <2> QED
    BY <1>4, <2>1 DEF Truth, RootFns, Lookups
<1> QED
  BY <1>1, <1>2, <1>3, <1>4 DEF Lookups

LEMMA DescendingIs ==
  ASSUME Inv, pc = "descend"
  PROVE  /\ Descending /\ Tree = TreeOf(call.fn) /\ Tree \in Trees /\ path \in Paths
         /\ call \in Calls /\ call # NoCall /\ call.fn # "open_database" /\ db = TrueDb
         /\ \/ path = <<Tree>>
            \/ \E k \in DOMAIN Children(Tree) :
                 /\ path = <<Tree, k>> /\ FloorIs(Tree, k)
                 /\ <<Tree>> \in DOMAIN cached /\ call.fn \notin RootFns
<1>1. Descending
  BY DEF Inv, Idle, Opening, Paging, Descending, Reading
<1>2. Tree = TreeOf(call.fn)
  BY <1>1 DEF Descending, Tree
<1>3. Tree \in Trees
  BY <1>2 DEF TreeOf, Trees
<1>4. path \in Paths
  BY <1>1, InvTypes, <1>2, <1>3, PathIs DEF Descending
<1>5. call \in Calls /\ db = TrueDb
  BY <1>1 DEF Descending, Asking
<1> QED
  BY <1>1, <1>2, <1>3, <1>4, <1>5, CallIs, CallsAreMade DEF Descending

LEMMA FrontIs ==
  ASSUME NEW t, NEW k
  PROVE  Front(<<t, k>>) = <<t>> /\ Len(<<t, k>>) = 2 /\ Len(<<t>>) = 1
<1> DEFINE p == <<t, k>>
           f == SubSeq(p, 1, 1)
<1>1. Len(p) = 2 /\ p \in Seq({t, k}) /\ p[1] = t /\ Len(<<t>>) = 1
  OBVIOUS
<1>2. Front(p) = f
  BY <1>1 DEF Front
<1>3. f \in Seq({t, k}) /\ Len(f) = 1 /\ f[1] = t
  <2> HIDE DEF p
  <2>1. 1 \in 1..Len(p)
    BY <1>1
  <2> QED
    BY <1>1, <2>1, SubSeqProperties
<1>4. f = <<t>>
  <2> HIDE DEF f
  <2> QED
    BY <1>3
<1> QED
  BY <1>1, <1>2, <1>4

\* The reference to the next page is to the one at the path.
LEMMA RefIs ==
  ASSUME Inv, pc = "descend"
  PROVE  /\ Ref.loc = LocOf(path) /\ Ref.loc \in DOMAIN PageAt
         /\ Ref.id = PageAt[Ref.loc].id /\ PageAt[Ref.loc].type = Tree
<1> DEFINE t == Tree
<1>1. t \in Trees /\ db.roots = Roots
  BY DescendingIs DEF TrueDb
<1>2. CASE path = <<t>>
  <2>1. Ref = Roots[t]
    BY <1>1, <1>2, FrontIs DEF Ref
  <2> QED
    BY <1>1, <1>2, <2>1, PageOfPath DEF IsPage
<1>3. ASSUME NEW k \in DOMAIN Children(t), path = <<t, k>>, <<t>> \in DOMAIN cached
      PROVE  /\ Ref.loc = LocOf(path) /\ Ref.loc \in DOMAIN PageAt
             /\ Ref.id = PageAt[Ref.loc].id /\ PageAt[Ref.loc].type = t
  <2>1. cached[<<t>>] = PageOf(LocOf(<<t>>))
    BY <1>3, CachedIs DEF Inv
  <2>2. Ref = Children(t)[k]
    <3> DEFINE p == path
    <3>1. Len(p) = 2 /\ Front(p) = <<t>> /\ p[2] = k
      BY <1>3, FrontIs
    <3>2. Ref = cached[Front(p)].body[p[Len(p)]]
      BY <3>1 DEF Ref
    <3> QED
      BY <1>1, <2>1, <3>1, <3>2, PageOfPath
  <2> QED
    BY <1>1, <1>3, <2>2, PageOfPath DEF IsPage, Leaf
<1> QED
  BY <1>2, <1>3, DescendingIs

\* A call that ends as it should.
LEMMA EndsRight ==
  ASSUME Inv, call \in Calls, NEW a, Ends(a), Well(a, Truth(call)), UNCHANGED <<db, cached>>
  PROVE  Inv'
<1>1. call # NoCall /\ call.fn # "open_database"
  BY CallIs, CallsAreMade
<1>2. TrueDb' = TrueDb
  BY SameFile DEF Ends, disk, Inv
<1>3. Proper(a)
  BY <1>1 DEF Proper
<1> QED
  BY <1>1, <1>2, <1>3, Ending DEF Inv

LEMMA FetchInv ==
  ASSUME Inv, Fetch
  PROVE  Inv'
<1> DEFINE a == ReadPage(Tree, BOOLEAN, Ref)
<1>1. /\ pc = "descend" /\ call \in Calls /\ Tree \in Trees /\ path \in Paths /\ db = TrueDb
      /\ Descending /\ call # NoCall /\ path \notin DOMAIN cached
  BY DescendingIs DEF Fetch
<1>2. \/ a = Value(PageOf(LocOf(path))) /\ a.throws = None
      \/ a.throws # None /\ damage # None /\ a.throws \in Errors
  BY <1>1, RefIs, FetchRight, Results DEF Inv
<1> HIDE DEF a
<1>3. CASE Refused
  BY <1>1, <1>3, RefusedInv
<1>4. CASE /\ a.throws = None /\ cached' = With(cached, path, a.value)
           /\ UNCHANGED <<disk, db, call, pc, path, info, answer>>
  <2>1. a.value = PageOf(LocOf(path))
    BY <1>2, <1>4, Results
  <2>2. /\ DOMAIN cached' = DOMAIN cached \cup {path} /\ cached'[path] = PageOf(LocOf(path))
        /\ \A p \in DOMAIN cached : cached'[p] = cached[p]
    BY <1>1, <1>4, <2>1 DEF With
  <2>3. \A p \in DOMAIN cached' : cached'[p] = PageOf(LocOf(p))
    BY <2>2, CachedIs DEF Inv
  <2>4. CachedRight'
    <3>1. \A p : LocOf(p) = IF Len(p) = 1 THEN Roots[p[1]].loc
                             ELSE PageAt[Roots[p[1]].loc].body[p[2]].loc
      BY DEF LocOf, Children
    <3> QED
      BY <2>3, <3>1, Zenon DEF CachedRight
  <2>5. Descending'
    <3>1. TrueDb' = TrueDb
      BY <1>4, SameFile DEF Inv, disk
    <3>2. \A t, k : FloorIs(t, k)' <=> FloorIs(t, k)
      BY <1>4 DEF FloorIs, Key, Tree
    <3>3. Asking'
      BY <1>1, <1>4, <3>1 DEF Asking, Descending
    <3> QED
      BY <1>1, <1>4, <2>2, <3>2, <3>3 DEF Descending
  <2>6. TrueDb' = TrueDb /\ answer' = None
    BY <1>1, <1>4, SameFile DEF Inv, disk, Descending, Asking
  <2> QED
    BY <1>1, <1>4, <2>2, <2>4, <2>5, <2>6, Going DEF Inv
<1>5. CASE a.throws # None /\ Ends(a) /\ UNCHANGED <<db, cached>>
  <2>1. Well(a, Truth(call))
    BY <1>2, <1>5 DEF Well, Errors
  <2> QED
    BY <1>1, <1>5, <2>1, EndsRight
<1> QED
  BY <1>3, <1>4, <1>5 DEF Fetch, a

LEMMA HereIs ==
  ASSUME Inv, pc = "descend", path \in DOMAIN cached
  PROVE  /\ path = <<Tree>> =>
              Here = PageOf(Roots[Tree].loc) /\ Here.body = Children(Tree) /\ Here.level # 0
         /\ \A k \in DOMAIN Children(Tree) :
              path = <<Tree, k>> => Here.body = PageAt[Leaf(Tree, k)].body /\ Here.level = 0
<1>1. Here = PageOf(LocOf(path))
  BY CachedIs DEF Inv, Here
<1>2. PICK t \in Trees : t = Tree
  BY DescendingIs
<1>3. CASE path = <<t>>
  <2>1. Len(<<t>>) = 1 /\ \A k : <<t, k>> # <<t>>
    OBVIOUS
  <2>2. Here.level = 1
    BY <1>1, <1>3, PageOfPath
  <2> QED
    BY <1>1, <1>2, <1>3, <2>1, <2>2, PageOfPath
<1>4. ASSUME NEW k \in DOMAIN Children(t), path = <<t, k>>
      PROVE  Here.body = PageAt[Leaf(t, k)].body /\ Here.level = 0
  BY <1>1, <1>4, PageOfPath
<1> QED
  BY <1>2, <1>3, <1>4

LEMMA ReturnRootInv ==
  ASSUME Inv, ReturnRoot
  PROVE  Inv'
<1>1. /\ pc = "descend" /\ path \in DOMAIN cached /\ call.fn \in RootFns
      /\ Ends(Value(Here)) /\ UNCHANGED <<db, cached>>
  BY DEF ReturnRoot, RootFns
<1>2. call \in Calls /\ Tree = TreeOf(call.fn) /\ path = <<Tree>>
  BY <1>1, DescendingIs
<1>3. Truth(call) = Value(Here)
  BY <1>1, <1>2, HereIs, TruthIs
<1> QED
  BY <1>1, <1>2, <1>3, EndsRight DEF Well

\* What is looked for, and what the call answers if the tree does not have it.
LEMMA KeyIs ==
  ASSUME Inv, pc = "descend", call.fn \in Lookups \cup DOMAIN BlockFns
  PROVE  /\ Key \in Nat
         /\ call.fn = "lookup_node_info" => Tree = "nbt" /\ Key = call.arg
         /\ call.fn # "lookup_node_info" =>
              /\ Tree = "bbt" /\ Key = Plain(call.arg) /\ call.arg # 0
              /\ call.fn \in DOMAIN BlockFns \cup {"lookup_block_info"}
         /\ Key \notin Keys(Tree) => Truth(call) = Throws("key_not_found")
<1>1. Descending /\ call \in Calls /\ Tree = TreeOf(call.fn)
  BY DescendingIs
<1>2. call.arg \in Nat
  BY <1>1, CallIs, FnsApart DEF Lookups
<1>3. CASE call.fn = "lookup_node_info"
  <2>1. Tree = "nbt"
    BY <1>1, <1>3 DEF TreeOf
  <2>2. Key = call.arg
    BY <2>1 DEF Key
  <2> QED
    BY <1>2, <1>3, <2>1, <2>2, TruthIs
<1>4. CASE call.fn # "lookup_node_info"
  <2>1. call.fn \in DOMAIN BlockFns \cup {"lookup_block_info"}
    BY <1>4 DEF Lookups
  <2>2. Tree = "bbt" /\ call.arg # 0
    BY <1>1, <1>4, <2>1, FnsApart DEF TreeOf, RootFns, Descending
  <2>3. Key = Plain(call.arg) /\ Key \in Nat
    BY <1>2, <2>2, CleanIsPlain DEF Key
  <2>4. Key \notin Keys("bbt") => Truth(call) = Throws("key_not_found")
    <3>1. CASE call.fn = "lookup_block_info"
      BY <2>2, <2>3, <3>1, TruthIs
    <3>2. CASE call.fn \in DOMAIN BlockFns
      BY <2>2, <2>3, <3>2, TruthIs DEF BlockTruth
    <3> QED
      BY <2>1, <3>1, <3>2
  <2> QED
    BY <1>4, <2>1, <2>2, <2>3, <2>4
<1> QED
  BY <1>3, <1>4

LEMMA AppendIs ==
  ASSUME NEW t, NEW k
  PROVE  Append(<<t>>, k) = <<t, k>> /\ <<t, k>>[1] = t
<1> DEFINE p == <<t>>
           f == Append(p, k)
<1>1. p \in Seq({t, k}) /\ Len(p) = 1 /\ p[1] = t /\ k \in {t, k} /\ <<t, k>>[1] = t
  OBVIOUS
<1>2. f \in Seq({t, k}) /\ Len(f) = 2 /\ f[1] = t /\ f[2] = k
  <2> DEFINE S == {t, k}
  <2> HIDE DEF p, S
  <2>1. /\ f \in Seq(S) /\ Len(f) = Len(p) + 1 /\ f[Len(p) + 1] = k
        /\ \A i \in 1..Len(p) : f[i] = p[i]
    <3>1. p \in Seq(S) /\ k \in S
      BY <1>1 DEF S
    <3> QED
      BY <3>1, AppendProperties
  <2>2. 1 \in 1..Len(p) /\ Len(p) + 1 = 2
    BY <1>1
  <2> QED
    BY <1>1, <2>1, <2>2 DEF S
<1>3. f = <<t, k>>
  <2> HIDE DEF f
  <2> QED
    BY <1>2
<1> QED
  BY <1>1, <1>3

\* From a root to the child under the greatest key that is not larger
LEMMA FloorInv ==
  ASSUME Inv, pc = "descend", path \in DOMAIN cached, path = <<Tree>>,
         call.fn \in Lookups \cup DOMAIN BlockFns, NotLarger # {},
         path' = Append(path, Floor), UNCHANGED <<disk, db, cached, call, pc, info, answer>>
  PROVE  Inv'
<1>1. PICK t \in Trees : t = Tree
  BY DescendingIs
<1>2. Here.body = Children(t) /\ path = <<t>>
  BY <1>1, HereIs
<1>3. NotLarger = {m \in DOMAIN Children(t) : m <= Key}
  BY <1>2 DEF NotLarger
<1>4. \E m \in NotLarger : \A j \in NotLarger : j <= m
  <2>1. DOMAIN Children(t) \in SUBSET Nat /\ IsFiniteSet(DOMAIN Children(t))
        /\ NotLarger \in SUBSET DOMAIN Children(t)
    BY <1>1, <1>3, RootIs
  <2> QED
    BY <2>1, HasGreatest, Zenon
<1>5. PICK k \in NotLarger : k = Floor /\ \A j \in NotLarger : j <= k
  BY <1>4 DEF Floor
<1>6. k \in DOMAIN Children(t) /\ k <= Key /\ \A m \in DOMAIN Children(t) : m <= Key => m <= k
  BY <1>3, <1>5
<1>7. Append(<<t>>, k) = <<t, k>> /\ <<t, k>>[1] = t
  BY AppendIs
<1>8. path' = <<t, k>>
  BY <1>2, <1>5, <1>7
<1>9. Tree' = t /\ Key' = Key
  BY <1>1, <1>7, <1>8 DEF Tree, Key
<1>10. FloorIs(t, k)'
  BY <1>6, <1>9 DEF FloorIs
<1>11. Descending /\ call \in Calls /\ db = TrueDb /\ t = TreeOf(call.fn)
  BY <1>1, DescendingIs
<1>12. TrueDb' = TrueDb
  BY SameFile DEF Inv, disk
<1>13. Descending'
  <2>1. call.fn \notin RootFns
    BY FnsApart
  <2> QED
    BY <1>2, <1>6, <1>8, <1>10, <1>11, <1>12, <2>1 DEF Descending, Asking
<1>14. CachedRight'
  BY DEF Inv, CachedRight
<1> QED
  BY <1>11, <1>12, <1>13, <1>14, Going DEF Inv, Descending, Asking

\* What a page has, or has not, of what is looked for is what the tree has.
LEMMA VisitFinds ==
  ASSUME Inv, pc = "descend", path \in DOMAIN cached,
         call.fn \in Lookups \cup DOMAIN BlockFns
  PROVE  /\ (IF Here.level = 0 THEN Key \notin DOMAIN Here.body ELSE NotLarger = {}) =>
              Key \notin Keys(Tree)
         /\ Here.level = 0 /\ Key \in DOMAIN Here.body =>
              Key \in Keys(Tree) /\ Here.body[Key] = Entries[Tree][Key]
         /\ Here.level # 0 => path = <<Tree>>
<1>1. PICK t \in Trees : t = Tree
  BY DescendingIs
<1>2. PICK j \in Nat : j = Key
  BY KeyIs
<1>3. CASE path = <<t>>
  <2>1. Here.body = Children(t) /\ Here.level # 0
    BY <1>1, <1>3, HereIs
  <2>2. NotLarger = {} => \A m \in DOMAIN Children(t) : ~(m <= j)
    BY <1>2, <2>1 DEF NotLarger
  <2>3. NotLarger = {} => j \notin Keys(t)
    BY <2>2, NoFloor
  <2> QED
    BY <1>1, <1>2, <1>3, <2>1, <2>3
<1>4. ASSUME NEW k \in DOMAIN Children(t), path = <<t, k>>, FloorIs(t, k)
      PROVE  /\ j \notin DOMAIN Here.body => j \notin Keys(t)
             /\ j \in DOMAIN Here.body => j \in Keys(t) /\ Here.body[j] = Entries[t][j]
             /\ Here.level = 0
  <2>1. Here.body = PageAt[Leaf(t, k)].body /\ Here.level = 0
    BY <1>1, <1>4, HereIs
  <2>2. k <= j /\ \A m \in DOMAIN Children(t) : m <= j => m <= k
    BY <1>2, <1>4 DEF FloorIs
  <2>3. j \in Keys(t) <=> j \in DOMAIN PageAt[Leaf(t, k)].body
    BY <2>2, FloorLeaf
  <2>4. j \in DOMAIN PageAt[Leaf(t, k)].body => Entries[t][j] = PageAt[Leaf(t, k)].body[j]
    BY LeafIs, EntryIs
  <2> QED
    BY <2>1, <2>3, <2>4
<1> QED
  BY <1>1, <1>2, <1>3, <1>4, DescendingIs

LEMMA VisitInv ==
  ASSUME Inv, Visit
  PROVE  Inv'
<1>1. /\ pc = "descend" /\ path \in DOMAIN cached /\ call.fn \in Lookups \cup DOMAIN BlockFns
      /\ call \in Calls /\ db = TrueDb
  BY DescendingIs DEF Visit
<1>2. CASE /\ Here.level # 0 /\ NotLarger # {}
           /\ path' = Append(path, Floor)
           /\ UNCHANGED <<disk, db, cached, call, pc, info, answer>>
  BY <1>1, <1>2, VisitFinds, FloorInv
<1>3. CASE /\ IF Here.level = 0 THEN Key \notin DOMAIN Here.body ELSE NotLarger = {}
           /\ Ends(Throws("key_not_found")) /\ UNCHANGED <<db, cached>>
  <2>1. Truth(call) = Throws("key_not_found")
    BY <1>1, <1>3, VisitFinds, KeyIs
  <2> QED
    BY <1>1, <1>3, <2>1, EndsRight DEF Well
<1>4. CASE /\ Here.level = 0 /\ Key \in DOMAIN Here.body /\ call.fn = "lookup_node_info"
           /\ Ends(Value(Here.body[Key])) /\ UNCHANGED <<db, cached>>
  <2>1. Truth(call) = Value(Here.body[Key])
    BY <1>1, <1>4, VisitFinds, KeyIs, TruthIs
  <2> QED
    BY <1>1, <1>4, <2>1, EndsRight DEF Well
<1>5. CASE /\ Here.level = 0 /\ Key \in DOMAIN Here.body /\ call.fn # "lookup_node_info"
           /\ pc' = "block" /\ info' = Here.body[Key] /\ path' = <<>>
           /\ UNCHANGED <<disk, db, cached, call, answer>>
  <2>1. /\ Tree = "bbt" /\ Key = Plain(call.arg) /\ call.arg # 0
        /\ call.fn \in DOMAIN BlockFns \cup {"lookup_block_info"}
    BY <1>1, <1>5, KeyIs
  <2>2. Plain(call.arg) \in Keys("bbt") /\ info' = Entries["bbt"][Plain(call.arg)]
    BY <1>1, <1>5, <2>1, VisitFinds
  <2>3. info' # None
    BY <2>2, NamesAssumption
  <2>4. TrueDb' = TrueDb /\ answer = None
    BY <1>1, <1>5, SameFile, DescendingIs DEF Inv, disk, Descending, Asking
  <2>5. Reading'
    BY <1>1, <1>5, <2>1, <2>2, <2>3, <2>4 DEF Reading, Asking, InfoIs
  <2>6. CachedRight'
    BY <1>5 DEF Inv, CachedRight
  <2> QED
    BY <1>1, <1>5, <2>4, <2>5, <2>6, Going DEF Inv
<1> QED
  BY <1>2, <1>3, <1>4, <1>5 DEF Visit

LEMMA ReturnBlockInv ==
  ASSUME Inv, ReturnBlock
  PROVE  Inv'
<1>1. /\ call \in Calls /\ db = TrueDb /\ InfoIs(call.arg, info)
      /\ call.fn \in DOMAIN BlockFns \cup {"lookup_block_info"} /\ FileOK
  BY DEF ReturnBlock, Inv, Idle, Opening, Paging, Descending, Reading, Asking
<1>2. CASE Refused
  BY <1>1, <1>2, CallsAreMade, RefusedInv
<1>3. CASE /\ call.fn = "lookup_block_info"
           /\ Ends(Value(info)) /\ UNCHANGED <<db, cached>>
  <2>1. Truth(call) = Value(info)
    BY <1>1, <1>3, TruthIs DEF InfoIs
  <2> QED
    BY <1>1, <1>3, <2>1, EndsRight DEF Well
<1>4. CASE /\ call.fn # "lookup_block_info"
           /\ Ends(ReadBlock(call.fn, info)) /\ UNCHANGED <<db, cached>>
  <2>1. call.fn \in DOMAIN BlockFns /\ call.arg \in Nat /\ Asks(call.fn, call.arg)
    BY <1>1, <1>4, CallIs, FnsApart DEF Lookups
  <2>2. Well(ReadBlock(call.fn, info), Truth(call))
    BY <1>1, <2>1, ReadBlockRight, TruthIs DEF InfoIs
  <2> QED
    BY <1>1, <1>4, <2>2, EndsRight
<1> QED
  BY <1>2, <1>3, <1>4 DEF ReturnBlock

LEMMA ReturnPageInv ==
  ASSUME Inv, ReturnPage
  PROVE  Inv'
<1> DEFINE f == PageFns[call.fn]
<1>1. /\ call \in Calls /\ db = TrueDb /\ call.fn \in DOMAIN PageFns /\ FileOK
      /\ AsksPage(call.fn, call.arg)
  BY DEF ReturnPage, Inv, Idle, Opening, Paging, Descending, Reading, Asking
<1>2. CASE Refused
  BY <1>1, <1>2, CallsAreMade, RefusedInv
<1>3. CASE Ends(ReadPage(f.tree, f.leaf, call.arg)) /\ UNCHANGED <<db, cached>>
  <2>1. call.arg \in Refs
    BY <1>1, CallIs, FnsApart DEF Lookups
  <2>2. Well(ReadPage(f.tree, f.leaf, call.arg), Truth(call))
    BY <1>1, <2>1, ReadPageRight, TruthIs
  <2> QED
    BY <1>1, <1>3, <2>2, EndsRight
<1> QED
  BY <1>2, <1>3 DEF ReturnPage

LEMMA StepInv ==
  ASSUME Inv, [Next]_vars
  PROVE  Inv'
<1>1. CASE OpenDatabase
  BY <1>1, OpenDatabaseInv
<1>2. ASSUME NEW c \in Calls, Call(c)
      PROVE  Inv'
  BY <1>2, CallInv
<1>3. CASE GoOn
  BY <1>3, GoOnInv
<1>4. CASE OpenSmallPst \/ OpenLargePst
  BY <1>4, OpenSmallPstInv, OpenLargePstInv
<1>5. CASE Fetch
  BY <1>5, FetchInv
<1>6. CASE ReturnRoot \/ Visit
  BY <1>6, ReturnRootInv, VisitInv
<1>7. CASE ReturnBlock \/ ReturnPage
  BY <1>7, ReturnBlockInv, ReturnPageInv
<1>8. CASE UNCHANGED vars
  <2>1. FileOK' /\ TrueDb' = TrueDb /\ (WrongHeader' <=> WrongHeader)
    BY <1>8, SameFile DEF vars, disk, Inv
  <2>2. AsksPage(call.fn, call.arg)' <=> AsksPage(call.fn, call.arg)
    BY <1>8 DEF vars, disk, AsksPage, Weak
  <2>3. \A t, k : FloorIs(t, k)' <=> FloorIs(t, k)
    BY <1>8 DEF vars, FloorIs, Key, Tree
  <2>4. /\ Idle' <=> Idle
        /\ Opening' <=> Opening
        /\ Paging' <=> Paging
        /\ Descending' <=> Descending
        /\ Reading' <=> Reading
    BY <1>8, <2>1, <2>2, <2>3 DEF vars, disk, Idle, Opening, Paging, Descending, Reading, Asking,
                                 InfoIs
  <2>5. CachedRight' /\ OpensRight' /\ AnswersRight'
    BY <1>8 DEF vars, disk, Inv, CachedRight, OpensRight, AnswersRight, Excused
  <2> QED
    BY <1>8, <2>1, <2>4, <2>5 DEF vars, Inv
<1> QED
  BY <1>1, <1>2, <1>3, <1>4, <1>5, <1>6, <1>7, <1>8 DEF Next, Step

LEMMA Always == Spec => []Inv
BY InitInv, StepInv, PTL DEF Spec

-----------------------------------------------------------------------------
(***************************************************************************)
(* The theorems.                                                           *)
(***************************************************************************)

\* Of any well-formed store, a call is always at one of its steps, with the
\* path or the entry that the step needs, and the pages that are kept are
\* those of paths that lead somewhere (database.h:311-334, 380-411).
THEOREM Typed == Spec => []TypeOK
BY Always, InvTypes, PTL

\* A store of either format is opened as what it is, whatever its keys, its
\* size, its method of encryption and the level of validation, unless it could
\* not be read or its header is damaged (database.h:209-225).
THEOREM Opens == Spec => []OpensRight
<1>1. Inv => OpensRight
  BY DEF Inv
<1> QED
  BY <1>1, Always, PTL

\* Every page that is ever kept for a path is the one that the store has there,
\* after any number of calls that were refused a read or met damage
\* (database.h:311-334, page.h:184-226).
THEOREM PagesRight == Spec => []CachedRight
<1>1. Inv => CachedRight
  BY DEF Inv
<1> QED
  BY <1>1, Always, PTL

\* Every lookup and every read of a page or a block, of any id and any well-formed
\* trees of two levels, answers what the store says, or throws because it could
\* not be read or is damaged (primitives.h:28-30, disk.h:965).
THEOREM Answers == Spec => []AnswersRight
<1>1. Inv => AnswersRight
  BY DEF Inv
<1> QED
  BY <1>1, Always, PTL
=============================================================================
