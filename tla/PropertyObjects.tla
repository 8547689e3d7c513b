-------------------------- MODULE PropertyObjects ---------------------------
(***************************************************************************)
(* Property bags and the rows of tables, which answer to the one interface *)
(* const_property_object: fairport/ltp/propbag.h, table.h and object.h.    *)
(*                                                                         *)
(* First what a well-formed store holds: a property is a typed value; a    *)
(* bag keeps it in its entry or in an allocation or a subnode, and a row   *)
(* in a cell of the row matrix, which is an allocation or pages of a       *)
(* subnode.  Then the code that finds it again, down to the bytes.         *)
(***************************************************************************)
EXTENDS Heap, SequencesExt

CONSTANTS
  BagProps,  \* BagProps[p]: [type, value, hnid] of the property p of a bag
  Tables,    \* tables: [place : {"none", "heap", "node"}, rows], where a row
             \* has an id and properties
  Columns,   \* Columns[p]: [type, size, offset, bit]
  ExistsStart, RowSize,   \* TCI_1b and TCI_bm: where a row's bitmap starts and ends
  RowPage,   \* the size of a page of a row matrix in a subnode
  Props,     \* the properties that the program asks for
  RowIds,    \* and the row ids
  Stale,     \* a byte that no property is kept in
  Asks       \* <<t, T>>: the program reads a property of type t as T

VARIABLES
  table,     \* the table that is open
  answer     \* the last call and what it returned or threw, or None

vars == <<table, answer>>

-----------------------------------------------------------------------------
(***************************************************************************)
(* What the store holds.                                                   *)
(***************************************************************************)

\* Numbers are kept in up to eight bytes, the lowest first, and fit in three.
Power256 == <<1, 256, 65536, 16777216>>
Numbers == {n \in Nat : n < 16777216}
Byte == 0..255
LE(n, size) == [i \in 1..size |-> IF i > 3 THEN 0 ELSE (n \div Power256[i]) % 256]
Longs(v) == [i \in 1..(4 * Len(v)) |-> LE(v[(i - 1) \div 4 + 1], 4)[((i - 1) % 4) + 1]]

Utf16(chars) == [i \in 1..(2 * Len(chars)) |-> IF i % 2 = 1 THEN chars[(i + 1) \div 2] ELSE 0]

\* A count, the offset of each element, the elements.
Starts(elements) ==
  LET start[i \in 1..(Len(elements) + 1)] ==
        IF i = 1 THEN 4 + 4 * Len(elements) ELSE start[i - 1] + Len(elements[i - 1])
  IN start

WithToc(elements) ==
  LET n == Len(elements)
      start == Starts(elements)
      toc == Longs([i \in 1..(n + 1) |-> IF i = 1 THEN n ELSE start[i - 1]])
      of(b) == CHOOSE i \in 1..n : start[i] < b /\ b <= start[i + 1]
  IN [b \in 1..start[n + 1] |->
        IF b <= 4 + 4 * n THEN toc[b] ELSE elements[of(b)][b - start[of(b)]]]

Encoded(type, v) ==
  CASE type = "longlong" -> LE(v, 8)
    [] type \in {"binary", "string"} -> v
    [] type = "wstring" -> Utf16(v)
    [] type = "mv_long" -> Longs(v)
    [] type \in {"mv_binary", "mv_string"} -> WithToc(v)
    [] type = "mv_wstring" -> WithToc([i \in DOMAIN v |-> Utf16(v[i])])

Small == {"short", "long", "boolean"}
Number(type, v) == IF type = "boolean" THEN IF v THEN 1 ELSE 0 ELSE v

AllProps ==
  LET ofRow(r) == {r.props[p] : p \in DOMAIN r.props}
  IN {BagProps[p] : p \in DOMAIN BagProps} \cup
     UNION {UNION {ofRow(t.rows[i]) : i \in DOMAIN t.rows} : t \in Tables}

\* What is kept in each allocation and subnode.
Contents ==
  [h \in {v.hnid : v \in AllProps} \ {0} |->
     LET kept == CHOOSE v \in AllProps : v.hnid = h IN Encoded(kept.type, kept.value)]

\* The values of a type.
Valued(type, v) ==
  \/ type = "boolean" /\ v \in BOOLEAN
  \/ type = "short" /\ v \in Numbers /\ v < 65536
  \/ type \in {"long", "longlong"} /\ v \in Numbers
  \/ type \in {"binary", "string", "wstring"} /\ v \in Seq(Byte)
  \/ type = "mv_long" /\ v \in Seq(Numbers)
  \/ type \in {"mv_binary", "mv_string", "mv_wstring"} /\ v \in Seq(Seq(Byte))

\* What has no bytes may be kept nowhere.
Kept(v) ==
  /\ Valued(v.type, v.value) /\ v.hnid \in Numbers
  /\ v.type \in Small => v.hnid = 0
  /\ v.type \notin Small \cup {"longlong"} /\ v.hnid = 0 => Encoded(v.type, v.value) = <<>>

ASSUME StoreAssumption ==
  /\ \A v \in AllProps : Kept(v)
  /\ \A p \in DOMAIN BagProps : BagProps[p].type = "longlong" => BagProps[p].hnid # 0
  /\ \A h \in DOMAIN Contents :
       h \in Opened /\ StreamSize(h) = Len(Contents[h]) /\ Len(Contents[h]) \in Numbers
  /\ \A v, w \in AllProps : v.hnid = w.hnid /\ v.hnid # 0 =>
       Encoded(v.type, v.value) = Encoded(w.type, w.value)

\* Columns and their bits lie in a row and do not overlap; each value fits.
InCell(v) == IF v.type \in Small \cup {"longlong"} THEN Number(v.type, v.value) ELSE v.hnid

ASSUME RowsAssumption ==
  /\ ExistsStart \in Nat \ 0..3 /\ RowSize \in Nat \ 0..ExistsStart
  /\ RowPage \in Nat \ 0..(RowSize - 1)
  /\ \A p \in DOMAIN Columns :
       LET c == Columns[p]
       IN /\ c.size \in {1, 2, 4, 8} /\ c.offset \in 4..(ExistsStart - c.size)
          /\ c.bit \in 0..(8 * (RowSize - ExistsStart) - 1)
          /\ \A q \in DOMAIN Columns \ {p} :
               /\ Columns[q].bit # c.bit
               /\ Apart(c.offset, c.size, Columns[q].offset, Columns[q].size)
  /\ \A t \in Tables :
       /\ t.place \in {"none", "heap", "node"}
       /\ Len(t.rows) \in Nat /\ DOMAIN t.rows = 1..Len(t.rows)
       /\ t.place = "none" => Len(t.rows) = 0
       /\ \A i \in DOMAIN t.rows :
            /\ t.rows[i].id \in Numbers
            /\ \A p \in DOMAIN t.rows[i].props :
                 LET v == t.rows[i].props[p]
                 IN /\ p \in DOMAIN Columns /\ v.type = Columns[p].type
                    /\ Columns[p].size < 4 => InCell(v) < Power256[Columns[p].size + 1]

Memory ==
  [a \in UNION {{FirstByte(h) + k : k \in 0..(Len(Contents[h]) - 1)} : h \in DOMAIN Contents} |->
     LET h == CHOOSE x \in DOMAIN Contents : a - FirstByte(x) \in 0..(Len(Contents[x]) - 1)
     IN Contents[h][a - FirstByte(h) + 1]]
Bytes(addresses) ==
  [i \in DOMAIN addresses |->
     IF addresses[i] \in DOMAIN Memory THEN Memory[addresses[i]] ELSE Stale]

\* A cell has a number, or where the property is; what was there before, if
\* the row has no such property.
Cell(r, p) ==
  IF p \in DOMAIN r.props THEN LE(InCell(r.props[p]), Columns[p].size)
  ELSE [i \in 1..Columns[p].size |-> Stale]

\* The highest bit of a byte of the bitmap comes first.
Weight == <<128, 64, 32, 16, 8, 4, 2, 1>>
BitmapByte(r, k) ==
  LET on(b) == IF \E p \in DOMAIN r.props : Columns[p].bit = 8 * k + b - 1 THEN Weight[b] ELSE 0
  IN on(1) + on(2) + on(3) + on(4) + on(5) + on(6) + on(7) + on(8)

RowBytes(r) ==
  [i \in 1..RowSize |->
     LET o == i - 1
         at == {p \in DOMAIN Columns : o - Columns[p].offset \in 0..(Columns[p].size - 1)}
     IN IF o < 4 THEN LE(r.id, 4)[i]
        ELSE IF o >= ExistsStart THEN BitmapByte(r, o - ExistsStart)
        ELSE IF at = {} THEN Stale
        ELSE LET p == CHOOSE q \in at : TRUE IN Cell(r, p)[o - Columns[p].offset + 1]]

PageOf(rows, size) ==
  [b \in 1..size |->
     LET i == (b - 1) \div RowSize + 1
     IN IF i > Len(rows) THEN Stale ELSE RowBytes(rows[i])[((b - 1) % RowSize) + 1]]

\* Rows do not cross pages; all pages but the last are full.
RowPages(t) ==
  LET n == RowPage \div RowSize
      count == (Len(t.rows) + n - 1) \div n
      rowsOf(i) == SubSeq(t.rows, (i - 1) * n + 1, Smaller(i * n, Len(t.rows)))
  IN IF t.place = "heap" THEN <<PageOf(t.rows, Len(t.rows) * RowSize)>>
     ELSE IF count = 0 THEN <<(<<>>)>>
     ELSE [i \in 1..count |->
             PageOf(rowsOf(i), IF i < count THEN RowPage ELSE Len(rowsOf(i)) * RowSize)]

Matrix == [t \in Tables |-> RowPages(t)]
RowIndex == [t \in Tables |->
  [id \in {t.rows[i].id : i \in DOMAIN t.rows} |->
     CHOOSE i \in 0..(Len(t.rows) - 1) : t.rows[i + 1].id = id]]

-----------------------------------------------------------------------------
(***************************************************************************)
(* The row matrix.                                                         *)
(***************************************************************************)

Then(r, F(_)) == IF r.throws # None THEN r ELSE F(r.value)

Pages == Matrix[table]
LastPage == Pages[Len(Pages)]
RowsPerLastPage == Len(LastPage) \div RowSize
RowsPerPage == Len(Pages[1]) \div RowSize

\* basic_table::size
TableSize ==
  CASE table.place = "none" -> 0
    [] table.place = "heap" -> Len(Pages[1]) \div RowSize
    [] table.place = "node" ->
         (Len(Pages) - 1) * RowsPerPage + Len(LastPage) \div RowSize

\* read_raw_row and read_exists_bitmap
ReadRow(row, offset, size) ==
  IF row >= TableSize THEN Throws("out_of_range")
  ELSE IF table.place = "heap"
  THEN Value(SubSeq(Pages[1], row * RowSize + offset + 1, row * RowSize + offset + size))
  ELSE LET page == row \div RowsPerPage
           at == (row % RowsPerPage) * RowSize + offset
       IN IF page >= Len(Pages) \/ at + size > Len(Pages[page + 1]) THEN Throws("out_of_range")
          ELSE Value(SubSeq(Pages[page + 1], at + 1, at + size))

FromLE(bytes) ==
  LET at(i) == IF i > Len(bytes) THEN 0 ELSE bytes[i]
  IN at(1) + 256 * (at(2) + 256 * (at(3) + 256 * (at(4) +
       256 * (at(5) + 256 * (at(6) + 256 * (at(7) + 256 * at(8)))))))

TestBit(bytes, bit) == (bytes[bit \div 8 + 1] \div Weight[(bit % 8) + 1]) % 2 = 1

ExistsInRow(row, p) ==
  IF p \notin DOMAIN Columns THEN Value(FALSE)
  ELSE Then(ReadRow(row, ExistsStart, RowSize - ExistsStart),
            LAMBDA bitmap : Value(TestBit(bitmap, Columns[p].bit)))

GetCellValue(row, p) ==
  Then(ExistsInRow(row, p),
       LAMBDA exists :
         IF ~exists THEN Throws("key_not_found")
         ELSE Then(ReadRow(row, Columns[p].offset, Columns[p].size),
                   LAMBDA bytes : Value(FromLE(bytes))))

-----------------------------------------------------------------------------
(***************************************************************************)
(* const_property_object, of a bag and of a row.                           *)
(***************************************************************************)

Bag == [kind |-> "bag", row |-> 0]
Row(row) == [kind |-> "row", row |-> row]

\* The value of an entry of the BTH of a bag.
Entry(p) ==
  LET v == BagProps[p] IN IF v.type \in Small THEN Number(v.type, v.value) ELSE v.hnid

\* get_value_4, and get_value_2 with another size
Get(o, p, size) ==
  Then(IF o = Bag THEN IF p \in DOMAIN BagProps THEN Value(Entry(p)) ELSE Throws("key_not_found")
       ELSE IF table.place = "none" THEN Throws("key_not_found")
       ELSE GetCellValue(o.row, p),
       LAMBDA n : Value(n % Power256[size + 1]))

\* get_value_variable, read_cell, and read_allocation of what they find
ReadHnid(h) ==
  IF IsSubnodeId(h) THEN Value(Bytes(Addresses(h, 0, SubnodeSize[h])))
  ELSE IF AllocSize(h, 0).throws # None THEN AllocSize(h, 0)
  ELSE Then(ReadAll(h), LAMBDA addresses : Value(Bytes(addresses)))

Variable(o, p) == Then(Get(o, p, 3), ReadHnid)

Get8(o, p) ==
  IF o = Bag THEN Then(Variable(o, p), LAMBDA bytes : Value(FromLE(SubSeq(bytes, 1, 8))))
  ELSE Get(o, p, 3)

Exists(o, p) ==
  IF o = Bag THEN Value(p \in DOMAIN BagProps)
  ELSE IF table.place = "none" THEN Throws("key_not_found")
  ELSE ExistsInRow(o.row, p)

PropType(o, p) ==
  LET types == IF o = Bag THEN BagProps ELSE IF table.place = "none" THEN <<>> ELSE Columns
  IN IF p \in DOMAIN types THEN Value(types[p].type) ELSE Throws("key_not_found")

\* const_table_row::get_prop_list asks of each column whether the row has it.
PropList(o) ==
  IF o = Bag THEN Value(DOMAIN BagProps)
  ELSE IF table.place = "none" THEN Value({})
  ELSE IF \E p \in DOMAIN Columns : Exists(o, p).throws # None THEN Throws("out_of_range")
  ELSE Value({p \in DOMAIN Columns : Exists(o, p).value})

SizeOfProp(o, p) ==
  Then(Get(o, p, 3),
       LAMBDA h : IF IsSubnodeId(h) THEN Value(SubnodeSize[h]) ELSE AllocSize(h, 0))

\* UTF-16 and code page 1252, of characters that have the same number in both
Wide(bytes) == [i \in 1..(Len(bytes) \div 2) |-> bytes[2 * i - 1] + 256 * bytes[2 * i]]
String(bytes, wide) == IF wide THEN Wide(bytes) ELSE bytes

\* read_prop<T>
ReadProp(o, p, T) ==
  CASE T = "short" -> Get(o, p, 2)
    [] T = "long" -> Get(o, p, 3)
    [] T = "boolean" -> Then(Get(o, p, 3), LAMBDA n : Value(n # 0))
    [] T = "longlong" -> Get8(o, p)
    [] T = "binary" -> Variable(o, p)
    [] T \in {"string", "wstring"} ->
         Then(Variable(o, p),
              LAMBDA bytes : Value(String(bytes, PropType(o, p).value # "string")))

\* The elements that a table of contents tells of.
TocElements(bytes) ==
  LET long(i) == FromLE(SubSeq(bytes, 4 * i + 1, 4 * i + 4))
      count == long(0)
      end(i) == IF i = count THEN Len(bytes) ELSE long(i + 1)
  IN IF Len(bytes) < 4 THEN Throws("length_error")
     ELSE IF Len(bytes) < 4 + 4 * count THEN Throws("length_error")
     ELSE IF \E i \in 1..count : end(i) < long(i) THEN Throws("length_error")
     ELSE Value([i \in 1..count |-> SubSeq(bytes, long(i) + 1, end(i))])

\* read_prop_array<std::string> adds a string after each that it has converted.
Strings(elements) ==
  FlattenSeq([i \in DOMAIN elements |->
    IF elements[i] = <<>> THEN <<(<<>>)>> ELSE <<Wide(elements[i]), <<>>>>])

\* read_prop_array<T>
ReadPropArray(o, p, T) ==
  Then(Variable(o, p), LAMBDA bytes :
    IF T = "long"
      THEN Value([i \in 1..(Len(bytes) \div 4) |-> FromLE(SubSeq(bytes, 4 * i - 3, 4 * i))])
      ELSE Then(TocElements(bytes), LAMBDA elements :
             LET wide == PropType(o, p).value # "mv_string"
             IN CASE T = "binary" -> Value(elements)
                  [] T = "string" /\ wide -> Value(Strings(elements))
                  [] OTHER -> Value([i \in DOMAIN elements |-> String(elements[i], wide)])))

-----------------------------------------------------------------------------
(***************************************************************************)
(* The program.                                                            *)
(***************************************************************************)

Objects == {Bag} \cup {Row(i) : i \in 0..Len(table.rows)}

PropsOf(o) == IF o = Bag THEN BagProps ELSE table.rows[o.row + 1].props
IsThere(o) == o = Bag \/ o.row < Len(table.rows)
Has(o, p) == IsThere(o) /\ p \in DOMAIN PropsOf(o)

MultiValued == {"mv_long", "mv_binary", "mv_string", "mv_wstring"}
Sized == MultiValued \cup {"binary", "string", "wstring"}

\* The program reads a property as what it is; a missing one as a number.
Suits(o, p, T) == IF Has(o, p) THEN <<PropsOf(o)[p].type, T>> \in Asks ELSE T = "long"

ObjectCalls ==
  [obj : Objects, op : {"exists", "type"}, prop : Props, as : {None}]
    \cup [obj : Objects, op : {"list"}, prop : {None}, as : {None}]
    \cup {c \in [obj : Objects, op : {"size", "stream"}, prop : Props, as : {None}] :
            Has(c.obj, c.prop) => PropsOf(c.obj)[c.prop].type \in Sized}
    \cup {c \in [obj : Objects, op : {"prop", "array"}, prop : Props,
                 as : {a[2] : a \in Asks}] :
            /\ Suits(c.obj, c.prop, c.as)
            /\ Has(c.obj, c.prop) =>
                 (PropsOf(c.obj)[c.prop].type \in MultiValued) = (c.op = "array")}

Table == [kind |-> "table", row |-> 0]
TableCalls ==
  [obj : {Table}, op : {"table_size"}, prop : {None}, as : {None}]
    \cup [obj : {Table}, op : {"lookup_row"}, prop : RowIds, as : {None}]
    \cup [obj : {Row(i) : i \in 0..Len(table.rows)}, op : {"row_id"}, prop : {None}, as : {None}]

Result(c) ==
  CASE c.op = "exists" -> Exists(c.obj, c.prop)
    [] c.op = "type" -> PropType(c.obj, c.prop)
    [] c.op = "list" -> PropList(c.obj)
    [] c.op = "size" -> SizeOfProp(c.obj, c.prop)
    [] c.op = "stream" -> Get(c.obj, c.prop, 3)   \* a device over what is found
    [] c.op = "prop" -> ReadProp(c.obj, c.prop, c.as)
    [] c.op = "array" -> ReadPropArray(c.obj, c.prop, c.as)
    [] c.op = "table_size" -> Value(TableSize)
    [] c.op = "lookup_row" ->
         IF table.place # "none" /\ c.prop \in DOMAIN RowIndex[table]
           THEN Value(RowIndex[table][c.prop]) ELSE Throws("key_not_found")
    [] c.op = "row_id" ->
         IF table.place = "none" THEN Throws("key_not_found")
         ELSE Then(ReadRow(c.obj.row, 0, 4), LAMBDA bytes : Value(FromLE(bytes)))

Init == table \in Tables /\ answer = None

\* What a call returns is kept by the kind of the call, as values of several
\* kinds are not compared.
Answers(c, r) ==
  answer' = [call |-> c, throws |-> r.throws,
             value |-> IF r.throws # None THEN None
                      ELSE [kind \in {<<c.op, c.as>>} |-> r.value]]
Returned == answer.value[<<answer.call.op, answer.call.as>>]

Call(c) == Answers(c, Result(c)) /\ UNCHANGED table

\* A block that a call needs cannot be read.
CallFails(c) == Answers(c, Throws("failed")) /\ UNCHANGED table

\* The program goes on.
GoOn == answer # None /\ answer' = None /\ UNCHANGED table

-----------------------------------------------------------------------------
(***************************************************************************)
(* Properties.                                                             *)
(***************************************************************************)

\* What the store says.  A stream is over the bytes of its property, and size
\* is their number.
Truth(c) ==
  CASE c.op = "table_size" -> Value(Len(table.rows))
    [] c.op = "lookup_row" ->
         IF \E i \in DOMAIN table.rows : table.rows[i].id = c.prop
           THEN Value(CHOOSE i \in 0..(Len(table.rows) - 1) : table.rows[i + 1].id = c.prop)
           ELSE Throws("key_not_found")
    [] c.op = "row_id" -> Value(table.rows[c.obj.row + 1].id)
    [] c.op = "list" -> Value(DOMAIN PropsOf(c.obj))
    [] c.op = "exists" -> Value(Has(c.obj, c.prop))
    [] c.op = "type" /\ c.obj # Bag /\ c.prop \in DOMAIN Columns -> Value(Columns[c.prop].type)
    [] OTHER ->
         IF ~Has(c.obj, c.prop) THEN Throws("key_not_found")
         ELSE LET v == PropsOf(c.obj)[c.prop]
              IN CASE c.op = "type" -> Value(v.type)
                   [] c.op = "stream" -> Value(v.hnid)
                   [] c.op = "size" -> Value(IF v.hnid = 0 THEN 0 ELSE Len(Contents[v.hnid]))
                   [] OTHER -> Value(v.value)

\* A bag and a row answer every call with what the store holds, whatever pages,
\* allocations and subnodes it is in, or throw because a block cannot be read;
\* a property is missing only if the store has none, and a row behind the last
\* has nothing: the documentation of const_property_object and of table_impl.
AnswersRight ==
  answer # None /\ answer.throws # "failed" =>
    LET c == answer.call
    IN IF c.obj = Table \/ IsThere(c.obj)
         THEN /\ Truth(c).throws = answer.throws
              /\ answer.throws = None => Truth(c).value = Returned
         ELSE \/ answer.throws # None \/ c.op = "type"
              \/ c.op = "list" /\ Returned = {}
              \/ c.op = "exists" /\ ~Returned
=============================================================================
