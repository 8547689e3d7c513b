------------------------- MODULE MCPropertyStreams --------------------------
(***************************************************************************)
(* A bag with a property of every kind, in its entry, in the two pages of  *)
(* a heap and in a subnode; tables of no, one and several pages of two     *)
(* rows each, with fixed columns of every width and variable ones; the     *)
(* columns' bits are on both sides of a byte of the bitmap.  Streams over  *)
(* what they hold, and over allocations and the subnode themselves.        *)
(***************************************************************************)
EXTENDS PropertyStreams

MCPageMap == 0 :> <<12, 20, 23, 25, 43, 43>> @@ 1 :> <<12, 16, 24, 43, 58>>
MCSubnodes == {33}
MCSubnodeSize == 33 :> 5
MCSubnodeAt == 33 :> 300

Heap0(i) == MakeHeapId(0, i)
Heap1(i) == MakeHeapId(1, i)
P(type, value, hnid) == [type |-> type, value |-> value, hnid |-> hnid]

short == 1
boolean == 2
longlong == 3
binary == 4
long == 5

MCBagProps ==
  short :> P("short", 513, 0) @@
  boolean :> P("boolean", TRUE, 0) @@
  longlong :> P("longlong", 66051, Heap0(0)) @@
  binary :> P("binary", <<9, 8, 7>>, Heap0(1)) @@
  6 :> P("long", 70000, 0) @@
  7 :> P("binary", <<1, 2, 3, 4, 5>>, 33) @@
  8 :> P("binary", <<>>, 0) @@
  9 :> P("binary", <<>>, Heap0(4)) @@
  10 :> P("string", <<65, 66>>, Heap0(2)) @@
  11 :> P("wstring", <<67, 68>>, Heap1(0)) @@
  12 :> P("mv_long", <<258, 3>>, Heap1(1)) @@
  13 :> P("mv_binary", <<<<1, 2>>, <<>>, <<3>>>>, Heap1(2)) @@
  14 :> P("mv_string", <<<<65>>, <<66, 67>>>>, Heap1(3)) @@
  15 :> P("mv_wstring", <<<<65>>, <<66, 67>>>>, Heap0(3))

C(type, size, offset, bit) == [type |-> type, size |-> size, offset |-> offset, bit |-> bit]
MCColumns ==
  long :> C("long", 4, 4, 0) @@
  binary :> C("binary", 4, 8, 1) @@
  longlong :> C("longlong", 8, 12, 7) @@
  short :> C("short", 2, 20, 8) @@
  boolean :> C("boolean", 1, 22, 9)

R(id, props) == [id |-> id, props |-> props]
Full == long :> P("long", 66000, 0) @@ binary :> P("binary", <<9, 8, 7>>, Heap0(1)) @@
        longlong :> P("longlong", 65793, 0) @@ short :> P("short", 258, 0) @@
        boolean :> P("boolean", FALSE, 0)
Some == binary :> P("binary", <<1, 2, 3, 4, 5>>, 33) @@ boolean :> P("boolean", TRUE, 0)
Other == long :> P("long", 1, 0) @@ short :> P("short", 2, 0)
MCRows == <<R(7, Full), R(3, Some), R(70000, Other), R(9, Full)>>

T(place, n) == [place |-> place, rows |-> SubSeq(MCRows, 1, n)]
MCTables ==
  {T("none", 0), T("heap", 0), T("heap", 2), T("node", 1), T("node", 3), T("node", 4)}

MCProps == DOMAIN MCBagProps \cup {16}
MCRowIds == {3, 9, 8}

MCAsks ==
  {<<t, t>> : t \in {"short", "long", "boolean", "longlong", "binary", "string", "wstring"}}
    \cup {<<"string", "wstring">>, <<"wstring", "string">>}
    \cup {<<"mv_long", "long">>, <<"mv_binary", "binary">>}
    \cup {<<"mv_string", "string">>, <<"mv_string", "wstring">>, <<"mv_wstring", "wstring">>}
\* Allocations of both pages, none, ids just behind the last of a page and further
\* behind it, and one of a page that is not there.
MCAsked ==
  {0, Heap0(0), Heap0(4), Heap0(5), Heap0(6), Heap1(0), Heap1(4), Heap1(5), MakeHeapId(2, 0)}

MCCounts == {0, 2, 20}
MCOffsets == {-1, 0, 3}
MCBeyond == {0, 60}

MCAsksOfWide == {<<"mv_wstring", "string">>}
=============================================================================
