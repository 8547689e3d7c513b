---------------------------- MODULE MCPstItems -----------------------------
(***************************************************************************)
(* A root folder with a search folder and two folders of one name, one of  *)
(* which has a row without a message class; a message without attachments, *)
(* one without recipients that has another message inside, and contacts    *)
(* with a photo: of two marked ones, and behind an attachment without a    *)
(* mark.                                                                   *)
(***************************************************************************)
EXTENDS PstItems, TLC

Of(id, class) == [id |-> id, class |-> class]
Ids2(ids) == [i \in DOMAIN ids |-> Of(ids[i], None)]

MCRows ==
  <<>> :> Ids2(<<33, 68, 97, 100, 290, 301, 354, 386>>) @@
  <<301>> :> Ids2(<<323, 354, 386>>) @@
  <<302>> :> <<Of(68, "task"), Of(2097156, "contact")>> @@
  <<303>> :> <<>> @@
  <<365>> :> <<>> @@
  <<397>> :> <<>> @@
  <<366>> :> <<Of(2097156, "contact"), Of(68, None), Of(100, "note")>> @@
  <<336>> :> <<Of(68, "task")>> @@
  <<68, 1682>> :> Ids2(<<1, 2>>) @@
  <<100, 1649>> :> Ids2(<<37, 69>>) @@
  <<2097156, 1649>> :> Ids2(<<37, 69, 101>>) @@
  <<2097188, 1649>> :> Ids2(<<37, 69>>)

Folder(name) == [name |-> name]

MCProps ==
  <<33>> :> [record_key |-> <<7, 8>>] @@
  <<97>> :> [name |-> "map"] @@
  <<290>> :> Folder("root") @@
  <<323>> :> Folder("a") @@
  <<354>> :> Folder("a") @@
  <<386>> :> Folder("a") @@
  <<68>> :> [subject |-> <<1, 4, 65>>] @@
  <<100>> :> [subject |-> <<65, 66>>] @@
  <<100, 37>> :> [filename |-> <<70>>, method |-> 1] @@
  <<100, 69>> :> [filename |-> <<70>>, long_filename |-> <<70, 71>>, method |-> 5, object |-> 132] @@
  <<100, 69, 132>> :> [subject |-> <<67>>] @@
  <<2097156>> :> [subject |-> <<67>>] @@
  <<2097156, 37>> :> [photo |-> FALSE] @@
  <<2097156, 69>> :> [photo |-> TRUE] @@
  <<2097156, 101>> :> [photo |-> TRUE] @@
  <<2097188>> :> [subject |-> <<67>>] @@
  <<2097188, 37>> :> [filename |-> <<70>>] @@
  <<2097188, 69>> :> [photo |-> TRUE]

Pst == Item("pst", <<>>)
Root == Item("folder", <<290>>)
Sub == Item("folder", <<354>>)
Search == Item("search_folder", <<323>>)
Contact == Item("contact", <<2097156>>)
Other == Item("contact", <<2097188>>)
Task == Item("task", <<68>>)
Outer == Item("message", <<100>>)
Attached(nid) == Item("attachment", <<100, nid>>)
Inner == Item("message", <<100, 69, 132>>)

Work(items, views) == [items |-> items, views |-> views]
Subs == {"sub_folders", "sub_search_folders"}

MCWorks ==
  {Work({Pst, Root}, {"all_folders"}), Work({Pst, Task}, {"all_messages"}),
   Work({Root, Sub}, Subs), Work({Root}, {"messages", "associated_messages"}),
   Work({Sub}, {"associated_messages", "contacts"}), Work({Search, Task}, {"messages", "tasks"}),
   Work({Contact, Other}, {}), Work({Outer, Attached(69), Inner}, {"attachments"}),
   Work({Item("message", <<68>>), Attached(37)}, {"attachments", "recipients"})}
=============================================================================
