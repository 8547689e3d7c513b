---------------------------- MODULE MCNameIdMap ----------------------------
(***************************************************************************)
(* A store with five named properties: two string names of one guid with   *)
(* the same hash, one of them also in another guid, an id that equals that *)
(* hash, and the same id in another guid.  Two buckets hold them.          *)
(***************************************************************************)
EXTENDS NameIdMap

CONSTANTS x, y, z   \* string names

MCEntries == <<
  [ref |-> 0, string |-> TRUE, guid |-> 3],
  [ref |-> 1, string |-> TRUE, guid |-> 3],
  [ref |-> 7, string |-> FALSE, guid |-> 3],
  [ref |-> 7, string |-> FALSE, guid |-> 4],
  [ref |-> 0, string |-> TRUE, guid |-> 2] >>

MCGuids == <<"g3", "g4">>

MCText == [o \in {0, 1} |-> IF o = 0 THEN x ELSE y]

MCCrc == [n \in {x, y, z} |-> IF n = z THEN 8 ELSE 7]

\* All of the hashes fall into bucket 0, but those of the public strings.
MCBucketOf ==
  [h \in (0..4) \X BOOLEAN \X (0..9) |-> IF h[1] = 2 THEN 1 ELSE 0]

MCBuckets == [b \in {0, 1} |->
  IF b = 0
    THEN << [base |-> 7, string |-> TRUE, guid |-> 3, index |-> 0],
            [base |-> 7, string |-> TRUE, guid |-> 3, index |-> 1],
            [base |-> 7, string |-> FALSE, guid |-> 3, index |-> 2],
            [base |-> 7, string |-> FALSE, guid |-> 4, index |-> 3] >>
    ELSE << [base |-> 7, string |-> TRUE, guid |-> 2, index |-> 4] >>]

Prop(g, s, n) == [guid |-> g, string |-> s, name |-> n]

MCAskedProps ==
  {Prop("g3", TRUE, n) : n \in {x, y, z}}
    \cup {Prop(g, FALSE, 7) : g \in {"g3", "g4", "unknown"}}
    \cup {Prop("ps_public_strings", TRUE, x), Prop("g3", FALSE, 9),
          Prop("ps_mapi", FALSE, 1), Prop("ps_mapi", FALSE, 2), Prop("ps_mapi", TRUE, x)}

\* Ids below 2 (0x8000) are MAPI properties.
MCFirstNamed == 2
MCListedIds == 1..6
MCAnyIds == 1..9

MCGarbage ==
  {[ref |-> 0, string |-> TRUE, guid |-> 3],
   [ref |-> 5, string |-> TRUE, guid |-> 9],
   [ref |-> 5, string |-> FALSE, guid |-> 0]}
=============================================================================
