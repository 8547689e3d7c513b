---------------------------- MODULE MCDatabase -----------------------------
EXTENDS Database, TLC

\* A BBT of a root and two leaves, and an NBT of a root and one, so that a key may be
\* smaller than all of a tree's or missing from the leaf it would be in; a data block,
\* an extended block of it, and a subnode block of each level.  Blocks have the ids
\* that their types call for.
Page(id, type, level, body) == [id |-> id, type |-> type, level |-> level, body |-> body]
To(id, loc) == [id |-> id, loc |-> loc]

MCRoots == [nbt |-> To(1, 17408), bbt |-> To(2, 17920)]

Entry(id, loc, size) == [id |-> id, loc |-> loc, size |-> size]
Node(data, sub) == [data |-> data, sub |-> sub]

\* The cycle of this block goes from 65535 to 0 between its first two bytes.
Wrapping == 262140

MCPageAt ==
  17408 :> Page(1, "nbt", 1, 50 :> To(3, 18432)) @@
  17920 :> Page(2, "bbt", 1, 14 :> To(5, 19456) @@ 22 :> To(6, 19968)) @@
  18432 :> Page(3, "nbt", 0, 50 :> Node(14, 22) @@ 65 :> Node(Wrapping, 18)) @@
  19456 :> Page(5, "bbt", 0, 14 :> Entry(14, 20544, 16) @@ 18 :> Entry(18, 20608, 32)) @@
  19968 :> Page(6, "bbt", 0, 22 :> Entry(22, 20672, 24) @@ Wrapping :> Entry(Wrapping, 20480, 3))

BlockOf(id, loc, size, type, level, body) ==
  loc :> [id |-> id, size |-> size, type |-> type, level |-> level, body |-> body]

MCBlockAt ==
  BlockOf(Wrapping, 20480, 3, "external", 0, <<0, 65, 255>>) @@
  BlockOf(14, 20544, 16, "extended", 1, <<Wrapping>>) @@
  BlockOf(18, 20608, 32, "sub", 0, 7 :> Node(Wrapping, 0)) @@
  BlockOf(22, 20672, 24, "sub", 1, 7 :> 18)

\* The end of the file, and a location that is not of a sector
MCEof == 20736
MCElsewhere == {20736, 18433}
MCBids == {0, Wrapping, Wrapping + 1, 14, 18, 22, 44}

\* The first version of each format
MCStores == {[layout |-> "ansi", wVer |-> 14, crypt |-> "permute"],
             [layout |-> "unicode", wVer |-> 20, crypt |-> "cyclic"]}
=============================================================================
