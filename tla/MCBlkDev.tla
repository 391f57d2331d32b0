------------------------------ MODULE MCBlkDev ------------------------------
(* Small eMMC: 6 user sectors, 2 boot sectors, 3-bit block numbers, so that *)
(* partition sizes, the boot area's size and the wrap of block numbers all *)
(* fall inside the enumerated addresses.                                    *)
EXTENDS BlkDev, TLC

MCCodes == {"vfat", "ext4", "extended"}
E(code, start, num) == [code |-> code, active |-> FALSE, start |-> start, num |-> num]
Empty == E("ext4", 0, 0)
Table(sig, s1, s2, s3, s4) == [sig |-> sig, slot |-> <<s1, s2, s3, s4>>]

MCTables ==
    {Table("both", Empty, E("ext4", 1, 2), Empty, E("ext4", 5, 1)),       \* holes
     Table("both", E("ext4", 1, 2), E("extended", 3, 3), E("ext4", 5, 9), Empty),
     Table("both", E("extended", 1, 2), E("ext4", 3, 2), Empty, Empty),   \* a hole that an update fills
     Table("one",  E("vfat", 1, 2), Empty, Empty, Empty),
     Table("none", E("vfat", 1, 2), Empty, Empty, Empty)}
MCBlank == Table("none", Empty, Empty, Empty, Empty)
MCLeftover == Table("both", E("ext4", 1, 1), Empty, Empty, Empty)   \* in the boot area
MCMbrs ==
    {(User :> t) @@ (Boot1 :> MCBlank) : t \in MCTables}
        \cup {(User :> t) @@ (Boot1 :> MCLeftover) : t \in {x \in MCTables : x.sig = "none"}}
\* Data that reads as a table (to the scan, not to mbr.c) with an entry at sector 0.
MCData == {Table("one", E("ext4", 0, 3), Empty, Empty, Empty)}
MCLogical == {<<>>, <<[code |-> "vfat", start |-> 3, num |-> 1, mbr_num |-> 0]>>}
MCGarbage == {[code |-> "vfat", start |-> 2, num |-> 7, mbr_num |-> 0]}
=============================================================================
