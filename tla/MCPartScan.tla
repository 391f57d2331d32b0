----------------------------- MODULE MCPartScan -----------------------------
(* Ten sectors of two bytes and 4-bit words, so that the products wrap      *)
(* behind sector 7; an array with room for two partitions behind the four  *)
(* of sector 0, and two tries.  Three sectors hold every combination of a  *)
(* few records: chains straight, crossing, looping and leading away.       *)
EXTENDS PartScan

E(code, start, num) == [code |-> code, start |-> start, num |-> num]
None == E("data", 0, 0)
Rec(a, b) == [signed |-> TRUE, slot |-> <<a, b, None, None>>]
Blank == [signed |-> FALSE, slot |-> <<None, None, None, None>>]
\* Too large for most sizes, too large for a word of bytes, and wrapping to 0.
Datas == {None, E("data", 1, 1), E("data", 0, 3), E("data", 1, 8)}
LinksTo == {None, E("extended", 0, 2), E("extended", 1, 3), E("extended", 2, 1)}
Records == {Rec(d, l) : d \in Datas, l \in LinksTo}
          \cup {Blank, [signed |-> TRUE, slot |-> <<E("data", 1, 1), E("data", 2, 1), E("extended", 1, 2), E("data", 0, 1)>>],
                [signed |-> TRUE, slot |-> <<E("extended", 13, 1), E("extended", 1, 2), E("data", 1, 1), None>>]}
Mbr(sig, a, b, c) == [sig |-> sig, slot |-> <<a, b, c, None>>]
Mbrs == {Mbr("both", E("data", 1, 2), E("extended", 3, 4), None),
         Mbr("one", E("extended", 3, 3), E("data", 6, 5), E("extended", 4, 3)),
         Mbr("both", E("data", 1, 1), None, E("extended", 3, 0))}
Corners == {Mbr("none", None, None, None), Mbr("both", E("extended", 15, 1), None, None),
            Mbr("both", E("extended", 8, 9), E("extended", 4, 12), None)}
Disk(a, b, c) == [s \in Sectors |-> CASE s = 3 -> a [] s = 4 -> b [] s = 5 -> c [] OTHER -> Blank]
FewRecords == {Blank, Rec(E("data", 1, 1), E("extended", 1, 3)), Rec(E("data", 1, 8), None)}
MCImages ==
    {[mbr |-> m, records |-> Disk(a, b, c)] :
        m \in Mbrs, a \in Records \ {Blank}, b \in Records, c \in FewRecords \cup {Rec(None, E("extended", 0, 2))}}
    \cup {[mbr |-> m, records |-> Disk(a, b, Blank)] : m \in Corners, a \in FewRecords, b \in FewRecords}
MCGarbage == {Blank, Rec(E("data", 1, 1), None), Rec(E("data", 0, 1), E("extended", 0, 1))}
=============================================================================
