------------------------------ MODULE PartScan ------------------------------
(***************************************************************************)
(* The scan of the partition table (hal/src/blkdev/partscan.c): sector 0,  *)
(* then the chain of extended records behind each extended entry, one      *)
(* record a step.  BlkDev takes its result as a choice among tables.       *)
(*                                                                         *)
(* Block numbers and products by the sector size are 32 bits wide, here    *)
(* WordSize.  What is on the disk is arbitrary: it may be damaged, and it  *)
(* may be partitioned elsewhere.  A partition stored behind the array is   *)
(* undefined from there on: phase "overrun", where the model stops.        *)
(***************************************************************************)
EXTENDS Naturals, Sequences, FiniteSets

CONSTANTS
    Images,      \* what the disk may hold: sector 0 and the extended records
    Codes,       \* partition codes
    ExtCodes,    \* those is_extended is true of
    UserBlocks,  \* diskinfo.sector_count
    SectorSize,  \* diskinfo.sector_size
    WordSize,    \* 2^32
    MaxParts,    \* MAX_NUM_PARTS
    Tries,       \* EXT_MAX_NUM_PARTS
    Garbage      \* what a sector buffer never read into may hold

Slots == 1..4    \* mbr_num_parts
Words == 0..WordSize - 1
Sectors == 0..UserBlocks - 1
Entry == [code: Codes, start: Words, num: Words]
Record == [signed: BOOLEAN, slot: [Slots -> Entry]]
Sector0 == [sig: {"both", "one", "none"}, slot: [Slots -> Entry]]
Image == [mbr: Sector0, records: [Sectors -> Record]]
Partition == [code: Codes \cup {"hw"}, start: Words, num: Words, logical_num: 0..4, logical: BOOLEAN]

ASSUME WidthAssumption ==
    /\ WordSize \in Nat /\ UserBlocks \in Nat \ {0} /\ UserBlocks < WordSize - 1
    /\ SectorSize \in Nat \ {0} /\ MaxParts \in Nat /\ MaxParts > 5 /\ Tries \in Nat \ {0}
ASSUME ImageAssumption ==
    /\ ExtCodes \subseteq Codes /\ "hw" \notin Codes
    /\ Images \subseteq Image
    /\ Garbage \subseteq Record

VARIABLES
    image,   \* what the disk holds
    phase,   \* "idle", "roots", "walk", "done", "failed" or "overrun"
    parts,   \* outparts: the raw disk, then what was found
    root,    \* the slot of sector 0 scanned last for extended entries
    cur,     \* current_sector
    size,    \* this_size
    tries,   \* try_count
    buf,     \* sector_in_buf
    seen,    \* the records parsed: [root, at, size], with the size in sectors
    again,   \* a record was parsed a second time
    gaveUp   \* a walk ended with no tries left

walk == <<root, cur, size, tries, buf>>
ghosts == <<seen, again, gaveUp>>
vars == <<image, phase, parts, walk, ghosts>>

Unread == WordSize - 1   \* UINT32_MAX: no sector is in the buffer
NoSize == [bytes |-> 0, sectors |-> 0]
Init ==
    /\ image \in Images /\ phase = "idle" /\ parts = <<>>
    /\ root = 0 /\ cur = 0 /\ size = NoSize /\ tries = 0 /\ buf = Unread
    /\ seen = {} /\ again = FALSE /\ gaveUp = FALSE

-----------------------------------------------------------------------------
(* Sector 0 *)

Extended(e) == e.code \in ExtCodes
BytesUnwrapped(sectors) == sectors * SectorSize
Bytes(sectors) == (sectors * SectorSize) % WordSize
Stored(e, start, slot, logical) ==
    [code |-> e.code, start |-> start, num |-> e.num, logical_num |-> slot, logical |-> logical]
Raw == [code |-> "hw", start |-> 0, num |-> UserBlocks, logical_num |-> 0, logical |-> FALSE]

\* check_partition, in 64 bits.
Primary(m, s) ==
    LET e == m.slot[s] IN
    IF ~Extended(e) /\ e.start + e.num <= UserBlocks /\ e.num > 0
    THEN <<Stored(e, e.start, s, FALSE)>> ELSE <<>>
Primaries(m) == Primary(m, 1) \o Primary(m, 2) \o Primary(m, 3) \o Primary(m, 4)

Fail == phase' = "failed" /\ UNCHANGED <<image, parts, walk, ghosts>>

\* blk_priv_scan_partitions: one wrong byte of the signature is let through.
ScanPartitions ==
    /\ phase = "idle"
    /\ \/ Fail                                       \* blk_info, malloc, blk_read
       \/ image.mbr.sig = "none" /\ Fail
       \/ /\ image.mbr.sig # "none"
          /\ phase' = "roots" /\ parts' = <<Raw>> \o Primaries(image.mbr)
          /\ UNCHANGED <<image, walk, ghosts>>

Roots == {s \in Slots : s > root /\ Extended(image.mbr.slot[s])}
NextRoot == CHOOSE s \in Roots : \A t \in Roots : s <= t
EnterRoot ==
    /\ phase = "roots"
    /\ \/ Roots = {} /\ phase' = "done" /\ UNCHANGED walk
       \/ Roots # {} /\ phase' = "failed" /\ UNCHANGED walk   \* blk_info, malloc
       \/ LET e == image.mbr.slot[NextRoot] IN
          /\ Roots # {} /\ phase' = "walk" /\ root' = NextRoot
          /\ cur' = e.start /\ size' = [bytes |-> Bytes(e.num), sectors |-> e.num]
          /\ tries' = Tries /\ buf' = Unread
    /\ UNCHANGED <<image, parts, ghosts>>

-----------------------------------------------------------------------------
(* parse_extended *)

Lba == image.mbr.slot[root].start
Count == image.mbr.slot[root].num

\* The sanity checks: products of 32 bits in sums of 64.
SaneAnySize(e) ==
    LET next == Bytes(cur) + Bytes(e.start) IN
    next >= Bytes(Lba) /\ next <= Bytes((Lba + Count) % WordSize)
Sane(e) ==
    LET next == Bytes(cur) + Bytes(e.start) IN
    /\ Bytes(e.start) + Bytes(e.num) <= size.bytes     \* not oversized
    /\ next >= Bytes(Lba)                              \* not going backward
    /\ next <= Bytes((Lba + Count) % WordSize)         \* not outsized

KeptEmptyToo(e) == ~Extended(e) /\ Sane(e)
Kept(e) == ~Extended(e) /\ e.num > 0 /\ Sane(e)
\* The start stored is the record's, whatever offset the entry has from it.
Logical(rec, s) ==
    IF Kept(rec.slot[s]) THEN <<Stored(rec.slot[s], cur, s, TRUE)>> ELSE <<>>
Logicals(rec) == Logical(rec, 1) \o Logical(rec, 2) \o Logical(rec, 3) \o Logical(rec, 4)

\* The first extended entry that is not empty; nothing checks where it leads.
Links(rec) == {s \in Slots : Extended(rec.slot[s]) /\ rec.slot[s].num > 0}
Link(rec) == CHOOSE s \in Links(rec) : \A t \in Links(rec) : s <= t
FollowFrom(e, base) ==
    cur' = (base + e.start) % WordSize /\ size' = [bytes |-> Bytes(e.num), sectors |-> e.num]
FollowFromRecord(e) == FollowFrom(e, cur)
Follow(e) == FollowFrom(e, Lba)

\* What parsing finds in the buffer: it is read again only for another sector,
\* and a first sector UINT32_MAX passes for one that was read.
Contents ==
    IF cur = Unread THEN IF buf = Unread THEN Garbage ELSE {}
    ELSE IF cur < UserBlocks THEN {image.records[cur]} ELSE {}

TriesKept(found) == IF found # <<>> THEN Tries ELSE tries
TriesLeft(found) == IF found # <<>> THEN Tries ELSE tries - 1
Parse(rec) ==
    /\ parts' = parts \o Logicals(rec)
    /\ seen' = seen \cup {[root |-> root, at |-> cur, size |-> size.sectors]}
    /\ again' = (again \/ \E r \in seen : r.at = cur)
    /\ buf' = cur
    /\ tries' = TriesLeft(Logicals(rec))
    /\ IF Len(parts') > MaxParts
       THEN phase' = "overrun" /\ UNCHANGED <<root, cur, size>>
       ELSE IF Links(rec) = {}
       THEN phase' = "roots" /\ UNCHANGED <<root, cur, size>>
       ELSE Follow(rec.slot[Link(rec)]) /\ UNCHANGED <<phase, root>>
    /\ UNCHANGED <<image, gaveUp>>

OutOfTries ==
    /\ phase = "walk" /\ tries = 0
    /\ phase' = "roots" /\ gaveUp' = TRUE
    /\ UNCHANGED <<image, parts, walk, seen, again>>
ReadFails == phase = "walk" /\ tries > 0 /\ cur # buf /\ Fail
NoSignature(rec) == ~rec.signed /\ phase' = "roots" /\ UNCHANGED <<image, parts, walk, ghosts>>
VisitRecord ==
    /\ phase = "walk" /\ tries > 0
    /\ \E rec \in Contents : NoSignature(rec) \/ (rec.signed /\ Parse(rec))

-----------------------------------------------------------------------------
\* blk_initialize begins anew, by the next mount or after a power cycle.
BlkInitialize ==
    /\ phase \in {"done", "failed", "overrun"}
    /\ phase' = "idle" /\ parts' = <<>>
    /\ root' = 0 /\ cur' = 0 /\ size' = NoSize /\ tries' = 0 /\ buf' = Unread
    /\ seen' = {} /\ again' = FALSE /\ gaveUp' = FALSE
    /\ UNCHANGED image

Scan == ScanPartitions \/ EnterRoot \/ OutOfTries \/ ReadFails \/ VisitRecord
Next == Scan \/ BlkInitialize
\* A scan that has begun goes on: nothing in the loops waits.
Spec == Init /\ [][Next]_vars /\ WF_vars(Scan)

-----------------------------------------------------------------------------
(* Properties *)

Sizes == [bytes: Words, sectors: Words]

\* Every variable has its type.
TypeOK ==
    /\ image \in Image
    /\ phase \in {"idle", "roots", "walk", "done", "failed", "overrun"}
    /\ parts \in Seq(Partition)
    /\ root \in 0..4 /\ cur \in Words /\ size \in Sizes /\ tries \in 0..Tries /\ buf \in Words
    /\ seen \subseteq [root: Slots, at: Words, size: Words]
    /\ again \in BOOLEAN /\ gaveUp \in BOOLEAN

\* The array of MAX_NUM_PARTS overflows only through a chain that leads to a
\* record twice, or on a disk with more partitions than the array has room
\* for: the counter of tries, which each partition found sets back
\* (partscan.c 174), stops neither.
Data(rec) == {s \in Slots : ~Extended(rec.slot[s]) /\ rec.slot[s].num > 0}
Parsed == {r.at : r \in seen}
DataEntries == {x \in Parsed \X Slots : x[1] \in Sectors => x[2] \in Data(image.records[x[1]])}
OverrunExplained ==
    phase = "overrun" =>
        again \/ 1 + Len(Primaries(image.mbr)) + Cardinality(DataEntries) > MaxParts

\* On a disk of less than 2^32 bytes whose links stay in their extended
\* partition, every logical partition found lies in one of the extended
\* partitions - by the sanity checks of its own entry alone
\* (partscan.c 155-169), whatever else its record holds.
Exact(e) == e.start * SectorSize < WordSize /\ e.num * SectorSize < WordSize
InRoot(r, e) == LET x == image.mbr.slot[r] IN e.start + e.num <= x.num
Regular ==
    /\ \A r \in Slots : LET x == image.mbr.slot[r] IN
          Extended(x) => x.start + x.num <= UserBlocks /\ (x.start + x.num) * SectorSize < WordSize
    /\ \A c \in Sectors : \A s \in Slots : LET e == image.records[c].slot[s] IN
          /\ Exact(e)
          /\ Extended(e) => \A r \in Slots : Extended(image.mbr.slot[r]) => InRoot(r, e)
LogicalsInside ==
    Regular => \A i \in DOMAIN parts : parts[i].logical =>
        \E r \in Slots : LET x == image.mbr.slot[r] IN
            /\ Extended(x) /\ x.start <= parts[i].start
            /\ parts[i].start + parts[i].num <= x.start + x.num

\* A scan that ends with success and never ran out of tries has missed nothing
\* on such a disk, loops in its chains or not: it parsed every record an
\* extended entry leads to, and every partition that lies within the size its
\* record was entered with is in the array, with its code and size - and, when
\* it begins at its record, with its first sector: StartIsFirstSector says
\* what becomes of the others.
SignedAt(at) == at < UserBlocks /\ image.records[at].signed
Listed(at, s) ==
    \E i \in DOMAIN parts :
        LET e == image.records[at].slot[s] IN
        /\ parts[i].logical /\ parts[i].logical_num = s
        /\ parts[i].code = e.code /\ parts[i].num = e.num
        /\ e.start = 0 => parts[i].start = at
FindsAll ==
    phase = "done" /\ Regular /\ ~gaveUp =>
        /\ \A r \in Slots : LET x == image.mbr.slot[r] IN
              Extended(x) /\ SignedAt(x.start) => x.start \in Parsed
        /\ \A v \in seen : v.at \in Sectors =>
              LET rec == image.records[v.at]
                  base == image.mbr.slot[v.root].start
              IN /\ Links(rec) # {} /\ SignedAt(base + rec.slot[Link(rec)].start) =>
                       base + rec.slot[Link(rec)].start \in Parsed
                 /\ \A s \in Data(rec) : rec.slot[s].start + rec.slot[s].num <= v.size =>
                       Listed(v.at, s)

\* The start of a logical partition is its first sector (blk_dev.h 30): the
\* sector of the record it was found in and the offset its entry has from
\* there, which is where the sanity checks place it (partscan.c 155-157).
\* Violated: the record's sector alone is stored (partscan.c 171).
FirstSectors(s, num) ==
    {v.at + image.records[v.at].slot[s].start :
        v \in {w \in seen : w.at \in Sectors /\ image.records[w.at].slot[s].num = num}}
StartIsFirstSector ==
    Regular => \A i \in DOMAIN parts :
        parts[i].logical => parts[i].start \in FirstSectors(parts[i].logical_num, parts[i].num)

\* Every scan ends, or runs over the end of the array: no chain is walked for
\* ever (partscan.c 112-113).
ScanEnds == phase \in {"roots", "walk"} ~> phase \in {"done", "failed", "overrun"}
=============================================================================
