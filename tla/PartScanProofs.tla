--------------------------- MODULE PartScanProofs ---------------------------
(* Proofs about PartScan: types; what lies in the partitions found; that    *)
(* nothing is missed; what it takes to overrun the array; how long a scan   *)
(* takes; and that BlkDev caches one of the arrays it takes for a result.   *)
EXTENDS PartScan, FiniteSetTheorems, SequenceTheorems, TLAPS

-----------------------------------------------------------------------------
(* Words and products *)

LEMMA ModWord == ASSUME NEW x \in Nat PROVE x % WordSize \in Words
    BY WidthAssumption DEF Words

LEMMA NoWrap == ASSUME NEW x \in Nat, x < WordSize PROVE x % WordSize = x
    BY WidthAssumption

LEMMA ProductType == ASSUME NEW a \in Nat PROVE a * SectorSize \in Nat
    BY WidthAssumption

LEMMA BytesType == ASSUME NEW a \in Nat PROVE Bytes(a) \in Words
    BY ProductType, ModWord DEF Bytes

\* Sectors whose product fits a word have that product.
LEMMA BytesExact ==
    ASSUME NEW a \in Nat, a * SectorSize < WordSize PROVE Bytes(a) = a * SectorSize
    BY ProductType, NoWrap DEF Bytes

\* Products compare as the sectors do.
LEMMA ProductSum ==
    ASSUME NEW a \in Nat, NEW b \in Nat
    PROVE  (a + b) * SectorSize = a * SectorSize + b * SectorSize
    BY WidthAssumption

LEMMA ProductUp ==
    ASSUME NEW a \in Nat, NEW b \in Nat, a <= b
    PROVE  a * SectorSize <= b * SectorSize
<1>1. PICK c \in Nat : b = a + c
    <2>1. b - a \in Nat /\ b = a + (b - a)
        OBVIOUS
    <2> QED
        BY <2>1
<1>2. b * SectorSize = a * SectorSize + c * SectorSize
    BY <1>1, ProductSum
<1> DEFINE x == a * SectorSize
           y == c * SectorSize
           z == b * SectorSize
<1>3. x \in Nat /\ y \in Nat /\ z = x + y
    BY <1>2, ProductType
<1> HIDE DEF x, y, z
<1>4. x <= z
    BY <1>3
<1> QED
    BY <1>4 DEF x, z

LEMMA ProductDown ==
    ASSUME NEW a \in Nat, NEW b \in Nat, a * SectorSize <= b * SectorSize
    PROVE  a <= b
<1>1. SUFFICES ASSUME a > b PROVE FALSE
    OBVIOUS
<1>2. (b + 1) * SectorSize <= a * SectorSize
    BY <1>1, ProductUp
<1>3. (b + 1) * SectorSize = b * SectorSize + 1 * SectorSize
    BY ProductSum
<1> QED
    BY <1>2, <1>3, ProductType, WidthAssumption

-----------------------------------------------------------------------------
(* Sequences of partitions as sets *)

Elements(s) == {s[i] : i \in DOMAIN s}

LEMMA ConcatElements ==
    ASSUME NEW a \in Seq(Partition), NEW b \in Seq(Partition)
    PROVE  /\ a \o b \in Seq(Partition)
           /\ Len(a \o b) = Len(a) + Len(b)
           /\ Elements(a \o b) = Elements(a) \cup Elements(b)
<1>1. a \o b \in Seq(Partition) /\ Len(a \o b) = Len(a) + Len(b)
    OBVIOUS
<1>2. ASSUME NEW x \in Elements(a \o b) PROVE x \in Elements(a) \cup Elements(b)
  <2>1. PICK i \in 1..Len(a \o b) : x = (a \o b)[i]
      BY <1>1, <1>2 DEF Elements
  <2>2. CASE i <= Len(a)
      BY <2>1, <2>2 DEF Elements
  <2>3. CASE i > Len(a)
    <3>1. i - Len(a) \in DOMAIN b /\ (a \o b)[i] = b[i - Len(a)]
        BY <1>1, <2>1, <2>3
    <3> QED
        BY <2>1, <3>1 DEF Elements
  <2> QED
      BY <1>1, <2>1, <2>2, <2>3
<1>3. ASSUME NEW x \in Elements(a) PROVE x \in Elements(a \o b)
  <2>1. PICK i \in DOMAIN a : x = a[i]
      BY <1>3 DEF Elements
  <2>2. i \in DOMAIN (a \o b) /\ (a \o b)[i] = a[i]
      BY <2>1
  <2> QED
      BY <2>1, <2>2 DEF Elements
<1>4. ASSUME NEW x \in Elements(b) PROVE x \in Elements(a \o b)
  <2>1. PICK i \in DOMAIN b : x = b[i]
      BY <1>4 DEF Elements
  <2>2. i + Len(a) \in DOMAIN (a \o b) /\ (a \o b)[i + Len(a)] = b[i]
      BY <2>1
  <2> QED
      BY <2>1, <2>2 DEF Elements
<1> QED
    BY <1>1, <1>2, <1>3, <1>4

LEMMA FourElements ==
    ASSUME NEW a \in Seq(Partition), NEW b \in Seq(Partition),
           NEW c \in Seq(Partition), NEW d \in Seq(Partition)
    PROVE  /\ a \o b \o c \o d \in Seq(Partition)
           /\ Len(a \o b \o c \o d) = Len(a) + Len(b) + Len(c) + Len(d)
           /\ Elements(a \o b \o c \o d) =
                 Elements(a) \cup Elements(b) \cup Elements(c) \cup Elements(d)
<1> DEFINE ab == a \o b
           abc == ab \o c
<1>1. /\ ab \in Seq(Partition) /\ Len(ab) = Len(a) + Len(b)
      /\ Elements(ab) = Elements(a) \cup Elements(b)
    BY ConcatElements
<1> HIDE DEF ab
<1>2. /\ abc \in Seq(Partition) /\ Len(abc) = Len(ab) + Len(c)
      /\ Elements(abc) = Elements(ab) \cup Elements(c)
    BY <1>1, ConcatElements
<1> HIDE DEF abc
<1>3. /\ abc \o d \in Seq(Partition) /\ Len(abc \o d) = Len(abc) + Len(d)
      /\ Elements(abc \o d) = Elements(abc) \cup Elements(d)
    BY <1>2, ConcatElements
<1>4. Len(a) \in Nat /\ Len(b) \in Nat /\ Len(c) \in Nat /\ Len(d) \in Nat
    OBVIOUS
<1> QED
    BY <1>1, <1>2, <1>3, <1>4 DEF ab, abc

LEMMA SingletonElements == \A x : Elements(<<x>>) = {x}
<1> TAKE x
<1>1. DOMAIN <<x>> = {1} /\ <<x>>[1] = x
    OBVIOUS
<1> QED
    BY <1>1 DEF Elements
LEMMA EmptyElements == Elements(<<>>) = {}
    BY DEF Elements

\* An entry is stored as a partition.
LEMMA StoredType ==
    ASSUME NEW e \in Entry, NEW start \in Words, NEW s \in Slots, NEW l \in BOOLEAN
    PROVE  Stored(e, start, s, l) \in Partition
    BY DEF Stored, Entry, Partition, Slots

\* The slots of a record whose entries are kept, and what they are stored as.
KeptSlots(rec) == {s \in Slots : Kept(rec.slot[s])}
StoredOf(rec, s) == Stored(rec.slot[s], cur, s, TRUE)

LEMMA LogicalType ==
    ASSUME cur \in Words, NEW rec \in Record, NEW s \in Slots
    PROVE  /\ Logical(rec, s) \in Seq(Partition)
           /\ Elements(Logical(rec, s)) = {StoredOf(rec, t) : t \in KeptSlots(rec) \cap {s}}
           /\ Len(Logical(rec, s)) = IF s \in KeptSlots(rec) THEN 1 ELSE 0
<1>1. rec.slot[s] \in Entry
    BY DEF Record
<1>2. StoredOf(rec, s) \in Partition
    BY <1>1, StoredType DEF StoredOf
<1>3. CASE Kept(rec.slot[s])
  <2>1. Logical(rec, s) = <<StoredOf(rec, s)>> /\ s \in KeptSlots(rec)
      BY <1>3 DEF Logical, StoredOf, KeptSlots
  <2>2. KeptSlots(rec) \cap {s} = {s}
      BY <2>1
  <2> QED
      BY <1>2, <2>1, <2>2, SingletonElements
<1>4. CASE ~Kept(rec.slot[s])
  <2>1. Logical(rec, s) = <<>> /\ s \notin KeptSlots(rec)
      BY <1>4 DEF Logical, KeptSlots
  <2> QED
      BY <2>1, EmptyElements
<1> QED
    BY <1>3, <1>4

LEMMA LogicalsType ==
    ASSUME cur \in Words, NEW rec \in Record
    PROVE  /\ Logicals(rec) \in Seq(Partition)
           /\ Elements(Logicals(rec)) = {StoredOf(rec, s) : s \in KeptSlots(rec)}
           /\ Len(Logicals(rec)) = Len(Logical(rec, 1)) + Len(Logical(rec, 2))
                                 + Len(Logical(rec, 3)) + Len(Logical(rec, 4))
<1>1. 1 \in Slots /\ 2 \in Slots /\ 3 \in Slots /\ 4 \in Slots
    BY DEF Slots
<1>2. /\ Logicals(rec) \in Seq(Partition)
      /\ Len(Logicals(rec)) = Len(Logical(rec, 1)) + Len(Logical(rec, 2))
                            + Len(Logical(rec, 3)) + Len(Logical(rec, 4))
      /\ Elements(Logicals(rec)) = Elements(Logical(rec, 1)) \cup Elements(Logical(rec, 2))
                            \cup Elements(Logical(rec, 3)) \cup Elements(Logical(rec, 4))
    BY <1>1, LogicalType, FourElements DEF Logicals
<1>3. \A s \in Slots : Elements(Logical(rec, s)) = {StoredOf(rec, t) : t \in KeptSlots(rec) \cap {s}}
    BY LogicalType
<1>4. KeptSlots(rec) = (KeptSlots(rec) \cap {1}) \cup (KeptSlots(rec) \cap {2})
                       \cup (KeptSlots(rec) \cap {3}) \cup (KeptSlots(rec) \cap {4})
    BY DEF KeptSlots, Slots
<1> QED
    BY <1>1, <1>2, <1>3, <1>4

LEMMA PrimaryType ==
    ASSUME NEW m \in Sector0, NEW s \in Slots
    PROVE  /\ Primary(m, s) \in Seq(Partition)
           /\ \A x \in Elements(Primary(m, s)) : ~x.logical
           /\ Len(Primary(m, s)) \in {0, 1}
<1>1. m.slot[s] \in Entry
    BY DEF Sector0
<1>2. Stored(m.slot[s], m.slot[s].start, s, FALSE) \in Partition
    BY <1>1, StoredType DEF Entry
<1> QED
    BY <1>2, SingletonElements, EmptyElements DEF Primary, Stored

LEMMA PrimariesType ==
    ASSUME NEW m \in Sector0
    PROVE  /\ Primaries(m) \in Seq(Partition)
           /\ \A x \in Elements(Primaries(m)) : ~x.logical
           /\ Len(Primaries(m)) \in 0..4
<1>1. 1 \in Slots /\ 2 \in Slots /\ 3 \in Slots /\ 4 \in Slots
    BY DEF Slots
<1>2. /\ Primary(m, 1) \in Seq(Partition) /\ Primary(m, 2) \in Seq(Partition)
      /\ Primary(m, 3) \in Seq(Partition) /\ Primary(m, 4) \in Seq(Partition)
    BY <1>1, PrimaryType
<1>3. /\ Primaries(m) \in Seq(Partition)
      /\ Len(Primaries(m)) = Len(Primary(m, 1)) + Len(Primary(m, 2))
                            + Len(Primary(m, 3)) + Len(Primary(m, 4))
      /\ Elements(Primaries(m)) = Elements(Primary(m, 1)) \cup Elements(Primary(m, 2))
                            \cup Elements(Primary(m, 3)) \cup Elements(Primary(m, 4))
    BY <1>2, FourElements DEF Primaries
<1>4. \A s \in Slots : Len(Primary(m, s)) \in {0, 1} /\ \A x \in Elements(Primary(m, s)) : ~x.logical
    BY PrimaryType
<1>5. /\ Len(Primary(m, 1)) \in {0, 1} /\ Len(Primary(m, 2)) \in {0, 1}
      /\ Len(Primary(m, 3)) \in {0, 1} /\ Len(Primary(m, 4)) \in {0, 1}
    BY <1>1, <1>4
<1>6. Len(Primaries(m)) \in 0..4
  <2> DEFINE a == Len(Primary(m, 1))
             b == Len(Primary(m, 2))
             c == Len(Primary(m, 3))
             d == Len(Primary(m, 4))
  <2>1. /\ a \in {0, 1} /\ b \in {0, 1} /\ c \in {0, 1} /\ d \in {0, 1}
        /\ Len(Primaries(m)) = a + b + c + d
      BY <1>3, <1>5
  <2> HIDE DEF a, b, c, d
  <2> QED
      BY <2>1
<1>7. ASSUME NEW x \in Elements(Primaries(m)) PROVE ~x.logical
    BY <1>1, <1>3, <1>4, <1>7
<1> QED
    BY <1>3, <1>6, <1>7

LEMMA FirstParts ==
    ASSUME NEW m \in Sector0
    PROVE  /\ <<Raw>> \o Primaries(m) \in Seq(Partition)
           /\ \A x \in Elements(<<Raw>> \o Primaries(m)) : ~x.logical
           /\ Len(<<Raw>> \o Primaries(m)) = 1 + Len(Primaries(m))
<1>1. Raw \in Partition /\ ~Raw.logical
    BY WidthAssumption DEF Raw, Partition, Words
<1>2. <<Raw>> \in Seq(Partition) /\ Len(<<Raw>>) = 1
    BY <1>1
<1> QED
    BY <1>1, <1>2, PrimariesType, ConcatElements, SingletonElements

-----------------------------------------------------------------------------
(* Type correctness *)

LEMMA ImageType ==
    ASSUME TypeOK
    PROVE  /\ image.mbr \in Sector0 /\ image.records \in [Sectors -> Record]
           /\ \A s \in Slots : image.mbr.slot[s] \in Entry
    BY DEF TypeOK, Image, Sector0

\* What is parsed is a record of the disk, or the buffer nothing was read into.
LEMMA ContentsType ==
    ASSUME TypeOK, NEW rec \in Contents
    PROVE  /\ rec \in Record /\ \A s \in Slots : rec.slot[s] \in Entry
           /\ cur # Unread => cur \in Sectors /\ rec = image.records[cur]
<1>1. CASE cur = Unread
    BY <1>1, ImageAssumption DEF Contents, Record
<1>2. CASE cur # Unread
  <2>1. cur < UserBlocks /\ rec = image.records[cur]
      BY <1>2 DEF Contents
  <2>2. cur \in Sectors
      BY <2>1, WidthAssumption DEF TypeOK, Words, Sectors
  <2> QED
      BY <2>1, <2>2, ImageType DEF Record
<1> QED
    BY <1>1, <1>2

LEMMA LeastSlot ==
    ASSUME NEW S \in SUBSET Slots, S # {} PROVE \E s \in S : \A t \in S : s <= t
<1>1. S \subseteq {1, 2, 3, 4} /\ \E x : x \in S
    BY DEF Slots
<1>2. CASE 1 \in S
    BY <1>1, <1>2
<1>3. CASE 1 \notin S /\ 2 \in S
    BY <1>1, <1>3
<1>4. CASE 1 \notin S /\ 2 \notin S /\ 3 \in S
    BY <1>1, <1>4
<1>5. CASE 1 \notin S /\ 2 \notin S /\ 3 \notin S
  <2>1. S = {4}
      BY <1>1, <1>5
  <2> QED
      BY <2>1
<1> QED
    BY <1>2, <1>3, <1>4, <1>5

LEMMA LinkType ==
    ASSUME NEW rec \in Record, Links(rec) # {}
    PROVE  Link(rec) \in Links(rec) /\ Link(rec) \in Slots
<1>1. Links(rec) \subseteq Slots
    BY DEF Links
<1>2. \E s \in Links(rec) : \A t \in Links(rec) : s <= t
    BY <1>1, LeastSlot
<1>3. Link(rec) \in Links(rec)
    BY <1>2 DEF Link
<1> QED
    BY <1>3 DEF Links

LEMMA NextRootType ==
    ASSUME Roots # {}, root \in 0..4
    PROVE  /\ NextRoot \in Slots /\ NextRoot > root /\ Extended(image.mbr.slot[NextRoot])
           /\ \A t \in Slots : Extended(image.mbr.slot[t]) => t <= root \/ t >= NextRoot
<1>1. Roots \subseteq Slots
    BY DEF Roots
<1>2. \E s \in Roots : \A t \in Roots : s <= t
    BY <1>1, LeastSlot
<1>3. NextRoot \in Roots /\ \A t \in Roots : NextRoot <= t
    BY <1>2 DEF NextRoot
<1> QED
    BY <1>3 DEF Roots, Slots

LEMMA FollowType ==
    ASSUME TypeOK, root \in Slots, NEW e \in Entry, Follow(e)
    PROVE  cur' \in Words /\ size' \in Sizes
<1>1. Lba \in Nat /\ e.start \in Nat /\ e.num \in Nat /\ e.num \in Words
    BY ImageType DEF Lba, Entry, Words
<1>2. cur' = (Lba + e.start) % WordSize /\ size' = [bytes |-> Bytes(e.num), sectors |-> e.num]
    BY DEF Follow, FollowFrom
<1>3. Lba + e.start \in Nat
    BY <1>1
<1> QED
    BY <1>1, <1>2, <1>3, ModWord, BytesType DEF Sizes

\* While a chain is walked its root is an extended entry of sector 0.
WalkInv == phase = "walk" => root \in Slots /\ Extended(image.mbr.slot[root])
TypeInv == TypeOK /\ WalkInv

LEMMA TriesType == ASSUME TypeOK, tries > 0, NEW l PROVE TriesLeft(l) \in 0..Tries
    BY WidthAssumption DEF TypeOK, TriesLeft

\* A parsed record adds partitions, and the walk goes on, ends, or is undefined.
LEMMA ParseType ==
    ASSUME TypeInv, phase = "walk", tries > 0, NEW rec \in Contents, Parse(rec)
    PROVE  TypeInv'
<1> USE DEF TypeInv
<1>1. rec \in Record /\ \A s \in Slots : rec.slot[s] \in Entry
    BY ContentsType
<1>2. cur \in Words /\ parts \in Seq(Partition) /\ root \in Slots
    BY DEF TypeOK, WalkInv
<1>3. parts' \in Seq(Partition)
    BY <1>1, <1>2, LogicalsType, ConcatElements DEF Parse
<1>4. tries' \in 0..Tries
    BY TriesType DEF Parse
<1>5. /\ root' = root /\ phase' \in {"overrun", "roots", "walk"}
      /\ cur' \in Words /\ size' \in Sizes
  <2>1. CASE cur' = cur /\ size' = size
      BY <2>1 DEF Parse, TypeOK
  <2>2. CASE Links(rec) # {} /\ Follow(rec.slot[Link(rec)])
      BY <1>1, <1>2, <2>2, LinkType, FollowType DEF Parse
  <2> QED
      BY <2>1, <2>2 DEF Parse
<1>6. seen' \subseteq [root: Slots, at: Words, size: Words]
  <2>1. size.sectors \in Words
      BY DEF TypeOK, Sizes
  <2> QED
      BY <1>2, <2>1 DEF Parse, TypeOK
<1>7. /\ image' = image /\ buf' \in Words /\ again' \in BOOLEAN /\ gaveUp' \in BOOLEAN
    BY <1>2 DEF Parse, TypeOK
<1>8. root' \in 0..4
    BY <1>2, <1>5 DEF Slots
<1>9. phase' \in {"idle", "roots", "walk", "done", "failed", "overrun"}
    BY <1>5
<1>10. WalkInv'
    BY <1>2, <1>5, <1>7 DEF WalkInv
<1> QED
    BY <1>3, <1>4, <1>5, <1>6, <1>7, <1>8, <1>9, <1>10 DEF TypeOK

\* Every reachable state has its types, and a walk has a root: for every disk.
THEOREM TypeInvariant == Spec => []TypeInv
<1>1. Init => TypeInv
  <2>1. SUFFICES ASSUME Init PROVE TypeInv
      OBVIOUS
  <2>2. image \in Image
      BY <2>1, ImageAssumption DEF Init
  <2>3. 0 \in Words /\ Unread \in Words /\ NoSize \in Sizes /\ 0 \in 0..Tries
      BY WidthAssumption DEF Words, Unread, NoSize, Sizes
  <2>6. 0 \in 0..4 /\ <<>> \in Seq(Partition) /\ FALSE \in BOOLEAN
      OBVIOUS
  <2>4. TypeOK
      BY <2>1, <2>2, <2>3, <2>6, Zenon DEF Init, TypeOK
  <2>5. WalkInv
      BY <2>1 DEF Init, WalkInv
  <2> QED
      BY <2>4, <2>5 DEF TypeInv
<1>2. TypeInv /\ [Next]_vars => TypeInv'
  <2> SUFFICES ASSUME TypeInv, [Next]_vars PROVE TypeInv'
      OBVIOUS
  <2>1. CASE ScanPartitions
    <3>1. CASE Fail
        BY <3>1 DEF Fail, walk, ghosts, TypeInv, TypeOK, WalkInv
    <3>2. CASE phase' = "roots" /\ parts' = <<Raw>> \o Primaries(image.mbr)
               /\ UNCHANGED <<image, walk, ghosts>>
      <4>1. parts' \in Seq(Partition)
          BY <3>2, ImageType, FirstParts DEF TypeInv
      <4> QED
          BY <3>2, <4>1 DEF walk, ghosts, TypeInv, TypeOK, WalkInv
    <3> QED
        BY <2>1, <3>1, <3>2 DEF ScanPartitions
  <2>2. CASE EnterRoot
    <3>1. CASE UNCHANGED <<image, parts, walk, ghosts>> /\ phase' \in {"done", "failed"}
        BY <3>1 DEF walk, ghosts, TypeInv, TypeOK, WalkInv
    <3>2. CASE Roots # {} /\ phase' = "walk"
      <4>1. NextRoot \in Slots /\ Extended(image.mbr.slot[NextRoot])
          BY NextRootType, <3>2 DEF TypeInv, TypeOK
      <4>2. image.mbr.slot[NextRoot] \in Entry
          BY <4>1, ImageType DEF TypeInv
      <4>3. /\ root' = NextRoot /\ cur' \in Words /\ size' \in Sizes
            /\ tries' \in 0..Tries /\ buf' \in Words /\ phase' = "walk"
          BY <2>2, <3>2, <4>2, BytesType, WidthAssumption DEF EnterRoot, Entry, Sizes, Unread, Words
      <4>4. root' \in 0..4
          BY <4>1, <4>3 DEF Slots
      <4>5. UNCHANGED <<image, parts, ghosts>>
          BY <2>2 DEF EnterRoot
      <4> QED
          BY <4>1, <4>3, <4>4, <4>5 DEF ghosts, TypeInv, TypeOK, WalkInv
    <3> QED
        BY <2>2, <3>1, <3>2 DEF EnterRoot
  <2>3. CASE OutOfTries
      BY <2>3 DEF OutOfTries, walk, TypeInv, TypeOK, WalkInv
  <2>4. CASE ReadFails
      BY <2>4 DEF ReadFails, Fail, walk, ghosts, TypeInv, TypeOK, WalkInv
  <2>5. CASE VisitRecord
    <3>1. PICK rec \in Contents : NoSignature(rec) \/ Parse(rec)
        BY <2>5 DEF VisitRecord
    <3>2. CASE NoSignature(rec)
        BY <3>2 DEF NoSignature, walk, ghosts, TypeInv, TypeOK, WalkInv
    <3>3. CASE Parse(rec)
        BY <2>5, <3>3, ParseType DEF VisitRecord
    <3> QED
        BY <3>1, <3>2, <3>3
  <2>6. CASE BlkInitialize
    <3>1. 0 \in Words /\ Unread \in Words /\ NoSize \in Sizes /\ 0 \in 0..Tries
        BY WidthAssumption DEF Words, Unread, NoSize, Sizes
    <3>4. 0 \in 0..4 /\ <<>> \in Seq(Partition) /\ FALSE \in BOOLEAN
        OBVIOUS
    <3>2. TypeOK'
        BY <2>6, <3>1, <3>4, Zenon DEF BlkInitialize, TypeInv, TypeOK
    <3>3. WalkInv'
        BY <2>6 DEF BlkInitialize, WalkInv
    <3> QED
        BY <3>2, <3>3 DEF TypeInv
  <2>7. CASE UNCHANGED vars
      BY <2>7 DEF vars, walk, ghosts, TypeInv, TypeOK, WalkInv
  <2> QED
      BY <2>1, <2>2, <2>3, <2>4, <2>5, <2>6, <2>7 DEF Next, Scan
<1> QED
    BY <1>1, <1>2, PTL DEF Spec

\* The scan never leaves the types, whatever the disk holds.
THEOREM TypeCorrect == Spec => []TypeOK
<1>1. TypeInv => TypeOK
    BY DEF TypeInv
<1> QED
    BY <1>1, TypeInvariant, PTL

-----------------------------------------------------------------------------
(* Where the partitions found lie *)

\* On a regular disk the record about to be parsed and the size it was entered
\* with lie in the extended partition of the root.
Straight ==
    phase = "walk" /\ Regular =>
        /\ Lba <= cur /\ cur + size.sectors <= Lba + Count
        /\ size.bytes = size.sectors * SectorSize

LEMMA RegularRoot ==
    ASSUME TypeInv, Regular, NEW r \in Slots, Extended(image.mbr.slot[r])
    PROVE  LET x == image.mbr.slot[r] IN
           /\ x.start \in Nat /\ x.num \in Nat /\ x.start + x.num <= UserBlocks
           /\ x.start * SectorSize < WordSize /\ x.num * SectorSize < WordSize
           /\ (x.start + x.num) * SectorSize < WordSize
<1> DEFINE x == image.mbr.slot[r]
<1>1. x.start \in Nat /\ x.num \in Nat
    BY ImageType DEF TypeInv, Entry, Words
<1>2. x.start + x.num <= UserBlocks /\ (x.start + x.num) * SectorSize < WordSize
    BY DEF Regular
<1> HIDE DEF x
<1> DEFINE a == x.start * SectorSize
           b == x.num * SectorSize
           c == (x.start + x.num) * SectorSize
<1>3. a \in Nat /\ b \in Nat /\ c = a + b
    BY <1>1, ProductType, ProductSum
<1>4. c < WordSize
    BY <1>2
<1> HIDE DEF a, b, c
<1>5. a < WordSize /\ b < WordSize
    BY <1>3, <1>4, WidthAssumption
<1> QED
    BY <1>1, <1>2, <1>5 DEF a, b, x

LEMMA WalkedRoot ==
    ASSUME TypeInv, Regular, phase = "walk"
    PROVE  /\ Lba \in Nat /\ Count \in Nat /\ Lba + Count <= UserBlocks
           /\ Lba * SectorSize < WordSize /\ (Lba + Count) * SectorSize < WordSize
           /\ root \in Slots /\ Extended(image.mbr.slot[root])
<1>1. root \in Slots /\ Extended(image.mbr.slot[root])
    BY DEF TypeInv, WalkInv
<1> QED
    BY <1>1, RegularRoot DEF Lba, Count

\* There, what is parsed is on the disk.
LEMMA ParsedOnDisk ==
    ASSUME TypeInv, Straight, Regular, phase = "walk", NEW rec \in Contents
    PROVE  /\ cur \in Sectors /\ rec = image.records[cur]
           /\ \A s \in Slots : rec.slot[s] \in Entry /\ Exact(rec.slot[s])
           /\ \A s \in Slots : Extended(rec.slot[s]) => InRoot(root, rec.slot[s])
<1>1. cur \in Nat /\ size.sectors \in Nat /\ cur <= UserBlocks
    BY WalkedRoot, WidthAssumption DEF TypeInv, TypeOK, Straight, Sizes, Words
<1>2. cur # Unread
    BY <1>1, WidthAssumption DEF Unread
<1>3. cur \in Sectors /\ rec = image.records[cur] /\ \A s \in Slots : rec.slot[s] \in Entry
    BY <1>2, ContentsType DEF TypeInv
<1> QED
    BY <1>3, WalkedRoot DEF Regular

\* There, an entry passes the sanity checks exactly if it ends within the size.
LEMMA SaneMeansWithin ==
    ASSUME TypeInv, Straight, Regular, phase = "walk", NEW e \in Entry, Exact(e)
    PROVE  Sane(e) <=> e.start + e.num <= size.sectors
<1>1. /\ e.start \in Nat /\ e.num \in Nat /\ cur \in Nat /\ size.sectors \in Nat
      /\ Lba \in Nat /\ Count \in Nat /\ Lba + Count < WordSize
    BY WalkedRoot, WidthAssumption DEF TypeInv, TypeOK, Entry, Words, Sizes
<1>2. /\ Lba <= cur /\ cur + size.sectors <= Lba + Count
      /\ size.bytes = size.sectors * SectorSize
    BY DEF Straight
<1>3. (Lba + Count) % WordSize = Lba + Count
    BY <1>1, NoWrap
<1> DEFINE l == Lba * SectorSize
           c == cur * SectorSize
           z == size.sectors * SectorSize
           t == (Lba + Count) * SectorSize
           a == e.start * SectorSize
           b == e.num * SectorSize
<1>4. /\ l \in Nat /\ c \in Nat /\ z \in Nat /\ t \in Nat /\ a \in Nat /\ b \in Nat
    BY <1>1, ProductType
<1>5. l <= c
    BY <1>1, <1>2, ProductUp
<1>6. c + z <= t
  <2>1. (cur + size.sectors) * SectorSize <= (Lba + Count) * SectorSize
      BY <1>1, <1>2, ProductUp
  <2>2. (cur + size.sectors) * SectorSize = c + z
      BY <1>1, ProductSum
  <2> QED
      BY <2>1, <2>2
<1>7. l < WordSize /\ t < WordSize /\ a < WordSize /\ b < WordSize
    BY WalkedRoot DEF Exact
<1>8. c < WordSize
  <2> HIDE DEF l, c, z, t, a, b
  <2> QED
      BY <1>4, <1>6, <1>7, WidthAssumption
<1>9. /\ Bytes(cur) = c /\ Bytes(Lba) = l /\ Bytes(Lba + Count) = t
      /\ Bytes(e.start) = a /\ Bytes(e.num) = b
    BY <1>1, <1>7, <1>8, BytesExact
<1>10. Sane(e) <=> a + b <= z /\ c + a >= l /\ c + a <= t
    BY <1>2, <1>3, <1>9 DEF Sane
<1>11. a + b = (e.start + e.num) * SectorSize
    BY <1>1, ProductSum
<1>12. e.start + e.num <= size.sectors => a + b <= z
    BY <1>1, <1>11, ProductUp
<1>13. a + b <= z => e.start + e.num <= size.sectors
    BY <1>1, <1>11, ProductDown
<1>14. a + b <= z => c + a >= l /\ c + a <= t
  <2> HIDE DEF l, c, z, t, a, b
  <2> QED
      BY <1>4, <1>5, <1>6
<1> HIDE DEF l, c, z, t, a, b
<1> QED
    BY <1>10, <1>12, <1>13, <1>14

LEMMA FollowStraight ==
    ASSUME TypeInv, Regular, phase = "walk", NEW e \in Entry, Exact(e), InRoot(root, e), Follow(e)
    PROVE  /\ cur' = Lba + e.start /\ Lba <= cur' /\ cur' + size'.sectors <= Lba + Count
           /\ size'.bytes = size'.sectors * SectorSize
<1>1. /\ e.start \in Nat /\ e.num \in Nat /\ Lba \in Nat /\ Count \in Nat
      /\ Lba + Count < WordSize /\ e.start + e.num <= Count
    BY WalkedRoot, WidthAssumption DEF Entry, Words, InRoot, Count
<1>2. Lba + e.start \in Nat /\ Lba + e.start < WordSize
    BY <1>1, WidthAssumption
<1>3. cur' = Lba + e.start
    BY <1>2, NoWrap DEF Follow, FollowFrom
<1>4. size'.sectors = e.num /\ size'.bytes = e.num * SectorSize
    BY <1>1, BytesExact DEF Follow, FollowFrom, Exact
<1> QED
    BY <1>1, <1>3, <1>4

LEMMA SameImage == ASSUME image' = image PROVE Regular' <=> Regular
    BY DEF Regular, InRoot

LEMMA SameStraight ==
    ASSUME Straight, UNCHANGED <<image, phase, walk>> PROVE Straight'
    BY SameImage DEF Straight, walk, Lba, Count

LEMMA NoWalkStraight == ASSUME phase' # "walk" PROVE Straight'
    BY DEF Straight

LEMMA EnterStraight ==
    ASSUME TypeInv, EnterRoot PROVE Straight'
<1>1. SUFFICES ASSUME phase' = "walk", Regular' PROVE Straight'
    BY DEF Straight
<1>2. Roots # {} /\ image' = image /\ Regular
    BY <1>1, SameImage DEF EnterRoot
<1> DEFINE e == image.mbr.slot[NextRoot]
<1>3. /\ root' = NextRoot /\ cur' = e.start
      /\ size' = [bytes |-> Bytes(e.num), sectors |-> e.num]
    BY <1>1 DEF EnterRoot
<1>4. /\ e.start \in Nat /\ e.num \in Nat /\ e.num * SectorSize < WordSize
    BY <1>2, NextRootType, RegularRoot DEF TypeInv, TypeOK
<1>5. Lba' = e.start /\ Count' = e.num
    BY <1>2, <1>3 DEF Lba, Count
<1> HIDE DEF e
<1>6. Bytes(e.num) = e.num * SectorSize
    BY <1>4, BytesExact
<1>7. size'.sectors = e.num /\ size'.bytes = e.num * SectorSize
    BY <1>3, <1>6
<1>8. Lba' <= cur' /\ cur' + size'.sectors <= Lba' + Count'
    BY <1>3, <1>4, <1>5, <1>7
<1>9. size'.bytes = size'.sectors * SectorSize
    BY <1>7
<1> QED
    BY <1>8, <1>9 DEF Straight

LEMMA ParseStraight ==
    ASSUME TypeInv, Straight, phase = "walk", NEW rec \in Contents, Parse(rec) PROVE Straight'
<1>1. SUFFICES ASSUME phase' = "walk", Regular' PROVE Straight'
    BY DEF Straight
<1>2. image' = image /\ Regular /\ root' = root
    BY <1>1, SameImage DEF Parse
<1>3. rec \in Record /\ Links(rec) # {} /\ Follow(rec.slot[Link(rec)])
    BY <1>1, ContentsType DEF Parse, TypeInv
<1>4. Link(rec) \in Slots /\ Extended(rec.slot[Link(rec)])
    BY <1>3, LinkType DEF Links
<1>5. /\ rec.slot[Link(rec)] \in Entry /\ Exact(rec.slot[Link(rec)])
      /\ InRoot(root, rec.slot[Link(rec)])
    BY <1>2, <1>4, ParsedOnDisk
<1>6. /\ Lba <= cur' /\ cur' + size'.sectors <= Lba + Count
      /\ size'.bytes = size'.sectors * SectorSize
    BY <1>2, <1>3, <1>5, FollowStraight
<1>7. Lba' = Lba /\ Count' = Count
    BY <1>2 DEF Lba, Count
<1> QED
    BY <1>6, <1>7 DEF Straight

LEMMA StepStraight ==
    ASSUME TypeInv, Straight, [Next]_vars PROVE Straight'
<1>1. CASE ScanPartitions
    BY <1>1, NoWalkStraight DEF ScanPartitions, Fail
<1>2. CASE EnterRoot
    BY <1>2, EnterStraight
<1>3. CASE OutOfTries \/ ReadFails \/ BlkInitialize
    BY <1>3, NoWalkStraight DEF OutOfTries, ReadFails, Fail, BlkInitialize
<1>4. CASE VisitRecord
  <2>1. PICK rec \in Contents : NoSignature(rec) \/ Parse(rec)
      BY <1>4 DEF VisitRecord
  <2>2. CASE NoSignature(rec)
      BY <2>2, NoWalkStraight DEF NoSignature
  <2> QED
      BY <1>4, <2>1, <2>2, ParseStraight DEF VisitRecord
<1>5. CASE UNCHANGED vars
    BY <1>5, SameStraight DEF vars
<1> QED
    BY <1>1, <1>2, <1>3, <1>4, <1>5 DEF Next, Scan

\* The partition p lies in an extended entry of sector 0.
InExtended(p) ==
    \E r \in Slots : LET x == image.mbr.slot[r] IN
        /\ Extended(x) /\ x.start <= p.start /\ p.start + p.num <= x.start + x.num
InsideInv == Regular => \A p \in Elements(parts) : p.logical => InExtended(p)

LEMMA InsideMeans == InsideInv <=> LogicalsInside
    BY DEF InsideInv, InExtended, LogicalsInside, Elements

LEMMA ParseInside ==
    ASSUME TypeInv, Straight, InsideInv, phase = "walk", NEW rec \in Contents, Parse(rec)
    PROVE  InsideInv'
<1>1. SUFFICES ASSUME Regular', NEW p \in Elements(parts'), p.logical PROVE InExtended(p)'
    BY DEF InsideInv, Elements
<1>2. image' = image /\ Regular
    BY <1>1, SameImage DEF Parse
<1>3. cur \in Words /\ parts \in Seq(Partition) /\ rec \in Record
    BY ContentsType DEF TypeInv, TypeOK
<1>4. Elements(parts') = Elements(parts) \cup {StoredOf(rec, s) : s \in KeptSlots(rec)}
    BY <1>3, LogicalsType, ConcatElements DEF Parse
<1>5. InExtended(p)' <=> InExtended(p)
    BY <1>2 DEF InExtended
<1>6. CASE p \in Elements(parts)
    BY <1>1, <1>2, <1>5, <1>6 DEF InsideInv
<1>7. CASE p \in {StoredOf(rec, s) : s \in KeptSlots(rec)}
  <2>1. PICK s \in Slots : Kept(rec.slot[s]) /\ p = Stored(rec.slot[s], cur, s, TRUE)
      BY <1>7 DEF StoredOf, KeptSlots
  <2> DEFINE e == rec.slot[s]
  <2>2. e \in Entry /\ Exact(e) /\ e.start \in Nat /\ e.num \in Nat
      BY <1>2, ParsedOnDisk DEF Entry, Words
  <2>3. e.start + e.num <= size.sectors
      BY <1>2, <2>1, <2>2, SaneMeansWithin DEF Kept
  <2>4. p.start = cur /\ p.num = e.num
      BY <2>1 DEF Stored
  <2> HIDE DEF e
  <2>5. /\ Lba <= cur /\ cur + size.sectors <= Lba + Count
        /\ Lba \in Nat /\ Count \in Nat /\ cur \in Nat /\ size.sectors \in Nat
        /\ root \in Slots /\ Extended(image.mbr.slot[root])
      BY <1>2, <1>3, WalkedRoot DEF Straight, TypeInv, TypeOK, Sizes, Words
  <2>6. Lba <= p.start /\ p.start + p.num <= Lba + Count
      BY <2>2, <2>3, <2>4, <2>5
  <2>7. InExtended(p)
      BY <2>5, <2>6 DEF InExtended, Lba, Count
  <2> QED
      BY <1>5, <2>7
<1> QED
    BY <1>1, <1>4, <1>6, <1>7

\* Whatever the disk holds and whatever fails: on a regular disk the sanity
\* checks alone keep every logical partition in its extended one.
THEOREM LogicalsStayInside == Spec => []LogicalsInside
<1>1. Init => Straight /\ InsideInv
  <2>1. Init => parts = <<>> /\ phase = "idle"
      BY DEF Init
  <2> QED
      BY <2>1, EmptyElements DEF Straight, InsideInv
<1>2. TypeInv /\ Straight /\ InsideInv /\ [Next]_vars => Straight' /\ InsideInv'
  <2> SUFFICES ASSUME TypeInv, Straight, InsideInv, [Next]_vars PROVE InsideInv'
      BY StepStraight
  <2>1. ASSUME image' = image, Elements(parts') \subseteq Elements(parts) PROVE InsideInv'
      BY <2>1, SameImage DEF InsideInv, InExtended
  <2>2. ASSUME image' = image, \A p \in Elements(parts') : ~p.logical PROVE InsideInv'
      BY <2>2 DEF InsideInv, Elements
  <2>3. CASE ScanPartitions
    <3>1. CASE Fail
        BY <2>1, <3>1 DEF Fail
    <3>2. CASE image' = image /\ parts' = <<Raw>> \o Primaries(image.mbr)
        BY <2>2, <3>2, FirstParts, ImageType DEF TypeInv
    <3> QED
        BY <2>3, <3>1, <3>2 DEF ScanPartitions
  <2>4. CASE EnterRoot \/ OutOfTries \/ ReadFails
      BY <2>1, <2>4 DEF EnterRoot, OutOfTries, ReadFails, Fail
  <2>5. CASE VisitRecord
    <3>1. PICK rec \in Contents : NoSignature(rec) \/ Parse(rec)
        BY <2>5 DEF VisitRecord
    <3>2. CASE NoSignature(rec)
        BY <2>1, <3>2 DEF NoSignature
    <3> QED
        BY <2>5, <3>1, <3>2, ParseInside DEF VisitRecord
  <2>6. CASE BlkInitialize
      BY <2>2, <2>6, EmptyElements DEF BlkInitialize
  <2>7. CASE UNCHANGED vars
      BY <2>1, <2>7 DEF vars
  <2> QED
      BY <2>3, <2>4, <2>5, <2>6, <2>7 DEF Next, Scan
<1>3. InsideInv => LogicalsInside
    BY InsideMeans
<1> QED
    BY <1>1, <1>2, <1>3, TypeInvariant, PTL DEF Spec

-----------------------------------------------------------------------------
(* Nothing is missed *)

\* The next record to be parsed.
Pending(at) == phase = "walk" /\ cur = at
Met(at) == SignedAt(at) => at \in Parsed \/ Pending(at)

RootsMet == \A r \in Slots : LET x == image.mbr.slot[r] IN r <= root /\ Extended(x) => Met(x.start)
Target(v) == image.mbr.slot[v.root].start + image.records[v.at].slot[Link(image.records[v.at])].start
LinksMet == \A v \in seen : v.at \in Sectors /\ Links(image.records[v.at]) # {} => Met(Target(v))
FoundAt(at, s) ==
    \E p \in Elements(parts) :
        /\ p.logical /\ p.logical_num = s /\ p.start = at
        /\ p.code = image.records[at].slot[s].code /\ p.num = image.records[at].slot[s].num
DataFound ==
    \A v \in seen : v.at \in Sectors =>
        \A s \in Data(image.records[v.at]) :
            image.records[v.at].slot[s].start + image.records[v.at].slot[s].num <= v.size
                => FoundAt(v.at, s)

\* FindsAll as it holds while the scan runs.
FoundInv ==
    /\ phase = "idle" => root = 0 /\ seen = {}
    /\ phase = "done" => Roots = {}
    /\ phase \in {"roots", "walk", "done"} /\ Regular /\ ~gaveUp => RootsMet /\ LinksMet /\ DataFound

LEMMA FoundMeans == TypeInv /\ FoundInv => FindsAll
<1> SUFFICES ASSUME TypeInv, FoundInv, phase = "done", Regular, ~gaveUp PROVE FindsAll
    BY DEF FindsAll
<1>1. Roots = {} /\ RootsMet /\ LinksMet /\ DataFound
    BY DEF FoundInv
<1>2. \A at : Met(at) => (SignedAt(at) => at \in Parsed)
    BY DEF Met, Pending
<1>3. \A r \in Slots : LET x == image.mbr.slot[r] IN
          Extended(x) /\ SignedAt(x.start) => x.start \in Parsed
  <2>1. \A r \in Slots : Extended(image.mbr.slot[r]) => r <= root
      BY <1>1 DEF Roots, TypeInv, TypeOK, Slots
  <2> QED
      BY <1>1, <1>2, <2>1 DEF RootsMet
<1>4. ASSUME NEW v \in seen, v.at \in Sectors
      PROVE  LET rec == image.records[v.at]
                 base == image.mbr.slot[v.root].start
             IN Links(rec) # {} /\ SignedAt(base + rec.slot[Link(rec)].start) =>
                   base + rec.slot[Link(rec)].start \in Parsed
  <2>1. Links(image.records[v.at]) # {} /\ SignedAt(Target(v)) => Target(v) \in Parsed
      BY <1>1, <1>2, <1>4 DEF LinksMet
  <2> QED
      BY <2>1 DEF Target
<1>5. ASSUME NEW v \in seen, v.at \in Sectors, NEW s \in Data(image.records[v.at]),
             image.records[v.at].slot[s].start + image.records[v.at].slot[s].num <= v.size
      PROVE  Listed(v.at, s)
    BY <1>1, <1>5 DEF DataFound, FoundAt, Elements, Listed
<1> SUFFICES ASSUME NEW v \in seen, v.at \in Sectors
    PROVE  LET rec == image.records[v.at]
               base == image.mbr.slot[v.root].start
           IN /\ Links(rec) # {} /\ SignedAt(base + rec.slot[Link(rec)].start) =>
                    base + rec.slot[Link(rec)].start \in Parsed
              /\ \A s \in Data(rec) : rec.slot[s].start + rec.slot[s].num <= v.size =>
                    Listed(v.at, s)
    BY <1>3 DEF FindsAll
<1>6. \A s \in Data(image.records[v.at]) :
         image.records[v.at].slot[s].start + image.records[v.at].slot[s].num <= v.size =>
            Listed(v.at, s)
    BY <1>5
<1>7. LET rec == image.records[v.at]
          base == image.mbr.slot[v.root].start
      IN Links(rec) # {} /\ SignedAt(base + rec.slot[Link(rec)].start) =>
            base + rec.slot[Link(rec)].start \in Parsed
    BY <1>4
<1> QED
    BY <1>6, <1>7

LEMMA ParseFound ==
    ASSUME TypeInv, Straight, FoundInv, phase = "walk", NEW rec \in Contents, rec.signed, Parse(rec)
    PROVE  FoundInv'
<1>1. phase' \in {"overrun", "roots", "walk"}
    BY DEF Parse
<1>2. SUFFICES ASSUME phase' \in {"roots", "walk"}, Regular', ~gaveUp'
      PROVE RootsMet' /\ LinksMet' /\ DataFound'
    BY <1>1 DEF FoundInv
<1>3. image' = image /\ root' = root /\ Regular /\ ~gaveUp
    BY <1>2, SameImage DEF Parse
<1>4. RootsMet /\ LinksMet /\ DataFound
    BY <1>3 DEF FoundInv
<1>w. PICK w : w = [root |-> root, at |-> cur, size |-> size.sectors]
    OBVIOUS
<1>5. seen' = seen \cup {w} /\ Parsed' = Parsed \cup {cur}
  <2>1. seen' = seen \cup {w}
      BY <1>w DEF Parse
  <2>2. w.at = cur
      BY <1>w
  <2> QED
      BY <2>1, <2>2 DEF Parsed
<1>6. ASSUME NEW at, Met(at) PROVE Met(at)'
    BY <1>3, <1>5, <1>6 DEF Met, Pending, SignedAt
<1>7. RootsMet'
    BY <1>3, <1>4, <1>6 DEF RootsMet
<1>8. cur \in Sectors /\ rec = image.records[cur]
    BY <1>3, ParsedOnDisk
<1>9. ASSUME Links(rec) # {} PROVE Met(Target(w))'
  <2>1. phase' = "walk" /\ Follow(rec.slot[Link(rec)])
      BY <1>2, <1>9 DEF Parse
  <2>2. Link(rec) \in Slots /\ Extended(rec.slot[Link(rec)])
      BY <1>9, LinkType, ContentsType DEF TypeInv, Links
  <2>3. /\ rec.slot[Link(rec)] \in Entry /\ Exact(rec.slot[Link(rec)])
        /\ InRoot(root, rec.slot[Link(rec)])
      BY <1>3, <2>2, ParsedOnDisk
  <2>4. cur' = Lba + rec.slot[Link(rec)].start
      BY <1>3, <2>1, <2>3, FollowStraight
  <2>5. Target(w)' = cur'
      BY <1>3, <1>8, <1>w, <2>4 DEF Target, Lba, Link, Links
  <2> QED
      BY <2>1, <2>5 DEF Met, Pending
<1>10. LinksMet'
  <2> SUFFICES ASSUME NEW v \in seen', v.at \in Sectors, Links(image'.records[v.at]) # {} PROVE Met(Target(v))'
      BY DEF LinksMet, Links
  <2>1. CASE v = w
    <3>1. Links(rec) # {}
        BY <1>3, <1>8, <1>w, <2>1 DEF Links
    <3> QED
        BY <1>9, <2>1, <3>1
  <2>2. CASE v \in seen
    <3>1. Met(Target(v))
        BY <1>3, <1>4, <2>2 DEF LinksMet
    <3>2. Target(v)' = Target(v)
        BY <1>3 DEF Target, Link, Links
    <3> QED
        BY <1>6, <3>1, <3>2 DEF Met, Pending
  <2> QED
      BY <1>5, <2>1, <2>2
<1>11. Elements(parts') = Elements(parts) \cup {StoredOf(rec, s) : s \in KeptSlots(rec)}
  <2>1. cur \in Words /\ parts \in Seq(Partition) /\ rec \in Record
      BY ContentsType DEF TypeInv, TypeOK
  <2> QED
      BY <2>1, LogicalsType, ConcatElements DEF Parse
<1>12. ASSUME NEW s \in Data(rec), rec.slot[s].start + rec.slot[s].num <= size.sectors
       PROVE  FoundAt(w.at, s)'
  <2>1. s \in Slots /\ rec.slot[s] \in Entry /\ Exact(rec.slot[s])
      BY <1>3, ParsedOnDisk DEF Data
  <2>2. s \in KeptSlots(rec)
      BY <1>3, <1>12, <2>1, SaneMeansWithin DEF Kept, KeptSlots, Data
  <2>3. StoredOf(rec, s) \in Elements(parts')
      BY <1>11, <2>2
  <2>4. /\ StoredOf(rec, s).logical /\ StoredOf(rec, s).logical_num = s
        /\ StoredOf(rec, s).start = cur /\ StoredOf(rec, s).num = image'.records[cur].slot[s].num
        /\ StoredOf(rec, s).code = image'.records[cur].slot[s].code
      BY <1>3, <1>8 DEF StoredOf, Stored
  <2>5. w.at = cur
      BY <1>w
  <2> QED
      BY <2>3, <2>4, <2>5 DEF FoundAt
<1>13. DataFound'
  <2> SUFFICES ASSUME NEW v \in seen', v.at \in Sectors, NEW s \in Data(image'.records[v.at]),
                      image'.records[v.at].slot[s].start + image'.records[v.at].slot[s].num <= v.size
               PROVE  FoundAt(v.at, s)'
      BY DEF DataFound, Data
  <2>1. CASE v = w
    <3>1. w.at = cur /\ w.size = size.sectors /\ image'.records[v.at] = rec
        BY <1>3, <1>8, <1>w, <2>1
    <3> QED
        BY <1>12, <2>1, <3>1
  <2>2. CASE v \in seen
    <3>1. FoundAt(v.at, s)
        BY <1>3, <1>4, <2>2 DEF DataFound
    <3> QED
        BY <1>3, <1>11, <3>1 DEF FoundAt, Elements
  <2> QED
      BY <1>5, <2>1, <2>2
<1> QED
    BY <1>7, <1>10, <1>13

LEMMA EnterFound ==
    ASSUME TypeInv, FoundInv, EnterRoot PROVE FoundInv'
<1>1. /\ phase = "roots" /\ image' = image /\ parts' = parts /\ seen' = seen /\ gaveUp' = gaveUp
      /\ phase' \in {"walk", "done", "failed"}
    BY DEF EnterRoot, ghosts
<1>2. phase' = "done" => Roots' = {}
  <2>1. phase' = "done" => Roots = {} /\ root' = root
      BY DEF EnterRoot, walk
  <2> QED
      BY <1>1, <2>1 DEF Roots
<1>3. SUFFICES ASSUME Regular', ~gaveUp', phase' # "failed"
               PROVE  RootsMet' /\ LinksMet' /\ DataFound'
    BY <1>1, <1>2 DEF FoundInv
<1>4. RootsMet /\ LinksMet /\ DataFound
    BY <1>1, <1>3, SameImage DEF FoundInv
<1>5. ASSUME NEW at, Met(at) PROVE Met(at)'
    BY <1>1, <1>5 DEF Met, Pending, SignedAt, Parsed
<1>6. LinksMet'
    <2> SUFFICES ASSUME NEW v \in seen, v.at \in Sectors, Links(image.records[v.at]) # {} PROVE Met(Target(v))'
        BY <1>1 DEF LinksMet, Links
    <2>1. Met(Target(v))
        BY <1>4 DEF LinksMet
    <2>2. Target(v)' = Target(v)
        BY <1>1 DEF Target, Link, Links
    <2> QED
        BY <1>5, <2>1, <2>2 DEF Met, Pending
<1>7. DataFound'
    BY <1>1, <1>4 DEF DataFound, FoundAt, Elements, Data
<1>8. ASSUME NEW r \in Slots, r <= root', Extended(image.mbr.slot[r]) PROVE Met(image.mbr.slot[r].start)'
  <2>1. CASE Roots = {} \/ r <= root
    <3>1. r <= root
        BY <2>1, <1>8 DEF Roots, TypeInv, TypeOK, Slots
    <3>2. Met(image.mbr.slot[r].start)
        BY <1>4, <1>8, <3>1 DEF RootsMet
    <3> QED
        BY <1>1, <1>5, <3>2 DEF Met, Pending, SignedAt
  <2>2. CASE Roots # {} /\ ~(r <= root)
    <3>1. root' = NextRoot /\ phase' = "walk" /\ cur' = image.mbr.slot[NextRoot].start
        BY <1>3, <2>2 DEF EnterRoot
    <3>2. NextRoot \in Slots /\ r >= NextRoot
        BY <1>8, <2>2, NextRootType DEF TypeInv, TypeOK
    <3>3. r = NextRoot
        BY <1>8, <3>1, <3>2 DEF Slots
    <3> QED
        BY <1>1, <3>1, <3>3 DEF Met, Pending
  <2> QED
      BY <2>1, <2>2
<1>9. RootsMet'
    BY <1>1, <1>8 DEF RootsMet
<1> QED
    BY <1>6, <1>7, <1>9

LEMMA UnsignedFound ==
    ASSUME TypeInv, Straight, FoundInv, phase = "walk", NEW rec \in Contents, NoSignature(rec)
    PROVE  FoundInv'
<1>1. /\ phase' = "roots" /\ image' = image /\ parts' = parts /\ seen' = seen
      /\ gaveUp' = gaveUp /\ root' = root /\ ~rec.signed
    BY DEF NoSignature, walk, ghosts
<1>2. SUFFICES ASSUME Regular', ~gaveUp' PROVE RootsMet' /\ LinksMet' /\ DataFound'
    BY <1>1 DEF FoundInv
<1>3. Regular /\ RootsMet /\ LinksMet /\ DataFound
    BY <1>1, <1>2, SameImage DEF FoundInv
<1>4. ~SignedAt(cur)
    BY <1>1, <1>3, ParsedOnDisk DEF SignedAt
<1>5. ASSUME NEW at, Met(at) PROVE Met(at)'
    BY <1>1, <1>4, <1>5 DEF Met, Pending, SignedAt, Parsed
<1>6. LinksMet'
    <2> SUFFICES ASSUME NEW v \in seen, v.at \in Sectors, Links(image.records[v.at]) # {} PROVE Met(Target(v))'
        BY <1>1 DEF LinksMet, Links
    <2>1. Met(Target(v))
        BY <1>3 DEF LinksMet
    <2>2. Target(v)' = Target(v)
        BY <1>1 DEF Target, Link, Links
    <2> QED
        BY <1>5, <2>1, <2>2 DEF Met, Pending
<1>7. DataFound'
    BY <1>1, <1>3 DEF DataFound, FoundAt, Elements, Data
<1>8. RootsMet'
    BY <1>1, <1>3, <1>5 DEF RootsMet
<1> QED
    BY <1>6, <1>7, <1>8

\* A scan that ends well on a regular disk has found everything in its chains.
THEOREM NothingMissed == Spec => []FindsAll
<1>1. Init => Straight /\ FoundInv
    BY DEF Init, Straight, FoundInv
<1>2. TypeInv /\ Straight /\ FoundInv /\ [Next]_vars => Straight' /\ FoundInv'
  <2> SUFFICES ASSUME TypeInv, Straight, FoundInv, [Next]_vars PROVE FoundInv'
      BY StepStraight
  <2>1. CASE Fail \/ OutOfTries
      BY <2>1 DEF Fail, OutOfTries, FoundInv
  <2>2. CASE ScanPartitions
    <3>1. CASE phase' = "roots" /\ phase = "idle" /\ UNCHANGED <<image, walk, ghosts>>
      <4>1. root' = 0 /\ seen' = {} /\ phase' = "roots"
          BY <3>1 DEF FoundInv, walk, ghosts
      <4>2. RootsMet'
          BY <4>1 DEF RootsMet, Slots
      <4> QED
          BY <4>1, <4>2 DEF FoundInv, LinksMet, DataFound
    <3>2. CASE Fail
        BY <2>1, <3>2
    <3> QED
        BY <2>2, <3>1, <3>2 DEF ScanPartitions
  <2>3. CASE EnterRoot
      BY <2>3, EnterFound
  <2>4. CASE VisitRecord
      BY <2>4, UnsignedFound, ParseFound DEF VisitRecord
  <2>5. CASE BlkInitialize
      BY <2>5 DEF BlkInitialize, FoundInv
  <2>6. CASE UNCHANGED vars
    <3>1. UNCHANGED <<image, phase, parts, root, cur, seen, gaveUp>>
        BY <2>6 DEF vars, walk, ghosts
    <3>2. Roots' = Roots /\ (Regular' <=> Regular)
        BY <3>1, SameImage DEF Roots
    <3>3. RootsMet => RootsMet'
        BY <3>1 DEF RootsMet, Met, Pending, SignedAt, Parsed
    <3>4. LinksMet => LinksMet'
      <4>1. \A v : Target(v)' = Target(v)
          BY <3>1 DEF Target, Links, Link
      <4>2. \A at : Met(at) => Met(at)'
          BY <3>1 DEF Met, Pending, SignedAt, Parsed
      <4>3. \A v : Met(Target(v)) => Met(Target(v))'
          BY <3>1, <4>1, <4>2 DEF Met, Pending, SignedAt, Parsed
      <4> QED
          BY <3>1, <4>3 DEF LinksMet, Links
    <3>5. DataFound => DataFound'
        BY <3>1 DEF DataFound, Data, FoundAt, Elements
    <3> QED
        BY <3>1, <3>2, <3>3, <3>4, <3>5 DEF FoundInv
  <2> QED
      BY <2>1, <2>2, <2>3, <2>4, <2>5, <2>6 DEF Next, Scan, ReadFails
<1> QED
    BY <1>1, <1>2, FoundMeans, TypeInvariant, PTL DEF Spec

-----------------------------------------------------------------------------
(* What it takes to overrun the array *)

\* A slot more in a set of slots of records: one more if it is one of D.
With(S, at, s, D) == IF s \in D THEN S \cup {<<at, s>>} ELSE S
One(s, D) == IF s \in D THEN 1 ELSE 0

LEMMA WithOne ==
    ASSUME NEW S, IsFiniteSet(S), NEW at, NEW s, NEW D, <<at, s>> \notin S
    PROVE  /\ IsFiniteSet(With(S, at, s, D))
           /\ Cardinality(With(S, at, s, D)) = Cardinality(S) + One(s, D)
           /\ \A t : t # s => (<<at, t>> \in With(S, at, s, D) <=> <<at, t>> \in S)
<1>1. CASE s \in D
    BY <1>1, FS_AddElement DEF With, One
<1>2. CASE s \notin D
    BY <1>2, FS_CardinalityType DEF With, One
<1> QED
    BY <1>1, <1>2

LEMMA WithFour ==
    ASSUME NEW S, IsFiniteSet(S), NEW at, \A s \in Slots : <<at, s>> \notin S,
           NEW D, D \subseteq Slots
    PROVE  /\ IsFiniteSet(S \cup ({at} \X D))
           /\ Cardinality(S \cup ({at} \X D)) =
                 Cardinality(S) + (One(1, D) + One(2, D) + One(3, D) + One(4, D))
<1> DEFINE A == With(S, at, 1, D)
           B == With(A, at, 2, D)
           C == With(B, at, 3, D)
           E == With(C, at, 4, D)
<1>0. Slots = {1, 2, 3, 4} /\ \A s \in Slots : One(s, D) \in Nat
    BY DEF Slots, One
<1>1. /\ IsFiniteSet(A) /\ Cardinality(A) = Cardinality(S) + One(1, D)
      /\ \A s \in {2, 3, 4} : <<at, s>> \notin A
    BY <1>0, WithOne
<1> HIDE DEF A
<1>2. /\ IsFiniteSet(B) /\ Cardinality(B) = Cardinality(A) + One(2, D)
      /\ \A s \in {3, 4} : <<at, s>> \notin B
    BY <1>1, WithOne
<1> HIDE DEF B
<1>3. IsFiniteSet(C) /\ Cardinality(C) = Cardinality(B) + One(3, D) /\ <<at, 4>> \notin C
    BY <1>2, WithOne
<1> HIDE DEF C
<1>4. IsFiniteSet(E) /\ Cardinality(E) = Cardinality(C) + One(4, D)
    BY <1>3, WithOne
<1>5. E = S \cup ({at} \X D)
  <2>1. \A T, s : With(T, at, s, D) = T \cup ({at} \X (D \cap {s}))
      BY DEF With
  <2>2. E = S \cup ({at} \X (D \cap {1})) \cup ({at} \X (D \cap {2}))
              \cup ({at} \X (D \cap {3})) \cup ({at} \X (D \cap {4}))
      BY <2>1 DEF A, B, C, E
  <2>3. D = (D \cap {1}) \cup (D \cap {2}) \cup (D \cap {3}) \cup (D \cap {4})
      BY <1>0
  <2>4. {at} \X D = ({at} \X (D \cap {1})) \cup ({at} \X (D \cap {2}))
                   \cup ({at} \X (D \cap {3})) \cup ({at} \X (D \cap {4}))
      BY <2>3
  <2> QED
      BY <2>2, <2>4
<1> HIDE DEF E
<1>6. Cardinality(S) \in Nat
    BY FS_CardinalityType
<1> QED
    BY <1>0, <1>1, <1>2, <1>3, <1>4, <1>5, <1>6

\* Without a second visit, the array holds the raw disk, the primary
\* partitions, and no more than the data entries of the records parsed.
Most == 1 + Len(Primaries(image.mbr)) + Cardinality(DataEntries)
CountInv ==
    /\ IsFiniteSet(DataEntries)
    /\ phase = "idle" => parts = <<>> /\ seen = {}
    /\ phase # "idle" /\ ~again => phase = "failed" \/ Len(parts) <= Most
    /\ phase = "overrun" => Len(parts) > MaxParts

LEMMA CountMeans == TypeInv /\ CountInv => OverrunExplained
<1> SUFFICES ASSUME TypeInv, CountInv, phase = "overrun", ~again PROVE Most > MaxParts
    BY DEF OverrunExplained, Most
<1>1. Len(parts) \in Nat /\ Len(parts) > MaxParts /\ Len(parts) <= Most
    BY DEF CountInv, TypeInv, TypeOK
<1>2. Cardinality(DataEntries) \in Nat /\ Len(Primaries(image.mbr)) \in Nat
    BY FS_CardinalityType, PrimariesType, ImageType DEF CountInv, TypeInv
<1>3. Most \in Nat
    BY <1>2 DEF Most
<1> QED
    BY <1>1, <1>3, WidthAssumption

LEMMA ParseCount ==
    ASSUME TypeInv, CountInv, phase = "walk", NEW rec \in Contents, Parse(rec)
    PROVE  CountInv'
<1>1. /\ rec \in Record /\ cur \in Words /\ parts \in Seq(Partition)
      /\ cur # Unread => cur \in Sectors /\ rec = image.records[cur]
    BY ContentsType DEF TypeInv, TypeOK
<1>2. image' = image /\ phase' \in {"walk", "roots", "overrun"}
    BY DEF Parse
<1>3. parts' = parts \o Logicals(rec)
    BY DEF Parse
<1>w. PICK w : w = [root |-> root, at |-> cur, size |-> size.sectors]
    OBVIOUS
<1>4. Parsed' = Parsed \cup {cur}
  <2>1. seen' = seen \cup {w} /\ w.at = cur
      BY <1>w DEF Parse
  <2> QED
      BY <2>1 DEF Parsed
<1> DEFINE D == IF cur \in Sectors THEN Data(rec) ELSE Slots
<1>5. D \subseteq Slots /\ KeptSlots(rec) \subseteq D
    BY DEF Data, KeptSlots, Kept
<1>6. DataEntries' = DataEntries \cup ({cur} \X D)
  <2>1. \A x \in {cur} \X Slots :
            (x[1] \in Sectors => x[2] \in Data(image.records[x[1]])) <=> x \in {cur} \X D
    <3>1. cur \in Sectors => image.records[cur] = rec
        BY <1>1, WidthAssumption DEF Sectors, Unread
    <3> QED
        BY <3>1
  <2>2. DataEntries' = {x \in (Parsed \cup {cur}) \X Slots :
                            x[1] \in Sectors => x[2] \in Data(image.records[x[1]])}
      BY <1>2, <1>4 DEF DataEntries, Data
  <2>3. {cur} \X D \subseteq {cur} \X Slots
      BY <1>5
  <2> QED
      BY <2>1, <2>2, <2>3 DEF DataEntries
<1>7. Len(Logicals(rec)) = One(1, KeptSlots(rec)) + One(2, KeptSlots(rec))
                         + One(3, KeptSlots(rec)) + One(4, KeptSlots(rec))
  <2>1. \A s \in Slots : Len(Logical(rec, s)) = One(s, KeptSlots(rec))
      BY DEF Logical, One, KeptSlots
  <2>2. 1 \in Slots /\ 2 \in Slots /\ 3 \in Slots /\ 4 \in Slots
      BY DEF Slots
  <2> QED
      BY <1>1, <2>1, <2>2, LogicalsType
<1>8. \A s \in Slots : One(s, KeptSlots(rec)) \in Nat /\ One(s, D) \in Nat
                        /\ One(s, KeptSlots(rec)) <= One(s, D)
    BY <1>5 DEF One
<1> HIDE DEF D
<1>9. CASE ~again'
  <2>1. ~again /\ \A r \in seen : r.at # cur
      BY <1>9 DEF Parse
  <2>2. \A s \in Slots : <<cur, s>> \notin DataEntries
      BY <2>1 DEF DataEntries, Parsed
  <2>3. /\ IsFiniteSet(DataEntries')
        /\ Cardinality(DataEntries') =
              Cardinality(DataEntries) + (One(1, D) + One(2, D) + One(3, D) + One(4, D))
      BY <1>5, <1>6, <2>2, WithFour DEF CountInv
  <2>4. Len(parts) <= Most /\ Cardinality(DataEntries) \in Nat /\ Len(Primaries(image.mbr)) \in Nat
      BY <2>1, FS_CardinalityType, PrimariesType, ImageType DEF CountInv, TypeInv
  <2>5. Len(Logicals(rec)) <= One(1, D) + One(2, D) + One(3, D) + One(4, D)
      BY <1>7, <1>8 DEF Slots
  <2>6. Len(parts') = Len(parts) + Len(Logicals(rec)) /\ Len(parts) \in Nat /\ Len(Logicals(rec)) \in Nat
      BY <1>1, <1>3, LogicalsType
  <2>7. Most' = 1 + Len(Primaries(image.mbr)) + Cardinality(DataEntries')
      BY <1>2 DEF Most
  <2>8. \A s \in Slots : One(s, D) \in Nat
      BY <1>8
  <2>9. Len(parts') <= Most'
    <3> DEFINE k == One(1, D) + One(2, D) + One(3, D) + One(4, D)
    <3>1. k \in Nat
        BY <2>8 DEF Slots
    <3>2. Cardinality(DataEntries') = Cardinality(DataEntries) + k /\ Len(Logicals(rec)) <= k
        BY <2>3, <2>5
    <3> HIDE DEF k
    <3> QED
        BY <2>4, <2>6, <2>7, <3>1, <3>2 DEF Most
  <2> QED
      BY <1>2, <2>3, <2>9 DEF CountInv, Parse
<1>10. CASE again'
  <2>1. IsFiniteSet(DataEntries')
    <3>1. CASE \A s \in Slots : <<cur, s>> \notin DataEntries
        BY <1>5, <1>6, <3>1, WithFour DEF CountInv
    <3>2. CASE \E s \in Slots : <<cur, s>> \in DataEntries
      <4>1. DataEntries' = DataEntries
        <5>1. cur \in Parsed
            BY <3>2 DEF DataEntries
        <5>2. Parsed' = Parsed
            BY <1>4, <5>1
        <5> QED
            BY <1>2, <5>2 DEF DataEntries, Data
      <4> QED
          BY <4>1 DEF CountInv
    <3> QED
        BY <3>1, <3>2
  <2> QED
      BY <1>2, <1>10, <2>1 DEF CountInv, Parse
<1> QED
    BY <1>9, <1>10

\* However long the chains: the array is overrun by a chain that meets itself,
\* or by more partitions than it has room for.
THEOREM OverrunHasACause == Spec => []OverrunExplained
<1>1. Init => CountInv
  <2> SUFFICES ASSUME Init PROVE CountInv
      OBVIOUS
  <2>1. DataEntries = {}
      BY DEF Init, DataEntries, Parsed
  <2> QED
      BY <2>1, FS_EmptySet DEF Init, CountInv
<1>2. TypeInv /\ CountInv /\ [Next]_vars => CountInv'
  <2> SUFFICES ASSUME TypeInv, CountInv, [Next]_vars PROVE CountInv'
      OBVIOUS
  <2>1. ASSUME image' = image, seen' = seen PROVE DataEntries' = DataEntries /\ Most' = Most
      BY <2>1 DEF DataEntries, Data, Parsed, Most
  <2>2. CASE Fail
      BY <2>1, <2>2 DEF Fail, CountInv, ghosts
  <2>3. CASE ScanPartitions
    <3>1. CASE phase' = "roots" /\ parts' = <<Raw>> \o Primaries(image.mbr)
               /\ UNCHANGED <<image, walk, ghosts>> /\ phase = "idle"
      <4>1. DataEntries = {}
          BY <3>1 DEF CountInv, DataEntries, Parsed
      <4>2. Len(parts') = 1 + Len(Primaries(image.mbr)) /\ Len(Primaries(image.mbr)) \in Nat
          BY <3>1, FirstParts, PrimariesType, ImageType DEF TypeInv
      <4>3. Len(parts') <= Most'
          BY <2>1, <3>1, <4>1, <4>2, FS_EmptySet DEF Most, ghosts
      <4> QED
          BY <2>1, <3>1, <4>3 DEF CountInv, ghosts
    <3> QED
        BY <2>2, <2>3, <3>1 DEF ScanPartitions
  <2>4. CASE EnterRoot
      BY <2>1, <2>4 DEF EnterRoot, CountInv, ghosts
  <2>5. CASE OutOfTries
      BY <2>1, <2>5 DEF OutOfTries, CountInv
  <2>6. CASE VisitRecord
    <3>1. PICK rec \in Contents : NoSignature(rec) \/ Parse(rec)
        BY <2>6 DEF VisitRecord
    <3>2. CASE NoSignature(rec)
        BY <2>1, <2>6, <3>2 DEF VisitRecord, NoSignature, CountInv, ghosts
    <3> QED
        BY <2>6, <3>1, <3>2, ParseCount DEF VisitRecord
  <2>7. CASE BlkInitialize
    <3>1. DataEntries' = {}
        BY <2>7 DEF BlkInitialize, DataEntries, Parsed
    <3> QED
        BY <2>7, <3>1, FS_EmptySet DEF BlkInitialize, CountInv
  <2>8. CASE UNCHANGED vars
      BY <2>1, <2>8 DEF vars, ghosts, CountInv
  <2> QED
      BY <2>2, <2>3, <2>4, <2>5, <2>6, <2>7, <2>8 DEF Next, Scan, ReadFails
<1> QED
    BY <1>1, <1>2, CountMeans, TypeInvariant, PTL DEF Spec

-----------------------------------------------------------------------------
(* How long a scan takes *)

\* The array has room left as long as the scan goes on, and a record adds four
\* partitions at most: what is written behind its end is that many.
RoomInv ==
    /\ phase \in {"roots", "walk"} => Len(parts) \in 1..MaxParts
    /\ Len(parts) <= MaxParts + 4

LEMMA ParseRoom ==
    ASSUME TypeInv, RoomInv, phase = "walk", tries > 0, NEW rec \in Contents, Parse(rec)
    PROVE  /\ Len(parts') = Len(parts) + Len(Logicals(rec))
           /\ Len(Logicals(rec)) \in 0..4 /\ (Logicals(rec) = <<>> <=> Len(Logicals(rec)) = 0)
           /\ RoomInv'
<1>1. /\ parts \in Seq(Partition) /\ Logicals(rec) \in Seq(Partition)
      /\ Len(Logicals(rec)) \in 0..4
  <2>1. cur \in Words /\ rec \in Record /\ parts \in Seq(Partition)
      BY ContentsType DEF TypeInv, TypeOK
  <2>2. \A s \in Slots : Len(Logical(rec, s)) \in {0, 1}
      BY <2>1, LogicalType
  <2> DEFINE a == Len(Logical(rec, 1))
             b == Len(Logical(rec, 2))
             c == Len(Logical(rec, 3))
             d == Len(Logical(rec, 4))
  <2>3. a \in {0, 1} /\ b \in {0, 1} /\ c \in {0, 1} /\ d \in {0, 1}
      BY <2>2 DEF Slots
  <2>4. Logicals(rec) \in Seq(Partition) /\ Len(Logicals(rec)) = a + b + c + d
      BY <2>1, LogicalsType
  <2> HIDE DEF a, b, c, d
  <2>5. a + b + c + d \in 0..4
      BY <2>3
  <2> QED
      BY <2>1, <2>4, <2>5
<1>2. parts' = parts \o Logicals(rec) /\ Len(parts') = Len(parts) + Len(Logicals(rec))
    BY <1>1, ConcatElements DEF Parse
<1>3. Logicals(rec) = <<>> <=> Len(Logicals(rec)) = 0
    BY <1>1
<1>4. Len(parts') > MaxParts => phase' = "overrun"
    BY DEF Parse
<1>5. Len(parts) \in 1..MaxParts /\ MaxParts \in Nat
    BY WidthAssumption DEF RoomInv
<1>6. RoomInv'
  <2>1. Len(parts') \in Nat /\ Len(parts') >= 1 /\ Len(parts') <= MaxParts + 4
    <3> DEFINE x == Len(parts)
               y == Len(Logicals(rec))
               z == Len(parts')
    <3>1. x \in 1..MaxParts /\ y \in 0..4 /\ z = x + y
        BY <1>1, <1>2, <1>5
    <3> HIDE DEF x, y, z
    <3>2. z \in Nat /\ z >= 1 /\ z <= MaxParts + 4
        BY <1>5, <3>1
    <3> QED
        BY <3>2 DEF z
  <2>2. phase' \in {"roots", "walk"} => Len(parts') <= MaxParts
    <3>1. phase' = "overrun" => phase' \notin {"roots", "walk"}
        OBVIOUS
    <3> QED
        BY <1>4, <1>5, <2>1, <3>1
  <2> DEFINE l == Len(parts')
  <2>3. l \in Nat /\ l >= 1 /\ l <= MaxParts + 4 /\ (phase' \in {"roots", "walk"} => l <= MaxParts)
      BY <2>1, <2>2
  <2> HIDE DEF l
  <2>4. phase' \in {"roots", "walk"} => l \in 1..MaxParts
      BY <1>5, <2>3
  <2> QED
      BY <2>3, <2>4 DEF RoomInv, l
<1> QED
    BY <1>1, <1>2, <1>3, <1>6

LEMMA RoomStep == TypeInv /\ RoomInv /\ [Next]_vars => RoomInv'
<1> SUFFICES ASSUME TypeInv, RoomInv, [Next]_vars PROVE RoomInv'
    OBVIOUS
<1>1. CASE parts' = parts /\ (phase' \in {"roots", "walk"} => phase \in {"roots", "walk"})
    BY <1>1 DEF RoomInv
<1>2. CASE ScanPartitions
  <2>1. CASE Fail
      BY <1>1, <2>1 DEF Fail
  <2>2. CASE phase' = "roots" /\ parts' = <<Raw>> \o Primaries(image.mbr)
    <3>1. Len(parts') = 1 + Len(Primaries(image.mbr)) /\ Len(Primaries(image.mbr)) \in 0..4
        BY <2>2, ImageType, FirstParts, PrimariesType DEF TypeInv
    <3> DEFINE l == Len(parts')
               m == Len(Primaries(image.mbr))
    <3>2. l = 1 + m /\ m \in 0..4
        BY <3>1
    <3> HIDE DEF l, m
    <3>3. l \in 1..MaxParts /\ l <= MaxParts + 4
        BY <3>2, WidthAssumption
    <3> QED
        BY <3>3 DEF RoomInv, l
  <2> QED
      BY <1>2, <2>1, <2>2 DEF ScanPartitions
<1>3. CASE EnterRoot
    BY <1>1, <1>3 DEF EnterRoot
<1>4. CASE OutOfTries
    BY <1>1, <1>4 DEF OutOfTries
<1>5. CASE ReadFails
    BY <1>1, <1>5 DEF ReadFails, Fail
<1>6. CASE VisitRecord
  <2>1. PICK rec \in Contents : NoSignature(rec) \/ (rec.signed /\ Parse(rec))
      BY <1>6 DEF VisitRecord
  <2>2. CASE NoSignature(rec)
      BY <1>1, <1>6, <2>2 DEF NoSignature, VisitRecord
  <2> QED
      BY <1>6, <2>1, <2>2, ParseRoom DEF VisitRecord
<1>7. CASE BlkInitialize
  <2>1. Len(<<>>) = 0
      OBVIOUS
  <2> QED
      BY <1>7, <2>1, WidthAssumption DEF BlkInitialize, RoomInv
<1>8. CASE UNCHANGED vars
    BY <1>1, <1>8 DEF vars
<1> QED
    BY <1>2, <1>3, <1>4, <1>5, <1>6, <1>7, <1>8 DEF Next, Scan

\* Nothing is written more than four elements behind the array, the partitions
\* of one record.
THEOREM RoomLeft == Spec => []RoomInv
<1>1. Init => RoomInv
  <2>1. Len(<<>>) = 0
      OBVIOUS
  <2> QED
      BY <2>1, WidthAssumption DEF Init, RoomInv
<1> QED
    BY <1>1, RoomStep, TypeInvariant, PTL DEF Spec

\* The rounds one chain can take: every record that leaves the counter of tries
\* to run down is followed by at most Tries more, and every record that sets it
\* back takes room.  Rank is what is left of all of it.
Turns == MaxParts * (Tries + 1) + Tries + 2
Rank ==
    CASE phase = "idle" -> 4 * Turns + 2
      [] phase = "roots" -> (4 - root) * Turns + 1
      [] phase = "walk" -> (4 - root) * Turns + 2 + (MaxParts - Len(parts)) * (Tries + 1) + tries
      [] OTHER -> 0

LEMMA Times ==
    ASSUME NEW a \in Nat, NEW b \in Nat, NEW c \in Nat
    PROVE  /\ a * c \in Nat /\ (a < b => a * c + c <= b * c) /\ (a <= b => a * c <= b * c)
<1>1. a * c \in Nat /\ b * c \in Nat
    OBVIOUS
<1>2. ASSUME a <= b PROVE a * c <= b * c
  <2>1. b - a \in Nat /\ b = a + (b - a)
      BY <1>2
  <2>2. (a + (b - a)) * c = a * c + (b - a) * c
      BY <2>1
  <2>3. (b - a) * c \in Nat
      BY <2>1
  <2> DEFINE x == a * c
             y == b * c
             z == (b - a) * c
  <2>4. x \in Nat /\ z \in Nat /\ y = x + z
      BY <1>1, <2>1, <2>2, <2>3
  <2> HIDE DEF x, y, z
  <2>5. x <= y
      BY <2>4
  <2> QED
      BY <2>5 DEF x, y
<1>3. ASSUME a < b PROVE a * c + c <= b * c
  <2>1. b - a - 1 \in Nat /\ b = a + 1 + (b - a - 1)
      BY <1>3
  <2>2. (a + 1 + (b - a - 1)) * c = a * c + c + (b - a - 1) * c
      BY <2>1
  <2>3. (b - a - 1) * c \in Nat
      BY <2>1
  <2> DEFINE x == a * c
             y == b * c
             z == (b - a - 1) * c
  <2>4. x \in Nat /\ z \in Nat /\ y = x + c + z
      BY <1>1, <2>1, <2>2, <2>3
  <2> HIDE DEF x, y, z
  <2>5. x + c <= y
      BY <2>4
  <2> QED
      BY <2>5 DEF x, y
<1> QED
    BY <1>1, <1>2, <1>3

LEMMA TurnsType ==
    /\ Turns \in Nat /\ Tries + 1 \in Nat /\ MaxParts \in Nat
    /\ MaxParts * (Tries + 1) \in Nat /\ Turns = MaxParts * (Tries + 1) + Tries + 2
    BY WidthAssumption, Times DEF Turns

\* What is left of a walk is less than the turns of its root.
LEMMA WalkRank ==
    ASSUME NEW r \in 0..4, NEW l \in 1..MaxParts, NEW t \in 0..Tries
    PROVE  /\ (MaxParts - l) * (Tries + 1) \in Nat
           /\ (4 - r) * Turns \in Nat
           /\ 2 + (MaxParts - l) * (Tries + 1) + t <= Turns
<1>1. MaxParts - l \in Nat /\ MaxParts - l <= MaxParts /\ 4 - r \in Nat
    BY TurnsType
<1>2. /\ (MaxParts - l) * (Tries + 1) \in Nat /\ (4 - r) * Turns \in Nat
      /\ (MaxParts - l) * (Tries + 1) <= MaxParts * (Tries + 1)
    BY <1>1, TurnsType, Times
<1> DEFINE x == (MaxParts - l) * (Tries + 1)
           y == MaxParts * (Tries + 1)
<1>3. x \in Nat /\ y \in Nat /\ x <= y /\ Turns = y + Tries + 2
    BY <1>2, TurnsType
<1> HIDE DEF x, y
<1>4. 2 + x + t <= Turns
    BY <1>3, WidthAssumption
<1> QED
    BY <1>2, <1>4 DEF x

LEMMA RankType == ASSUME TypeInv, RoomInv PROVE Rank \in Nat
<1>1. root \in 0..4 /\ tries \in 0..Tries /\ 4 * Turns + 2 \in Nat
      /\ phase \in {"idle", "roots", "walk", "done", "failed", "overrun"}
    BY TurnsType DEF TypeInv, TypeOK
<1>2. CASE phase \in {"roots", "walk"}
  <2>1. Len(parts) \in 1..MaxParts
      BY <1>2 DEF RoomInv
  <2>2. (4 - root) * Turns \in Nat /\ (MaxParts - Len(parts)) * (Tries + 1) \in Nat
      BY <1>1, <2>1, WalkRank
  <2>3. /\ (4 - root) * Turns + 1 \in Nat
        /\ (4 - root) * Turns + 2 + (MaxParts - Len(parts)) * (Tries + 1) + tries \in Nat
      BY <1>1, <2>2
  <2> QED
      BY <1>2, <2>3 DEF Rank
<1> QED
    BY <1>1, <1>2 DEF Rank

\* A record that is parsed and followed takes room or a try.
LEMMA ParseRank ==
    ASSUME TypeInv, RoomInv, phase = "walk", tries > 0, NEW rec \in Contents, Parse(rec)
    PROVE  Rank' < Rank
<1>1. /\ root \in 0..4 /\ tries \in 0..Tries /\ Len(parts) \in 1..MaxParts
      /\ (4 - root) * Turns \in Nat /\ (MaxParts - Len(parts)) * (Tries + 1) \in Nat
    BY WalkRank DEF TypeInv, TypeOK, RoomInv
<1>2. Rank = (4 - root) * Turns + 2 + (MaxParts - Len(parts)) * (Tries + 1) + tries
    BY DEF Rank
<1>3. CASE phase' = "overrun"
    BY <1>1, <1>2, <1>3 DEF Rank
<1>4. CASE phase' = "roots" /\ root' = root
    BY <1>1, <1>2, <1>4 DEF Rank
<1>5. CASE phase' = "walk" /\ root' = root
  <2>1. /\ Len(parts') = Len(parts) + Len(Logicals(rec)) /\ Len(Logicals(rec)) \in 0..4
        /\ (Logicals(rec) = <<>> <=> Len(Logicals(rec)) = 0)
        /\ Len(parts') \in 1..MaxParts /\ tries' = TriesLeft(Logicals(rec))
    <3>1. Len(parts') \in 1..MaxParts
        BY <1>5, ParseRoom DEF RoomInv
    <3> QED
        BY <3>1, ParseRoom DEF Parse
  <2>2. Rank' = (4 - root) * Turns + 2 + (MaxParts - Len(parts')) * (Tries + 1) + tries'
      BY <1>5 DEF Rank
  <2>3. CASE Logicals(rec) = <<>>
    <3>1. Len(parts') = Len(parts) /\ tries' = tries - 1
        BY <1>1, <2>1, <2>3 DEF TriesLeft
    <3> QED
        BY <1>1, <1>2, <2>2, <3>1
  <2>4. CASE Logicals(rec) # <<>>
    <3>1. Len(parts') > Len(parts) /\ tries' = Tries
        BY <1>1, <2>1, <2>4 DEF TriesLeft
    <3>2. MaxParts - Len(parts') \in Nat /\ MaxParts - Len(parts) \in Nat
          /\ MaxParts - Len(parts') < MaxParts - Len(parts)
        BY <1>1, <2>1, <3>1, TurnsType
    <3>3. /\ (MaxParts - Len(parts')) * (Tries + 1) \in Nat
          /\ (MaxParts - Len(parts')) * (Tries + 1) + (Tries + 1) <= (MaxParts - Len(parts)) * (Tries + 1)
        BY <3>2, TurnsType, Times
    <3> DEFINE x == (MaxParts - Len(parts')) * (Tries + 1)
               y == (MaxParts - Len(parts)) * (Tries + 1)
               z == (4 - root) * Turns
    <3>4. /\ x \in Nat /\ y \in Nat /\ z \in Nat /\ x + (Tries + 1) <= y
          /\ Rank = z + 2 + y + tries /\ Rank' = z + 2 + x + tries'
        BY <1>1, <1>2, <2>2, <3>3
    <3> HIDE DEF x, y, z
    <3> QED
        BY <1>1, <3>1, <3>4, WidthAssumption
  <2> QED
      BY <2>3, <2>4
<1> QED
    BY <1>3, <1>4, <1>5 DEF Parse

LEMMA EnterRank == ASSUME TypeInv, RoomInv, EnterRoot PROVE Rank' < Rank
<1>1. /\ phase = "roots" /\ root \in 0..4 /\ Len(parts) \in 1..MaxParts
      /\ Rank = (4 - root) * Turns + 1 /\ (4 - root) * Turns \in Nat
    BY WalkRank, WidthAssumption DEF EnterRoot, TypeInv, TypeOK, RoomInv, Rank
<1>2. CASE phase' \in {"done", "failed"}
    BY <1>1, <1>2 DEF Rank
<1>3. CASE Roots # {} /\ phase' = "walk"
  <2>1. /\ phase' = "walk" /\ root' = NextRoot /\ tries' = Tries /\ parts' = parts
        /\ NextRoot \in Slots /\ NextRoot > root
      BY <1>1, <1>3, NextRootType DEF EnterRoot
  <2>2. root' \in 0..4 /\ Tries \in 0..Tries /\ 4 - root' \in Nat /\ 4 - root \in Nat
        /\ 4 - root' < 4 - root
      BY <1>1, <2>1, WidthAssumption DEF Slots
  <2>3. /\ (MaxParts - Len(parts)) * (Tries + 1) \in Nat /\ (4 - root') * Turns \in Nat
        /\ 2 + (MaxParts - Len(parts)) * (Tries + 1) + Tries <= Turns
      BY <1>1, <2>2, WalkRank
  <2>4. (4 - root') * Turns + Turns <= (4 - root) * Turns
      BY <2>2, TurnsType, Times
  <2>5. Rank' = (4 - root') * Turns + 2 + (MaxParts - Len(parts)) * (Tries + 1) + Tries
      BY <2>1 DEF Rank
  <2> DEFINE x == (MaxParts - Len(parts)) * (Tries + 1)
             y == (4 - root') * Turns
             z == (4 - root) * Turns
  <2>6. /\ x \in Nat /\ y \in Nat /\ z \in Nat /\ 2 + x + Tries <= Turns /\ y + Turns <= z
        /\ Rank = z + 1 /\ Rank' = y + 2 + x + Tries
      BY <1>1, <2>3, <2>4, <2>5
  <2> HIDE DEF x, y, z
  <2> QED
      BY <2>6, TurnsType, WidthAssumption
<1> QED
    BY <1>2, <1>3 DEF EnterRoot

\* Every step of a scan leaves less of it, whatever the disk holds: it ends
\* after as many as Rank says at its start, chains that lead back included
\* (partscan.c 112-113, 174).
ScanShortens == [][Scan => Rank' \in Nat /\ Rank' < Rank]_vars
THEOREM ScanIsBounded == Spec => ScanShortens
<1>1. TypeInv /\ RoomInv /\ Scan => Rank' < Rank
  <2> SUFFICES ASSUME TypeInv, RoomInv, Scan PROVE Rank' < Rank
      OBVIOUS
  <2>1. Rank \in Nat /\ root \in 0..4 /\ tries \in 0..Tries
      BY RankType DEF TypeInv, TypeOK
  <2>2. phase \in {"idle", "roots", "walk"} => Rank > 0
    <3>1. CASE phase = "idle"
        BY <3>1, TurnsType DEF Rank
    <3>2. CASE phase \in {"roots", "walk"}
      <4>1. Len(parts) \in 1..MaxParts
          BY <3>2 DEF RoomInv
      <4>2. (4 - root) * Turns \in Nat /\ (MaxParts - Len(parts)) * (Tries + 1) \in Nat
          BY <2>1, <4>1, WalkRank
      <4> QED
          BY <2>1, <3>2, <4>2 DEF Rank
    <3> QED
        BY <3>1, <3>2
  <2>3. phase' \in {"done", "failed", "overrun"} => Rank' = 0
      BY DEF Rank
  <2>4. CASE ScanPartitions
    <3>1. CASE Fail
        BY <2>2, <2>3, <2>4, <3>1 DEF Fail, ScanPartitions
    <3>2. CASE phase' = "roots" /\ UNCHANGED walk
      <4>1. Rank' = (4 - root) * Turns + 1 /\ Rank = 4 * Turns + 2
          BY <2>4, <3>2 DEF Rank, walk, ScanPartitions
      <4>2. 4 - root \in Nat /\ 4 - root <= 4
          BY <2>1
      <4>3. (4 - root) * Turns \in Nat /\ (4 - root) * Turns <= 4 * Turns /\ 4 * Turns \in Nat
          BY <4>2, TurnsType, Times
      <4> DEFINE x == (4 - root) * Turns
                 y == 4 * Turns
      <4>4. x \in Nat /\ y \in Nat /\ x <= y /\ Rank' = x + 1 /\ Rank = y + 2
          BY <4>1, <4>3
      <4> HIDE DEF x, y
      <4> QED
          BY <4>4
    <3> QED
        BY <2>4, <3>1, <3>2 DEF ScanPartitions
  <2>5. CASE phase = "walk" /\ phase' = "roots" /\ root' = root
    <3>1. Len(parts) \in 1..MaxParts
        BY <2>5 DEF RoomInv
    <3>2. (4 - root) * Turns \in Nat /\ (MaxParts - Len(parts)) * (Tries + 1) \in Nat
        BY <2>1, <3>1, WalkRank
    <3>3. /\ Rank = (4 - root) * Turns + 2 + (MaxParts - Len(parts)) * (Tries + 1) + tries
          /\ Rank' = (4 - root) * Turns + 1
        BY <2>5 DEF Rank
    <3> QED
        BY <2>1, <3>2, <3>3
  <2>6. CASE OutOfTries
      BY <2>5, <2>6 DEF OutOfTries, walk
  <2>7. CASE ReadFails
      BY <2>2, <2>3, <2>7 DEF ReadFails, Fail
  <2>8. CASE VisitRecord
    <3>1. PICK rec \in Contents : NoSignature(rec) \/ (rec.signed /\ Parse(rec))
        BY <2>8 DEF VisitRecord
    <3>2. CASE NoSignature(rec)
        BY <2>5, <2>8, <3>2 DEF NoSignature, VisitRecord, walk
    <3> QED
        BY <2>8, <3>1, <3>2, ParseRank DEF VisitRecord
  <2> QED
      BY <2>4, <2>6, <2>7, <2>8, EnterRank DEF Scan
<1>2. TypeInv /\ RoomInv => Rank \in Nat
    BY RankType
<1>3. (Rank \in Nat)' /\ Rank' < Rank => Rank' \in Nat /\ Rank' < Rank
    OBVIOUS
<1>4. [Next]_vars /\ TypeInv /\ RoomInv /\ (Rank \in Nat)'
      => [Scan => Rank' \in Nat /\ Rank' < Rank]_vars
    BY <1>1, <1>3
<1> QED
    BY <1>2, <1>4, TypeInvariant, RoomLeft, PTL DEF Spec, ScanShortens

-----------------------------------------------------------------------------
(* What BlkDev takes for the scan *)

\* An array of BlkDev: there a partition is told by its slot in sector 0, and a
\* logical one has none.
Cached(p) ==
    [code |-> p.code, start |-> p.start, num |-> p.num,
     mbr_num |-> IF p.logical THEN 0 ELSE p.logical_num]
CachedArray(s) == [k \in DOMAIN s |-> Cached(s[k])]
Table ==
    [sig |-> image.mbr.sig,
     slot |-> [s \in Slots |-> [code |-> image.mbr.slot[s].code, active |-> FALSE,
                                start |-> image.mbr.slot[s].start, num |-> image.mbr.slot[s].num]]]
AnyLogicals == Seq([code: Codes \cup {"hw"}, start: Nat, num: Nat, mbr_num: {0}])
Block == INSTANCE BlkDev WITH
    BootBlocks <- UserBlocks, Lbas <- {}, MaxCount <- 1, UpdatedParts <- {}, NewCodes <- {},
    Mbrs <- {}, DataSectors <- {}, LogicalTables <- AnyLogicals, Garbage <- {},
    sector0 <- [d \in {0, 1} |-> Table], card <- TRUE, selected <- 0, disks <- <<>>,
    cmd <- <<>>, bootRet <- "none", stray <- FALSE

\* The raw disk and the primary partitions, then logical ones: and those only
\* behind an extended entry of a table with a signature.
Behind(tail) ==
    /\ parts = (<<Raw>> \o Primaries(image.mbr)) \o tail
    /\ \A k \in DOMAIN tail : tail[k].logical
    /\ tail # <<>> => \E s \in Slots : Extended(image.mbr.slot[s])
TailInv ==
    phase \in {"roots", "walk", "done"} =>
        image.mbr.sig # "none" /\ \E tail \in Seq(Partition) : Behind(tail)

LEMMA TailStep == TypeInv /\ TailInv /\ [Next]_vars => TailInv'
<1> SUFFICES ASSUME TypeInv, TailInv, [Next]_vars PROVE TailInv'
    OBVIOUS
<1>1. CASE UNCHANGED <<image, parts>> /\ (phase' \in {"roots", "walk", "done"} => phase \in {"roots", "walk", "done"})
    BY <1>1 DEF TailInv, Behind
<1>2. CASE ScanPartitions
  <2>1. CASE Fail
      BY <2>1 DEF Fail, TailInv
  <2>2. CASE /\ image.mbr.sig # "none" /\ parts' = <<Raw>> \o Primaries(image.mbr)
             /\ image' = image
    <3>1. <<Raw>> \o Primaries(image.mbr) \in Seq(Partition)
        BY ImageType, FirstParts DEF TypeInv
    <3>2. (<<Raw>> \o Primaries(image.mbr)) \o <<>> = <<Raw>> \o Primaries(image.mbr)
        BY <3>1, ConcatEmptySeq
    <3>3. <<>> \in Seq(Partition) /\ DOMAIN <<>> = {}
        OBVIOUS
    <3>4. Behind(<<>>)'
        BY <2>2, <3>2, <3>3 DEF Behind
    <3> QED
        BY <2>2, <3>3, <3>4 DEF TailInv
  <2> QED
      BY <1>2, <2>1, <2>2 DEF ScanPartitions
<1>3. CASE EnterRoot
    BY <1>1, <1>3 DEF EnterRoot
<1>4. CASE OutOfTries
    BY <1>1, <1>4 DEF OutOfTries
<1>5. CASE ReadFails
    BY <1>5 DEF ReadFails, Fail, TailInv
<1>6. CASE VisitRecord
  <2>1. PICK rec \in Contents : NoSignature(rec) \/ (rec.signed /\ Parse(rec))
      BY <1>6 DEF VisitRecord
  <2>2. CASE NoSignature(rec)
      BY <1>1, <1>6, <2>2 DEF NoSignature, VisitRecord
  <2>3. CASE Parse(rec)
    <3> DEFINE more == Logicals(rec)
               first == <<Raw>> \o Primaries(image.mbr)
    <3>1. PICK tail \in Seq(Partition) : Behind(tail)
        BY <1>6 DEF VisitRecord, TailInv
    <3>2. /\ image.mbr.sig # "none" /\ image' = image /\ parts' = parts \o more
          /\ \E s \in Slots : Extended(image.mbr.slot[s])
        BY <1>6, <2>3 DEF VisitRecord, TailInv, Parse, TypeInv, WalkInv
    <3>3. /\ more \in Seq(Partition) /\ \A x \in Elements(more) : x.logical
          /\ first \in Seq(Partition)
      <4>1. cur \in Words /\ rec \in Record
          BY ContentsType DEF TypeInv, TypeOK
      <4>2. \A s \in Slots : StoredOf(rec, s).logical
          BY DEF StoredOf, Stored
      <4>3. \A x \in Elements(more) : x.logical
          BY <4>1, <4>2, LogicalsType DEF KeptSlots
      <4> QED
          BY <4>1, <4>3, LogicalsType, ImageType, FirstParts DEF TypeInv
    <3> HIDE DEF more, first
    <3>4. tail \o more \in Seq(Partition) /\ Elements(tail \o more) = Elements(tail) \cup Elements(more)
        BY <3>3, ConcatElements
    <3>5. \A k \in DOMAIN (tail \o more) : (tail \o more)[k].logical
        BY <3>1, <3>3, <3>4 DEF Behind, Elements
    <3>6. (first \o tail) \o more = first \o (tail \o more)
        BY <3>3, ConcatAssociative
    <3>7. parts = first \o tail
        BY <3>1 DEF Behind, first
    <3>8. PICK all \in Seq(Partition) : all = tail \o more
        BY <3>4
    <3>9. parts' = first \o all /\ \A k \in DOMAIN all : all[k].logical
        BY <3>2, <3>5, <3>6, <3>7, <3>8
    <3>10. Behind(all)'
        BY <3>2, <3>9 DEF Behind, first
    <3> QED
        BY <3>2, <3>8, <3>10 DEF TailInv
  <2> QED
      BY <2>1, <2>2, <2>3
<1>7. CASE BlkInitialize
    BY <1>7 DEF BlkInitialize, TailInv
<1>8. CASE UNCHANGED vars
    BY <1>1, <1>8 DEF vars
<1> QED
    BY <1>2, <1>3, <1>4, <1>5, <1>6, <1>7, <1>8 DEF Next, Scan

\* The array that is cached is put together as its parts are.
LEMMA CachedType ==
    ASSUME NEW s \in Seq(Partition)
    PROVE  /\ CachedArray(s) \in Seq([code: Codes \cup {"hw"}, start: Nat, num: Nat, mbr_num: 0..4])
           /\ Len(CachedArray(s)) = Len(s)
           /\ \A k \in 1..Len(s) : CachedArray(s)[k] = Cached(s[k])
<1>1. \A k \in 1..Len(s) : Cached(s[k]) \in [code: Codes \cup {"hw"}, start: Nat, num: Nat, mbr_num: 0..4]
  <2> SUFFICES ASSUME NEW k \in 1..Len(s)
               PROVE  Cached(s[k]) \in [code: Codes \cup {"hw"}, start: Nat, num: Nat, mbr_num: 0..4]
      OBVIOUS
  <2>1. s[k] \in Partition
      OBVIOUS
  <2>2. /\ s[k].code \in Codes \cup {"hw"} /\ s[k].start \in Nat /\ s[k].num \in Nat
        /\ s[k].logical_num \in 0..4
      BY <2>1 DEF Partition, Words
  <2> QED
      BY <2>2 DEF Cached
<1>2. DOMAIN s = 1..Len(s) /\ Len(s) \in Nat
    OBVIOUS
<1> HIDE DEF Cached
<1>3. CachedArray(s) = [k \in 1..Len(s) |-> Cached(s[k])]
    BY <1>2 DEF CachedArray
<1> QED
    BY <1>1, <1>2, <1>3

LEMMA CachedConcat ==
    ASSUME NEW a \in Seq(Partition), NEW b \in Seq(Partition)
    PROVE  CachedArray(a \o b) = CachedArray(a) \o CachedArray(b)
<1> DEFINE S == [code: Codes \cup {"hw"}, start: Nat, num: Nat, mbr_num: 0..4]
           x == CachedArray(a)
           y == CachedArray(b)
           z == CachedArray(a \o b)
<1>1. a \o b \in Seq(Partition) /\ Len(a \o b) = Len(a) + Len(b)
    BY ConcatElements
<1>2. /\ x \in Seq(S) /\ Len(x) = Len(a) /\ \A k \in 1..Len(a) : x[k] = Cached(a[k])
      /\ y \in Seq(S) /\ Len(y) = Len(b) /\ \A k \in 1..Len(b) : y[k] = Cached(b[k])
      /\ z \in Seq(S) /\ Len(z) = Len(a) + Len(b)
      /\ \A k \in 1..Len(a) + Len(b) : z[k] = Cached((a \o b)[k])
    BY <1>1, CachedType
<1> HIDE DEF S, x, y, z
<1>3. x \o y \in Seq(S) /\ Len(x \o y) = Len(a) + Len(b)
  <2>1. x \in Seq(S) /\ y \in Seq(S) /\ Len(x) = Len(a) /\ Len(y) = Len(b)
      BY <1>2
  <2>2. x \o y \in Seq(S) /\ Len(x \o y) = Len(x) + Len(y)
      BY <2>1, ConcatProperties
  <2> QED
      BY <2>1, <2>2
<1>4. ASSUME NEW k \in 1..Len(a) + Len(b) PROVE z[k] = (x \o y)[k]
  <2>1. (x \o y)[k] = IF k <= Len(x) THEN x[k] ELSE y[k - Len(x)]
      BY <1>2, ConcatProperties
  <2>2. (a \o b)[k] = IF k <= Len(a) THEN a[k] ELSE b[k - Len(a)]
      BY ConcatProperties
  <2>3. Len(a) \in Nat /\ Len(b) \in Nat
      OBVIOUS
  <2>4. CASE k <= Len(a)
      BY <1>2, <2>1, <2>2, <2>3, <2>4
  <2>5. CASE ~(k <= Len(a))
    <3>1. k - Len(a) \in 1..Len(b)
        BY <2>3, <2>5
    <3> QED
        BY <1>2, <2>1, <2>2, <2>5, <3>1
  <2> QED
      BY <2>4, <2>5
<1>5. z = x \o y
    BY <1>2, <1>3, <1>4, SeqEqual
<1> QED
    BY <1>5 DEF x, y, z

LEMMA CachedEnds ==
    /\ CachedArray(<<>>) = <<>>
    /\ \A x : CachedArray(<<x>>) = <<Cached(x)>>
    BY DEF CachedArray

\* Both modules keep the same slots, in the same order.
LEMMA CachedFound ==
    ASSUME TypeOK, NEW s \in Slots
    PROVE  CachedArray(Primary(image.mbr, s)) = Block!Found(Table, s)
<1> DEFINE e == image.mbr.slot[s]
<1>1. /\ Table.slot[s].code = e.code /\ Table.slot[s].start = e.start /\ Table.slot[s].num = e.num
    BY DEF Table
<1>2. Block!Kept(Table.slot[s]) <=> ~Extended(e) /\ e.start + e.num <= UserBlocks /\ e.num > 0
    BY <1>1 DEF Block!Kept, Extended
<1>3. Cached(Stored(e, e.start, s, FALSE)) = [code |-> e.code, start |-> e.start, num |-> e.num, mbr_num |-> s]
    BY DEF Cached, Stored
<1> QED
    BY <1>1, <1>2, <1>3, CachedEnds DEF Primary, Block!Found

LEMMA CachedPrimaries ==
    ASSUME TypeOK
    PROVE  CachedArray(Primaries(image.mbr)) = Block!Primaries(Table)
<1> DEFINE p(s) == Primary(image.mbr, s)
<1>1. 1 \in Slots /\ 2 \in Slots /\ 3 \in Slots /\ 4 \in Slots
    BY DEF Slots
<1>2. p(1) \in Seq(Partition) /\ p(2) \in Seq(Partition) /\ p(3) \in Seq(Partition) /\ p(4) \in Seq(Partition)
    BY <1>1, ImageType, PrimaryType
<1>3. /\ CachedArray(p(1)) = Block!Found(Table, 1) /\ CachedArray(p(2)) = Block!Found(Table, 2)
      /\ CachedArray(p(3)) = Block!Found(Table, 3) /\ CachedArray(p(4)) = Block!Found(Table, 4)
    BY <1>1, CachedFound
<1> HIDE DEF p
<1>4. p(1) \o p(2) \in Seq(Partition) /\ (p(1) \o p(2)) \o p(3) \in Seq(Partition)
  <2>1. p(1) \o p(2) \in Seq(Partition)
      BY <1>2, ConcatElements
  <2> QED
      BY <1>2, <2>1, ConcatElements
<1>5. CachedArray(p(1) \o p(2)) = CachedArray(p(1)) \o CachedArray(p(2))
    BY <1>2, CachedConcat
<1>6. CachedArray((p(1) \o p(2)) \o p(3)) = CachedArray(p(1) \o p(2)) \o CachedArray(p(3))
    BY <1>2, <1>4, CachedConcat
<1>7. CachedArray(((p(1) \o p(2)) \o p(3)) \o p(4)) = CachedArray((p(1) \o p(2)) \o p(3)) \o CachedArray(p(4))
    BY <1>2, <1>4, CachedConcat
<1> QED
    BY <1>3, <1>5, <1>6, <1>7 DEF Primaries, Block!Primaries, p

\* What BlkDev takes for the result of a scan is what the scan results in, for
\* every disk: the raw disk, the primary partitions it keeps in the order of
\* their slots, and logical ones only behind an extended entry.
ScanAsTaken ==
    phase = "done" => /\ Table.sig # "none"
                      /\ CachedArray(parts) \in Block!ScanPartitions(Table)
THEOREM ScanIsTaken == Spec => []ScanAsTaken
<1>1. Init => TailInv
    BY DEF Init, TailInv
<1>2. TypeInv /\ TailInv => ScanAsTaken
  <2> SUFFICES ASSUME TypeInv, TailInv, phase = "done" PROVE ScanAsTaken
      BY DEF ScanAsTaken
  <2>1. PICK tail \in Seq(Partition) : Behind(tail)
      BY DEF TailInv
  <2>2. TypeOK /\ Table.sig # "none"
      BY DEF TypeInv, TailInv, Table
  <2>3. Raw \in Partition /\ <<Raw>> \in Seq(Partition)
      BY WidthAssumption DEF Raw, Partition, Words
  <2>4. Primaries(image.mbr) \in Seq(Partition) /\ <<Raw>> \o Primaries(image.mbr) \in Seq(Partition)
      BY <2>2, ImageType, PrimariesType, FirstParts
  <2>5. CachedArray(parts) = CachedArray(<<Raw>>) \o CachedArray(Primaries(image.mbr)) \o CachedArray(tail)
      BY <2>1, <2>3, <2>4, CachedConcat DEF Behind
  <2>6. CachedArray(<<Raw>>) = <<Block!Raw(Block!User)>>
      BY CachedEnds DEF Cached, Raw, Block!Raw, Block!User
  <2>7. CachedArray(Primaries(image.mbr)) = Block!Primaries(Table)
      BY <2>2, CachedPrimaries
  <2>8. CachedArray(tail) \in AnyLogicals
    <3> DEFINE S == [code: Codes \cup {"hw"}, start: Nat, num: Nat, mbr_num: {0}]
    <3>1. \A k \in DOMAIN tail : Cached(tail[k]) \in S
      <4> SUFFICES ASSUME NEW k \in DOMAIN tail PROVE Cached(tail[k]) \in S
          OBVIOUS
      <4>1. tail[k] \in Partition /\ tail[k].logical
          BY <2>1 DEF Behind
      <4> QED
          BY <4>1 DEF Cached, Partition, Words
    <3>2. DOMAIN tail = 1..Len(tail) /\ Len(tail) \in Nat
        OBVIOUS
    <3> HIDE DEF S
    <3>3. [k \in 1..Len(tail) |-> Cached(tail[k])] \in Seq(S)
        BY <3>1, <3>2
    <3> QED
        BY <3>2, <3>3 DEF CachedArray, AnyLogicals, S
  <2>9. CASE Block!HasExtended(Table)
      BY <2>2, <2>5, <2>6, <2>7, <2>8, <2>9 DEF ScanAsTaken, Block!ScanPartitions
  <2>10. CASE ~Block!HasExtended(Table)
    <3>1. tail = <<>>
      <4>1. \A s \in Slots : ~Extended(image.mbr.slot[s])
          BY <2>10 DEF Block!HasExtended, Block!Slots, Slots, Table, Extended
      <4> QED
          BY <2>1, <4>1 DEF Behind
    <3> QED
        BY <2>2, <2>5, <2>6, <2>7, <2>10, <3>1, CachedEnds DEF ScanAsTaken, Block!ScanPartitions
  <2> QED
      BY <2>9, <2>10
<1> QED
    BY <1>1, <1>2, TailStep, TypeInvariant, PTL DEF Spec
=============================================================================
