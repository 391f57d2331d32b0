---------------------------- MODULE BlkDevProofs ----------------------------
(* Theorems about the block layer, for every size of the areas, every table *)
(* and every sequence of calls, failed commands and power cycles.           *)
EXTENDS BlkDev, SequenceTheorems, TLAPS

-----------------------------------------------------------------------------
(* The table scan *)

\* What blk_priv_scan_partitions returns is a sequence of partition records
\* whose primary entries are those of the scanned sector.
LEMMA FoundType ==
    ASSUME NEW s0 \in Sector0, NEW s \in Slots
    PROVE  /\ Found(s0, s) \in Seq(Partition)
           /\ \A i \in DOMAIN Found(s0, s) :
                 LET p == Found(s0, s)[i] IN
                 p.mbr_num = s /\ p.start = s0.slot[s].start /\ p.num = s0.slot[s].num
<1>1. /\ s0.slot[s] \in Entry
      /\ s \in 0..4
    BY DEF Sector0, Slots
<1> DEFINE p == [code |-> s0.slot[s].code, start |-> s0.slot[s].start,
                 num |-> s0.slot[s].num, mbr_num |-> s]
<1>2. p \in Partition
    BY <1>1 DEF Entry, Partition
<1>3. CASE Found(s0, s) = <<>>
    BY <1>3
<1>4. CASE Found(s0, s) = <<p>>
  <2>1. \A i \in DOMAIN Found(s0, s) : Found(s0, s)[i] = p
      BY <1>4
  <2>2. Found(s0, s) \in Seq(Partition)
      BY <1>2, <1>4
  <2> QED
      BY <2>1, <2>2
<1> QED
    BY <1>3, <1>4 DEF Found

\* The primary entries of an array are at the places sector s0 gives them.
Placed(parts, s0) ==
    \A i \in DOMAIN parts :
        parts[i].mbr_num # 0 =>
            /\ parts[i].start = s0.slot[parts[i].mbr_num].start
            /\ parts[i].num = s0.slot[parts[i].mbr_num].num

\* Joining two arrays whose primary entries are those of the sector keeps that.
LEMMA PlacedConcat ==
    ASSUME NEW s0, NEW a \in Seq(Partition), NEW b \in Seq(Partition),
           Placed(a, s0), Placed(b, s0)
    PROVE  a \o b \in Seq(Partition) /\ Placed(a \o b, s0)
<1>1. a \o b \in Seq(Partition)
    OBVIOUS
<1>2. ASSUME NEW i \in DOMAIN (a \o b)
      PROVE  \/ i \in DOMAIN a /\ (a \o b)[i] = a[i]
             \/ i - Len(a) \in DOMAIN b /\ (a \o b)[i] = b[i - Len(a)]
    OBVIOUS
<1> QED
    BY <1>1, <1>2 DEF Placed

\* Every array a scan can produce starts with the raw area and has the sector's
\* primary entries.
LEMMA ScanType ==
    ASSUME NEW s0 \in Sector0, NEW parts \in ScanPartitions(s0)
    PROVE  /\ parts \in Seq(Partition) /\ Placed(parts, s0)
           /\ Len(parts) >= 1 /\ parts[1] = Raw(User)
<1>1. PICK tail \in LogicalTables \cup {<<>>} :
          parts = <<Raw(User)>> \o Primaries(s0) \o tail
    BY DEF ScanPartitions
<1>2. \A s \in Slots : Found(s0, s) \in Seq(Partition) /\ Placed(Found(s0, s), s0)
    BY FoundType DEF Placed
<1>3. Primaries(s0) \in Seq(Partition) /\ Placed(Primaries(s0), s0)
  <2> DEFINE f1 == Found(s0, 1)
             f2 == Found(s0, 2)
             f3 == Found(s0, 3)
             f4 == Found(s0, 4)
             f12 == f1 \o f2
             f123 == f12 \o f3
             f1234 == f123 \o f4
  <2>1. /\ f1 \in Seq(Partition) /\ Placed(f1, s0)
        /\ f2 \in Seq(Partition) /\ Placed(f2, s0)
        /\ f3 \in Seq(Partition) /\ Placed(f3, s0)
        /\ f4 \in Seq(Partition) /\ Placed(f4, s0)
      BY <1>2 DEF Slots
  <2>2. Primaries(s0) = f1234
      BY DEF Primaries
  <2> HIDE DEF f1, f2, f3, f4
  <2>3. f12 \in Seq(Partition) /\ Placed(f12, s0)
      BY <2>1, PlacedConcat
  <2> HIDE DEF f12
  <2>4. f123 \in Seq(Partition) /\ Placed(f123, s0)
      BY <2>1, <2>3, PlacedConcat
  <2> HIDE DEF f123
  <2>5. f1234 \in Seq(Partition) /\ Placed(f1234, s0)
      BY <2>1, <2>4, PlacedConcat
  <2> QED
      BY <2>2, <2>5
<1>4. <<Raw(User)>> \in Seq(Partition) /\ Placed(<<Raw(User)>>, s0)
    BY SizeAssumption DEF Raw, Partition, Placed, User
<1>5. tail \in Seq(Partition) /\ Placed(tail, s0)
  <2>1. CASE tail = <<>>
      BY <2>1 DEF Placed
  <2>2. CASE tail \in LogicalTables
      BY <2>2, TableAssumption DEF Placed
  <2> QED
      BY <1>1, <2>1, <2>2
<1> QED
  <2> DEFINE raw == <<Raw(User)>>
             prim == Primaries(s0)
             head == raw \o prim
  <2> HIDE DEF raw, prim
  <2>1. head \in Seq(Partition) /\ Placed(head, s0)
      BY <1>3, <1>4, PlacedConcat DEF raw, prim
  <2>3. Len(head) >= 1 /\ head[1] = Raw(User)
      BY <1>3, <1>4 DEF raw, prim
  <2> HIDE DEF head
  <2>4. head \o tail = parts
      BY <1>1 DEF head, raw, prim
  <2>5. Len(head \o tail) >= 1 /\ (head \o tail)[1] = Raw(User)
      BY <1>5, <2>1, <2>3
  <2>2. head \o tail \in Seq(Partition) /\ Placed(head \o tail, s0)
      BY <1>5, <2>1, PlacedConcat
  <2> QED
      BY <2>2, <2>4, <2>5

-----------------------------------------------------------------------------
(* Type correctness *)

\* The sectors 0 are tables, the one a read of sector 0 returns among them.
LEMMA SectorTypes ==
    TypeOK => mbr \in Sector0 /\ SeenSector0 \in Sector0
BY DEF TypeOK, mbr, SeenSector0, Disks, User

\* A data command built by blk_read or blk_write is a command record.
LEMMA CommandType ==
    ASSUME TypeOK, NEW dev \in Handles, NEW lba \in Nat, NEW count \in Nat,
           NEW part \in Partition, NEW listed \in BOOLEAN
    PROVE  Command(dev, lba, count, part, listed) \in Cmds
<1>1. AreaOf(dev) \in Disks
    BY DEF TypeOK, AreaOf, Disks
<1>2. DiscLba(part, lba) \in Nat
    BY SizeAssumption DEF DiscLba, Partition
<1> QED
    BY <1>1, <1>2 DEF Command, Cmds

\* What &parts[ipart] reads, inside the array or behind it, is a partition record.
LEMMA PartitionsAtType ==
    ASSUME TypeOK, NEW dev \in Handles
    PROVE  PartitionsAt(dev) \subseteq Partition
<1>1. disks[dev.disk].parts \in Seq(Partition) /\ dev.part \in Nat
    BY DEF TypeOK, Handles
<1>2. CASE Listed(dev)
    BY <1>1, <1>2 DEF Listed, PartitionsAt
<1>3. CASE ~Listed(dev)
    BY <1>3, TableAssumption DEF PartitionsAt
<1> QED
    BY <1>2, <1>3

\* The variables an access may change, and to what.
LEMMA AccessType ==
    ASSUME TypeOK, NEW dev \in Handles, NEW lba \in Lbas, NEW count \in 1..MaxCount,
           NEW contents \in SUBSET Sector0, Access(dev, lba, count, contents),
           stray' \in BOOLEAN
    PROVE  TypeOK'
<1>1. AreaOf(dev) \in Disks /\ selected \in Disks /\ Boot1 \in Disks /\ User \in Disks
    BY DEF TypeOK, AreaOf, Disks
<1>2. ASSUME NEW ret \in {"ok"} \cup BootErrors, NEW area \in Disks, Return(dev, ret, area)
      PROVE  /\ selected' \in Disks
             /\ bootRet' \in {"none", "ok"} \cup BootErrors
    BY <1>2 DEF Return, TypeOK
<1>3. ASSUME Finish(dev)
      PROVE  /\ selected' \in Disks
             /\ bootRet' \in {"none", "ok"} \cup BootErrors
    BY <1>1, <1>2, <1>3 DEF Finish, BootErrors
<1>4. lba \in Nat /\ count \in Nat
    BY SizeAssumption
<1>5. \A part \in PartitionsAt(dev) :
          Command(dev, lba, count, part, Listed(dev)) \in Cmds
  <2>1. PartitionsAt(dev) \subseteq Partition
      BY PartitionsAtType
  <2>2. Listed(dev) \in BOOLEAN
      BY DEF Listed
  <2> QED
      BY <1>4, <2>1, <2>2, CommandType
<1>6. /\ selected' \in Disks
      /\ bootRet' \in {"none", "ok"} \cup BootErrors
      /\ cmd' \in Cmds \cup {NoCmd}
  <2>1. CASE Transfer(dev, lba, count, contents)
      BY <1>1, <1>2, <1>3, <1>5, <2>1 DEF Transfer, TypeOK, BootErrors
  <2>2. CASE \E ret \in BootErrors, area \in Disks : Return(dev, ret, area) /\ UNCHANGED cmd
      BY <1>1, <1>2, <2>2 DEF TypeOK
  <2> QED
      BY <1>1, <2>1, <2>2 DEF Access, BootErrors
<1>7. sector0' \in [Disks -> Sector0]
  <2>1. sector0 \in [Disks -> Sector0]
      BY DEF TypeOK
  <2>2. ASSUME NEW area \in Disks, NEW at, LeavesInSector0(area, at, contents)
        PROVE  sector0' \in [Disks -> Sector0]
      BY <2>1, <2>2 DEF LeavesInSector0
  <2> QED
      BY <1>1, <2>1, <2>2 DEF Access, Transfer
<1> QED
    BY <1>6, <1>7 DEF Access, TypeOK

\* The read of sector 0 is a command record.
LEMMA Sector0CommandType == TypeOK => Sector0Command \in Cmds
<1>1. Raw(User) \in Partition
    BY SizeAssumption DEF Raw, Partition, User
<1>2. Sector0Handle \in Handles
    BY DEF Sector0Handle, Handles, Disks
<1> QED
    BY <1>1, <1>2, CommandType DEF Sector0Command

\* blk_initialize keeps the types, whether the scan succeeds or fails.
LEMMA InitializeType == TypeOK /\ BlkInitialize => TypeOK'
<1> SUFFICES ASSUME TypeOK, BlkInitialize PROVE TypeOK'
    OBVIOUS
<1>1. cmd' \in Cmds \cup {NoCmd}
    BY Sector0CommandType DEF BlkInitialize, TypeOK
<1>2. \A d \in Disks : Raw(d) \in Partition
    BY SizeAssumption DEF Raw, Partition
<1>3. SeenSector0 \in Sector0
    BY SectorTypes
<1>4. disks' \in [Disks -> [parts: Seq(Partition), n: Nat, hw: BOOLEAN]]
  <2>1. CASE disks' = [disks EXCEPT ![User] = Unprobed]
    <3>1. <<>> \in Seq(Partition)
        OBVIOUS
    <3>2. Unprobed \in [parts: Seq(Partition), n: Nat, hw: BOOLEAN]
        BY <3>1 DEF Unprobed
    <3> QED
        BY <2>1, <3>2 DEF TypeOK
  <2>2. CASE ScanFailed
      BY <1>2, <2>2 DEF ScanFailed, TypeOK, Disks
  <2>3. CASE ScanSucceeded
    <3>1. PICK parts \in ScanPartitions(SeenSector0) :
             disks' = [d \in Disks |->
                         IF d = User THEN [parts |-> parts, n |-> Len(parts), hw |-> TRUE]
                         ELSE [parts |-> <<Raw(Boot1)>>, n |-> 0, hw |-> TRUE]]
        BY <2>3 DEF ScanSucceeded
    <3>2. parts \in Seq(Partition) /\ Len(parts) \in Nat
        BY <1>3, ScanType
    <3>3. <<Raw(Boot1)>> \in Seq(Partition)
        BY <1>2 DEF Disks
    <3> QED
        BY <3>1, <3>2, <3>3
  <2> QED
      BY <2>1, <2>2, <2>3 DEF BlkInitialize
<1> QED
    BY <1>1, <1>4 DEF BlkInitialize, TypeOK

\* Table u differs from table s0 at most in the code and the flag of slot part.
DiffersInSlot(u, s0, part) ==
    \A s \in Slots :
        /\ u.slot[s].start = s0.slot[s].start
        /\ u.slot[s].num = s0.slot[s].num
        /\ s # part => u.slot[s] = s0.slot[s]

\* Writing a code or a flag into slot `part` of a table gives a table whose
\* places are the old ones and whose other slots are untouched.
LEMMA UpdatedTable ==
    ASSUME NEW s0 \in Sector0, NEW part \in Slots, NEW u,
           \/ \E code \in NewCodes : u = [s0 EXCEPT !.slot[part].code = code]
           \/ \E bootable \in BOOLEAN : u = [s0 EXCEPT !.slot[part].active = bootable]
    PROVE  u \in Sector0 /\ DiffersInSlot(u, s0, part)
<1>1. s0.slot \in [Slots -> Entry] /\ s0.slot[part] \in Entry /\ s0.sig \in {"both", "one", "none"}
    BY DEF Sector0
<1>2. ASSUME NEW e \in Entry, e.start = s0.slot[part].start, e.num = s0.slot[part].num,
             u = [s0 EXCEPT !.slot[part] = e]
      PROVE  u \in Sector0 /\ DiffersInSlot(u, s0, part)
  <2>1. u.slot = [s0.slot EXCEPT ![part] = e]
      BY <1>2 DEF Sector0
  <2>2. u \in Sector0
      BY <1>1, <1>2 DEF Sector0
  <2> QED
      BY <1>1, <1>2, <2>1, <2>2 DEF DiffersInSlot
<1>3. ASSUME NEW code \in NewCodes, u = [s0 EXCEPT !.slot[part].code = code]
      PROVE  \E e \in Entry : /\ e.start = s0.slot[part].start /\ e.num = s0.slot[part].num
                              /\ u = [s0 EXCEPT !.slot[part] = e]
  <2> DEFINE e == [s0.slot[part] EXCEPT !.code = code]
  <2>1. e \in Entry /\ e.start = s0.slot[part].start /\ e.num = s0.slot[part].num
      BY <1>1, TableAssumption DEF Entry
  <2>2. u = [s0 EXCEPT !.slot[part] = e]
      BY <1>1, <1>3 DEF Sector0
  <2> QED
      BY <2>1, <2>2
<1>4. ASSUME NEW bootable \in BOOLEAN, u = [s0 EXCEPT !.slot[part].active = bootable]
      PROVE  \E e \in Entry : /\ e.start = s0.slot[part].start /\ e.num = s0.slot[part].num
                              /\ u = [s0 EXCEPT !.slot[part] = e]
  <2> DEFINE e == [s0.slot[part] EXCEPT !.active = bootable]
  <2>1. e \in Entry /\ e.start = s0.slot[part].start /\ e.num = s0.slot[part].num
      BY <1>1 DEF Entry
  <2>2. u = [s0 EXCEPT !.slot[part] = e]
      BY <1>1, <1>4 DEF Sector0
  <2> QED
      BY <2>1, <2>2
<1> QED
    BY <1>2, <1>3, <1>4

\* What the two table updates do to the sectors 0: nothing, or the selected
\* area's becomes the updated one.
LEMMA UpdateEffect ==
    ASSUME TypeOK, NEW part \in UpdatedParts, Updates(part)
    PROVE  \/ sector0' = sector0
           \/ \E u \in Sector0 : /\ sector0' = [sector0 EXCEPT ![selected] = u]
                                 /\ DiffersInSlot(u, SeenSector0, part)
<1>1. part \in Slots
    BY SizeAssumption
<1>2. SeenSector0 \in Sector0
    BY SectorTypes
<1>3. CASE \E code \in NewCodes : MbrSetPartitionType(part, code)
  <2>1. PICK code \in NewCodes :
            \/ sector0' = sector0
            \/ sector0' = [sector0 EXCEPT ![selected] = [SeenSector0 EXCEPT !.slot[part].code = code]]
      BY <1>3 DEF MbrSetPartitionType, UpdateSector0, SlotOf
  <2> DEFINE u == [SeenSector0 EXCEPT !.slot[part].code = code]
  <2>2. u \in Sector0 /\ DiffersInSlot(u, SeenSector0, part)
    <3>1. \E code2 \in NewCodes : u = [SeenSector0 EXCEPT !.slot[part].code = code2]
        BY <2>1
    <3> QED
        BY <1>1, <1>2, <3>1, UpdatedTable
  <2>3. sector0' = sector0 \/ sector0' = [sector0 EXCEPT ![selected] = u]
      BY <2>1
  <2> HIDE DEF u
  <2> QED
      BY <2>2, <2>3
<1>4. CASE \E bootable \in BOOLEAN : MbrSetPartitionBootFlag(part, bootable)
  <2>1. PICK bootable \in BOOLEAN :
            \/ sector0' = sector0
            \/ sector0' = [sector0 EXCEPT ![selected] = [SeenSector0 EXCEPT !.slot[part].active = bootable]]
      BY <1>4 DEF MbrSetPartitionBootFlag, UpdateSector0, SlotOf
  <2> DEFINE u == [SeenSector0 EXCEPT !.slot[part].active = bootable]
  <2>2. u \in Sector0 /\ DiffersInSlot(u, SeenSector0, part)
    <3>1. \E bootable2 \in BOOLEAN : u = [SeenSector0 EXCEPT !.slot[part].active = bootable2]
        BY <2>1
    <3> QED
        BY <1>1, <1>2, <3>1, UpdatedTable
  <2>3. sector0' = sector0 \/ sector0' = [sector0 EXCEPT ![selected] = u]
      BY <2>1
  <2> HIDE DEF u
  <2> QED
      BY <2>2, <2>3
<1> QED
    BY <1>3, <1>4 DEF Updates

\* An update of partition k changes the code and the flag of slot k of the
\* partition table at most.
LEMMA UpdateTouchesItsSlot ==
    ASSUME TypeOK, NEW k \in UpdatedParts, Updates(k)
    PROVE  DiffersInSlot(mbr', mbr, k)
<1>1. CASE sector0' = sector0
    BY <1>1 DEF mbr, DiffersInSlot
<1>2. ASSUME NEW u \in Sector0, sector0' = [sector0 EXCEPT ![selected] = u],
             DiffersInSlot(u, SeenSector0, k)
      PROVE  DiffersInSlot(mbr', mbr, k)
  <2>1. User \in Disks /\ DOMAIN sector0 = Disks
      BY DEF TypeOK, Disks
  <2>2. CASE selected = User
    <3>1. mbr' = u /\ SeenSector0 = mbr
        BY <1>2, <2>1, <2>2 DEF mbr, SeenSector0
    <3> QED
        BY <1>2, <3>1
  <2>3. CASE selected # User
    <3>1. mbr' = mbr
        BY <1>2, <2>1, <2>3 DEF mbr
    <3> QED
        BY <3>1 DEF DiffersInSlot
  <2> QED
      BY <2>2, <2>3
<1> QED
    BY <1>1, <1>2, UpdateEffect

\* The two table updates keep the types.
LEMMA UpdateType ==
    ASSUME TypeOK, NEW part \in UpdatedParts, Updates(part)
    PROVE  TypeOK'
<1>1. cmd' \in Cmds \cup {NoCmd}
    BY Sector0CommandType
       DEF Updates, MbrSetPartitionType, MbrSetPartitionBootFlag, UpdateSector0
<1>2. sector0' \in [Disks -> Sector0]
    BY UpdateEffect DEF TypeOK
<1> QED
    BY <1>1, <1>2 DEF Updates, MbrSetPartitionType, MbrSetPartitionBootFlag, TypeOK

\* Every state of the block layer is well typed: in particular the cached
\* array always holds partition records, whatever table was scanned and
\* whichever scans failed.
THEOREM TypeCorrect == Spec => []TypeOK
<1> Unprobed \in [parts: Seq(Partition), n: Nat, hw: BOOLEAN]
    BY DEF Unprobed
<1> User \in Disks
    BY DEF Disks
<1>1. Init => TypeOK
    BY TableAssumption DEF Init, TypeOK
<1>2. TypeOK /\ [Next]_vars => TypeOK'
  <2> SUFFICES ASSUME TypeOK, [Next]_vars PROVE TypeOK'
      OBVIOUS
  <2>1. CASE BlkInitialize
      BY <2>1, InitializeType
  <2>2. CASE PowerCycle
      BY <2>2 DEF PowerCycle, TypeOK
  <2>3. ASSUME NEW dev \in Handles, NEW lba \in Lbas, NEW count \in 1..MaxCount,
               BlkRead(dev, lba, count) \/ BlkWrite(dev, lba, count)
        PROVE  TypeOK'
    <3>1. stray' \in BOOLEAN
        BY <2>3 DEF BlkRead, BlkWrite, TypeOK
    <3>2. \E contents \in SUBSET Sector0 : Access(dev, lba, count, contents)
        BY <2>3, TableAssumption DEF BlkRead, BlkWrite
    <3> QED
        BY <3>1, <3>2, AccessType
  <2>4. ASSUME NEW part \in UpdatedParts, Updates(part)
        PROVE  TypeOK'
      BY <2>4, UpdateType
  <2>5. CASE UNCHANGED vars
      BY <2>5 DEF vars, TypeOK
  <2> QED
      BY <2>1, <2>2, <2>3, <2>4, <2>5 DEF Next, Updates
<1> QED
    BY <1>1, <1>2, PTL DEF Spec

-----------------------------------------------------------------------------
(* Routing *)

\* How an access leaves the selection and what it returns.
LEMMA AccessRoutes ==
    ASSUME TypeOK, SelectionInv, MisroutedOnlyAfterBootError,
           NEW dev \in Handles, NEW lba \in Lbas, NEW count \in 1..MaxCount,
           NEW contents, Access(dev, lba, count, contents)
    PROVE  SelectionInv' /\ MisroutedOnlyAfterBootError'
<1> USE DEF SelectionInv, MisroutedOnlyAfterBootError, BootErrors
<1>1. dev.disk = User \/ dev.disk = Boot1
    BY DEF Handles, Disks
<1>2. ASSUME NEW part, cmd' = Command(dev, lba, count, part, Listed(dev))
      PROVE  cmd'.area = AreaOf(dev) /\ cmd'.dev = dev
    BY <1>2 DEF Command
<1>3. CASE dev.disk = User
  <2>1. AreaOf(dev) = selected
      BY <1>3 DEF AreaOf, User, Boot1
  <2>2. selected' = selected /\ bootRet' = bootRet
      BY <1>3, <2>1 DEF Access, Transfer, Finish, Return, User, Boot1
  <2>3. cmd' = cmd \/ (cmd'.area = selected /\ cmd'.dev = dev)
      BY <1>2, <2>1 DEF Access, Transfer
  <2>4. selected = User \/ selected = Boot1
      BY DEF TypeOK, Disks
  <2> QED
      BY <1>3, <2>2, <2>3, <2>4
<1>4. CASE dev.disk = Boot1
  <2>1. AreaOf(dev) = Boot1
      BY <1>4 DEF AreaOf
  <2>2. \/ bootRet' \in {"EIO", "ERANGE", "ENXIO"}
        \/ bootRet' = "ok" /\ selected' = User
      BY <1>4 DEF Access, Transfer, Finish, Return
  <2>3. \/ bootRet' \in {"EIO", "ERANGE", "ENXIO"}
        \/ cmd'.area = Boot1 /\ cmd'.dev = dev
      BY <1>2, <1>4, <2>1 DEF Access, Transfer, Finish, Return
  <2> QED
      BY <1>4, <2>2, <2>3 DEF User, Boot1
<1> QED
    BY <1>1, <1>3, <1>4

\* A command on sector 0 never leaves the card on another area than it found.
LEMMA Sector0Routes ==
    ASSUME TypeOK, SelectionInv, selected' = selected, bootRet' = bootRet,
           cmd' = Sector0Command
    PROVE  SelectionInv' /\ MisroutedOnlyAfterBootError'
<1>1. cmd'.area = selected /\ cmd'.dev.disk = User
    BY DEF Sector0Command, Command, AreaOf, Sector0Handle, User, Boot1
<1>2. selected = User \/ selected = Boot1
    BY DEF TypeOK, Disks
<1> QED
    BY <1>1, <1>2 DEF SelectionInv, MisroutedOnlyAfterBootError

RoutingInv == SelectionInv /\ MisroutedOnlyAfterBootError

\* For every sequence of calls on both disks, with any of their card commands
\* failing: the card is left on the boot area, and a command is sent to an
\* area its caller did not address, only while the last access to the boot
\* area is one that returned an error.
THEOREM Routing == Spec => []RoutingInv
<1> USE DEF RoutingInv
<1>1. Init => RoutingInv
    BY DEF Init, SelectionInv, MisroutedOnlyAfterBootError, User, Boot1
<1>2. TypeOK /\ RoutingInv /\ [Next]_vars => RoutingInv'
  <2> SUFFICES ASSUME TypeOK, RoutingInv, [Next]_vars PROVE RoutingInv'
      OBVIOUS
  <2>1. CASE BlkInitialize
    <3>1. selected' = selected /\ bootRet' = bootRet
        BY <2>1 DEF BlkInitialize
    <3>2. CASE cmd' = Sector0Command
        BY <3>1, <3>2, Sector0Routes
    <3>3. CASE cmd' = cmd
        BY <3>1, <3>3 DEF SelectionInv, MisroutedOnlyAfterBootError
    <3> QED
        BY <2>1, <3>2, <3>3 DEF BlkInitialize
  <2>2. CASE PowerCycle
      BY <2>2 DEF PowerCycle, SelectionInv, MisroutedOnlyAfterBootError, User, Boot1
  <2>3. ASSUME NEW dev \in Handles, NEW lba \in Lbas, NEW count \in 1..MaxCount,
               BlkRead(dev, lba, count) \/ BlkWrite(dev, lba, count)
        PROVE  RoutingInv'
      BY <2>3, AccessRoutes DEF BlkRead, BlkWrite
  <2>4. ASSUME NEW part \in UpdatedParts,
               \/ \E code \in NewCodes : MbrSetPartitionType(part, code)
               \/ \E bootable \in BOOLEAN : MbrSetPartitionBootFlag(part, bootable)
        PROVE  RoutingInv'
    <3>1. selected' = selected /\ bootRet' = bootRet /\ cmd' = Sector0Command
        BY <2>4 DEF MbrSetPartitionType, MbrSetPartitionBootFlag, UpdateSector0
    <3> QED
        BY <3>1, Sector0Routes
  <2>5. CASE UNCHANGED vars
      BY <2>5 DEF vars, SelectionInv, MisroutedOnlyAfterBootError
  <2> QED
      BY <2>1, <2>2, <2>3, <2>4, <2>5 DEF Next
<1> QED
    BY <1>1, <1>2, TypeCorrect, PTL DEF Spec

\* The card is left on the boot area only while the last access to it is one
\* that returned an error.
THEOREM SelectionCorrect == Spec => []SelectionInv
<1>1. RoutingInv => SelectionInv
    BY DEF RoutingInv
<1> QED
    BY <1>1, Routing, PTL

\* With no error on the boot area in between, every command of every sequence
\* of calls on both disks reaches the area its caller addressed.
THEOREM RoutedAfterSuccess == Spec => []MisroutedOnlyAfterBootError
<1>1. RoutingInv => MisroutedOnlyAfterBootError
    BY DEF RoutingInv
<1> QED
    BY <1>1, Routing, PTL

-----------------------------------------------------------------------------
(* The cached table *)

\* How a (re-)initialisation leaves the arrays.
LEMMA InitializeTables ==
    ASSUME TypeOK, BlkInitialize
    PROVE  /\ \/ disks'[User] = Unprobed /\ disks'[Boot1] = disks[Boot1]
              \/ /\ disks'[User].parts = <<Raw(User)>> /\ disks'[User].n = 0
                 /\ disks'[Boot1] = disks[Boot1]
              \/ /\ disks'[User].parts \in ScanPartitions(SeenSector0)
                 /\ disks'[User].n = Len(disks'[User].parts)
                 /\ disks'[Boot1].parts = <<Raw(Boot1)>> /\ disks'[Boot1].n = 0
<1>1. CASE disks' = [disks EXCEPT ![User] = Unprobed]
    BY <1>1 DEF TypeOK, Disks, User, Boot1
<1>2. CASE ScanFailed
    BY <1>2 DEF ScanFailed, TypeOK, Disks, User, Boot1
<1>3. CASE ScanSucceeded
    BY <1>3 DEF ScanSucceeded, Disks, User, Boot1
<1> QED
    BY <1>1, <1>2, <1>3 DEF BlkInitialize

\* Steps other than a (re-)initialisation keep the arrays or clear them all.
LEMMA OtherTables ==
    ASSUME TypeOK, [Next]_vars, ~BlkInitialize
    PROVE  disks' = disks \/ disks' = [d \in Disks |-> Unprobed]
BY DEF Next, PowerCycle, BlkRead, BlkWrite, Access, MbrSetPartitionType,
       MbrSetPartitionBootFlag, vars

\* For every table and every sequence of successful and failed scans, each
\* partition number that n_parts counts has an element in the cached array.
THEOREM Counted == Spec => []CountedPartsExist
<1>1. Init => CountedPartsExist
    BY DEF Init, CountedPartsExist, Unprobed
<1>2. TypeOK /\ CountedPartsExist /\ [Next]_vars => CountedPartsExist'
  <2> SUFFICES ASSUME TypeOK, CountedPartsExist, [Next]_vars PROVE CountedPartsExist'
      OBVIOUS
  <2>1. CASE BlkInitialize
    <3>1. 0 <= Len(<<Raw(User)>>) /\ 0 <= Len(<<Raw(Boot1)>>)
        OBVIOUS
    <3>3. \A parts \in ScanPartitions(SeenSector0) : Len(parts) <= Len(parts)
        BY ScanType, SectorTypes
    <3>4. disks'[User].n <= Len(disks'[User].parts)
        BY <2>1, <3>1, <3>3, InitializeTables DEF Unprobed
    <3>5. disks'[Boot1].n <= Len(disks'[Boot1].parts)
        BY <2>1, <3>1, InitializeTables DEF CountedPartsExist, Disks
    <3> QED
        BY <3>4, <3>5 DEF CountedPartsExist, Disks
  <2>2. CASE ~BlkInitialize
      BY <2>2, OtherTables DEF CountedPartsExist, Unprobed
  <2> QED
      BY <2>1, <2>2
<1> QED
    BY <1>1, <1>2, TypeCorrect, PTL DEF Spec

\* A block number below the word size does not wrap.
LEMMA NoWrap == ASSUME NEW x \in Nat, x < WordSize PROVE x % WordSize = x
BY SizeAssumption

\* A proper write to the user disk sends no command at sector 0: the
\* partition starts behind it and the block numbers do not wrap.
LEMMA ProperAvoidsSector0 ==
    ASSUME TypeOK, NEW dev \in Handles, NEW lba \in Lbas, NEW count \in 1..MaxCount,
           Proper(dev, lba, count), NEW part \in PartitionsAt(dev),
           ~OutOfRange(part, lba, count)
    PROVE  DiscLba(part, lba) # 0
<1>1. /\ part \in Partition /\ part.start > 0
      /\ part.start + part.num <= UserBlocks /\ lba + count < WordSize
    BY PartitionsAtType DEF Proper, PartitionsAt
<1>2. part.start \in Nat /\ part.num \in Nat /\ lba \in Nat /\ count \in Nat
    BY <1>1, SizeAssumption DEF Partition
<1>3. lba + count <= part.num
  <2>1. (lba + count) % WordSize = lba + count
      BY <1>1, <1>2, NoWrap
  <2> QED
      BY <1>2, <2>1 DEF OutOfRange
<1>4. DiscLba(part, lba) = lba + part.start
  <2>1. lba + part.start < WordSize
      BY <1>1, <1>2, <1>3, SizeAssumption
  <2> QED
      BY <1>2, <2>1, NoWrap DEF DiscLba
<1> QED
    BY <1>1, <1>2, <1>4

\* While no write has been stray, a call that is no scan keeps the places of
\* the table: updates write code and flag only, accesses to the boot area go
\* there, and those to the user disk miss sector 0.
LEMMA CallsKeepPlaces ==
    ASSUME TypeOK, [Next]_vars, ~BlkInitialize, ~stray', NEW s \in Slots
    PROVE  mbr'.slot[s].start = mbr.slot[s].start /\ mbr'.slot[s].num = mbr.slot[s].num
<1>1. CASE sector0' = sector0
    BY <1>1 DEF mbr
<1>2. ASSUME NEW part \in UpdatedParts, Updates(part)
      PROVE  mbr'.slot[s].start = mbr.slot[s].start /\ mbr'.slot[s].num = mbr.slot[s].num
  <2>1. DiffersInSlot(mbr', mbr, part)
      BY <1>2, UpdateTouchesItsSlot
  <2> QED
      BY <2>1 DEF DiffersInSlot
<1>3. ASSUME NEW dev \in Handles, NEW lba \in Lbas, NEW count \in 1..MaxCount,
             BlkWrite(dev, lba, count)
      PROVE  mbr' = mbr
  <2>1. CASE dev.disk = User
    <3>1. Proper(dev, lba, count)
        BY <1>3, <2>1 DEF BlkWrite, TypeOK
    <3> QED
        BY <1>3, <3>1, ProperAvoidsSector0
           DEF BlkWrite, Access, Transfer, LeavesInSector0, mbr
  <2>2. CASE dev.disk # User
    <3>1. AreaOf(dev) = Boot1
        BY <2>2 DEF AreaOf, Handles, Disks
    <3> QED
        BY <1>3, <3>1
           DEF BlkWrite, Access, Transfer, LeavesInSector0, mbr, TypeOK, Disks, User, Boot1
  <2> QED
      BY <2>1, <2>2
<1>4. \/ sector0' = sector0
      \/ \E dev \in Handles, lba \in Lbas, count \in 1..MaxCount : BlkWrite(dev, lba, count)
      \/ \E part \in UpdatedParts : Updates(part)
  <2>1. ASSUME NEW dev \in Handles, NEW lba \in Lbas, NEW count \in 1..MaxCount,
               BlkRead(dev, lba, count)
        PROVE  sector0' = sector0
      BY <2>1 DEF BlkRead, Access, Transfer, LeavesInSector0
  <2> QED
      BY <2>1 DEF Next, PowerCycle, vars, Updates
<1> QED
    BY <1>1, <1>2, <1>3, <1>4

\* GeometryCoherent in the form the lemmas on arrays have.
LEMMA GeometryIsPlaced == GeometryCoherent <=> (~stray => Placed(disks[User].parts, mbr))
BY DEF GeometryCoherent, Placed

\* For every table and every data that is written to either area, the cached
\* place of every primary partition stays the one in sector 0 through any
\* sequence of calls and failures, as long as the table was scanned in the
\* user area and every write to the user disk since is a proper one.
THEOREM Geometry == Spec => []GeometryCoherent
<1>1. Init => GeometryCoherent
    BY DEF Init, GeometryCoherent, Unprobed, Disks
<1>2. TypeOK /\ GeometryCoherent /\ [Next]_vars => GeometryCoherent'
  <2> SUFFICES ASSUME TypeOK, GeometryCoherent, [Next]_vars, ~stray'
               PROVE  Placed(disks'[User].parts, mbr')
      BY DEF GeometryCoherent, Placed
  <2>1. CASE BlkInitialize
    <3>1. mbr' = mbr /\ SeenSector0 = mbr
        BY <2>1 DEF BlkInitialize, SeenSector0, mbr
    <3>2. CASE disks'[User].parts = <<Raw(User)>> \/ disks'[User].parts = <<>>
        BY <3>2 DEF Placed, Raw
    <3>3. CASE disks'[User].parts \in ScanPartitions(mbr)
        BY <3>1, <3>3, ScanType, SectorTypes
    <3> QED
        BY <2>1, <3>1, <3>2, <3>3, InitializeTables DEF Unprobed
  <2>2. CASE ~BlkInitialize
    <3>1. CASE disks' = disks /\ ~stray
      <4>1. ASSUME NEW i \in DOMAIN disks[User].parts, disks[User].parts[i].mbr_num # 0
            PROVE  disks[User].parts[i].mbr_num \in Slots
        <5>1. disks[User].parts \in Seq(Partition)
            BY DEF TypeOK, Disks
        <5>2. disks[User].parts[i] \in Partition
            BY <4>1, <5>1
        <5> QED
            BY <4>1, <5>2 DEF Partition, Slots
      <4> QED
          BY <2>2, <3>1, <4>1, CallsKeepPlaces, GeometryIsPlaced DEF Placed
    <3>2. CASE disks' = [d \in Disks |-> Unprobed]
        BY <3>2 DEF Placed, Unprobed, Disks
    <3>3. (disks' = disks /\ (stray => stray')) \/ disks' = [d \in Disks |-> Unprobed]
        BY <2>2 DEF Next, PowerCycle, BlkRead, BlkWrite, Access, MbrSetPartitionType,
                    MbrSetPartitionBootFlag, vars
    <3> QED
        BY <3>1, <3>2, <3>3
  <2> QED
      BY <2>1, <2>2
<1> QED
    BY <1>1, <1>2, TypeCorrect, PTL DEF Spec

-----------------------------------------------------------------------------
(* Commands stay inside their partition *)

\* Nothing is sent to a card that did not answer at boot.
CardInv ==
    /\ cmd # NoCmd => card
    /\ \A d \in Disks : disks[d].hw => card

CommandInv == CardInv /\ InsidePartition

\* part_lba_to_disc_lba: an accepted block range lies in the partition.
LEMMA AcceptedRange ==
    ASSUME NEW part \in Partition, NEW lba \in Nat, NEW count \in Nat,
           NEW blocks \in Nat, blocks < WordSize, lba + count < WordSize,
           part.start + part.num <= blocks, ~OutOfRange(part, lba, count)
    PROVE  /\ part.start <= DiscLba(part, lba)
           /\ DiscLba(part, lba) + count <= part.start + part.num
<1>1. part.start \in Nat /\ part.num \in Nat /\ WordSize \in Nat
    BY SizeAssumption DEF Partition
<1>2. lba + count <= part.num
  <2>1. (lba + count) % WordSize = lba + count
      BY NoWrap
  <2> QED
      BY <1>1, <2>1 DEF OutOfRange
<1>3. DiscLba(part, lba) = lba + part.start
  <2>1. lba + part.start < WordSize
      BY <1>1, <1>2
  <2> QED
      BY <1>1, <2>1, NoWrap DEF DiscLba
<1> QED
    BY <1>1, <1>2, <1>3

\* An access that passes part_lba_to_disc_lba stays inside its partition.
LEMMA AccessInside ==
    ASSUME TypeOK, CommandInv,
           NEW dev \in Handles, NEW lba \in Lbas, NEW count \in 1..MaxCount,
           NEW contents, Access(dev, lba, count, contents)
    PROVE  CommandInv'
<1>1. card /\ card' = card /\ disks' = disks
    BY DEF Access, CommandInv, CardInv, Handles
<1>2. CASE cmd' = cmd
    BY <1>1, <1>2 DEF CommandInv, CardInv, InsidePartition, AccessedPartition
<1>3. CASE cmd' # cmd
  <2>1. PICK part \in PartitionsAt(dev) :
            /\ ~OutOfRange(part, lba, count)
            /\ cmd' = Command(dev, lba, count, part, Listed(dev))
      BY <1>3 DEF Access, Transfer
  <2>2. part \in Partition
      BY PartitionsAtType
  <2>3. /\ cmd'.dev = dev /\ cmd'.lba = lba /\ cmd'.count = count
        /\ cmd'.at = DiscLba(part, lba) /\ cmd'.listed = Listed(dev)
      BY <2>1 DEF Command
  <2>4. lba \in Nat /\ count \in Nat /\ Blocks(dev.disk) \in Nat
        /\ Blocks(dev.disk) < WordSize
      BY SizeAssumption DEF Blocks
  <2>5. Listed(dev) => AccessedPartition' = part
      BY <1>1, <2>1, <2>3 DEF PartitionsAt, AccessedPartition
  <2>6. InsidePartition'
    <3> SUFFICES ASSUME Listed(dev), lba + count < WordSize,
                        part.start + part.num <= Blocks(dev.disk)
                 PROVE  /\ part.start <= DiscLba(part, lba)
                        /\ DiscLba(part, lba) + count <= part.start + part.num
        BY <2>3, <2>5 DEF InsidePartition, Blocks
    <3> QED
        BY <2>1, <2>2, <2>4, AcceptedRange
  <2> QED
      BY <1>1, <2>6 DEF CommandInv, CardInv
<1> QED
    BY <1>2, <1>3

\* The command for sector 0 stays in the raw user disk, which is entry 0.
LEMMA Sector0Inside ==
    ASSUME cmd' = Sector0Command, disks'[User].parts[1] = Raw(User)
    PROVE  InsidePartition'
<1>1. /\ cmd'.dev = Sector0Handle /\ cmd'.lba = 0 /\ cmd'.count = 1
      /\ cmd'.at = DiscLba(Raw(User), 0)
    BY DEF Sector0Command, Command
<1>2. cmd'.at = 0
  <2>1. 0 % WordSize = 0
      BY NoWrap, SizeAssumption
  <2> QED
      BY <1>1, <2>1 DEF DiscLba, Raw
<1>3. AccessedPartition' = Raw(User)
    BY <1>1 DEF AccessedPartition, Sector0Handle
<1> QED
    BY <1>1, <1>2, <1>3, SizeAssumption DEF InsidePartition, Raw

\* Entry 0 of a probed array is the raw disk.
RawInv == disks[User].hw => disks[User].parts # <<>> /\ disks[User].parts[1] = Raw(User)

\* For every table, partition and access whose last block number does not
\* wrap, the card's command stays inside the partition the caller addressed.
THEOREM Inside == Spec => []InsidePartition
<1>1. Init => CommandInv /\ RawInv
    BY DEF Init, CommandInv, CardInv, InsidePartition, RawInv, Unprobed, Disks, User
<1>2. TypeOK /\ CommandInv /\ RawInv /\ [Next]_vars => CommandInv' /\ RawInv'
  <2> SUFFICES ASSUME TypeOK, CommandInv, RawInv, [Next]_vars
               PROVE  CommandInv' /\ RawInv'
      OBVIOUS
  <2>1. CASE BlkInitialize
    <3>1. card' = card
        BY <2>1 DEF BlkInitialize
    <3>2. CASE ~card
      <4>1. cmd = NoCmd /\ cmd' = NoCmd
          BY <2>1, <3>2 DEF BlkInitialize, CommandInv, CardInv
      <4>2. disks' = [disks EXCEPT ![User] = Unprobed]
          BY <2>1, <3>2 DEF BlkInitialize
      <4>3. ~disks'[User].hw /\ disks'[Boot1] = disks[Boot1]
          BY <4>2 DEF TypeOK, Unprobed, Disks, User, Boot1
      <4> QED
          BY <3>1, <3>2, <4>1, <4>3
             DEF CommandInv, CardInv, InsidePartition, RawInv, Disks
    <3>3. CASE card
      <4>1. cmd' = Sector0Command /\ (ScanFailed \/ ScanSucceeded)
          BY <2>1, <3>3 DEF BlkInitialize
      <4>2. disks'[User].parts # <<>> /\ disks'[User].parts[1] = Raw(User)
        <5>1. CASE ScanFailed
            BY <5>1 DEF ScanFailed, TypeOK, Disks
        <5>2. CASE ScanSucceeded
          <6>1. PICK parts \in ScanPartitions(SeenSector0) : disks'[User].parts = parts
              BY <5>2 DEF ScanSucceeded, Disks, User
          <6>2. SeenSector0 \in Sector0
              BY SectorTypes
          <6> QED
              BY <6>1, <6>2, ScanType
        <5> QED
            BY <4>1, <5>1, <5>2
      <4> QED
          BY <3>1, <3>3, <4>1, <4>2, Sector0Inside
             DEF CommandInv, CardInv, RawInv
    <3> QED
        BY <3>2, <3>3 DEF TypeOK
  <2>2. CASE PowerCycle
      BY <2>2 DEF PowerCycle, CommandInv, CardInv, InsidePartition, RawInv,
                  Unprobed, Disks, User
  <2>3. ASSUME NEW dev \in Handles, NEW lba \in Lbas, NEW count \in 1..MaxCount,
               BlkRead(dev, lba, count) \/ BlkWrite(dev, lba, count)
        PROVE  CommandInv' /\ RawInv'
    <3>1. PICK contents : Access(dev, lba, count, contents)
        BY <2>3 DEF BlkRead, BlkWrite
    <3> QED
        BY <3>1, AccessInside DEF Access, RawInv
  <2>4. ASSUME NEW part \in UpdatedParts, Updates(part)
        PROVE  CommandInv' /\ RawInv'
    <3>1. /\ cmd' = Sector0Command /\ card' = card /\ disks' = disks
          /\ disks[User].hw
        BY <2>4 DEF Updates, MbrSetPartitionType, MbrSetPartitionBootFlag, UpdateSector0
    <3> QED
        BY <3>1, Sector0Inside DEF CommandInv, CardInv, RawInv, Disks
  <2>5. CASE UNCHANGED vars
      BY <2>5 DEF vars, CommandInv, CardInv, InsidePartition, AccessedPartition, RawInv
  <2> QED
      BY <2>1, <2>2, <2>3, <2>4, <2>5 DEF Next, Updates
<1>3. CommandInv => InsidePartition
    BY DEF CommandInv
<1> QED
    BY <1>1, <1>2, <1>3, TypeCorrect, PTL DEF Spec
-----------------------------------------------------------------------------
(* Partition numbers and slots *)

\* The array is the table moved up: the entry of slot m is at index m + 1 or
\* below - index 1 is the raw area - and the slots keep their order.
Compact(parts, last) ==
    /\ \A i \in DOMAIN parts : parts[i].mbr_num # 0 =>
           2 <= i /\ i <= parts[i].mbr_num + 1 /\ parts[i].mbr_num <= last
    /\ \A i, j \in DOMAIN parts :
           parts[i].mbr_num # 0 /\ parts[i].mbr_num < parts[j].mbr_num => i < j

\* The elements of an array, and its indices.
LEMMA Elements ==
    ASSUME NEW a \in Seq(Partition)
    PROVE  /\ Len(a) \in Nat /\ DOMAIN a = 1..Len(a)
           /\ \A i \in DOMAIN a : i \in Nat /\ a[i].mbr_num \in 0..4
<1>1. Len(a) \in Nat /\ DOMAIN a = 1..Len(a)
    BY LenProperties
<1>2. ASSUME NEW i \in DOMAIN a PROVE i \in Nat /\ a[i].mbr_num \in 0..4
  <2>1. i \in 1..Len(a)
      BY <1>1
  <2>2. a[i] \in Partition
      BY <2>1, ElementOfSeq
  <2> QED
      BY <1>1, <2>1, <2>2 DEF Partition
<1> QED
    BY <1>1, <1>2

LEMMA Associative == \A a, b, c \in Seq(Partition) : (a \o b) \o c = a \o (b \o c)
    BY ConcatAssociative

LEMMA Joined == \A a, b \in Seq(Partition) : a \o b \in Seq(Partition)
    BY ConcatProperties

\* An index of a concatenation is one of its first or of its second part.
LEMMA ConcatIndex ==
    ASSUME NEW a \in Seq(Partition), NEW b \in Seq(Partition), NEW i \in DOMAIN (a \o b)
    PROVE  /\ i \in Nat /\ Len(a) \in Nat
           /\ \/ i \in DOMAIN a /\ i <= Len(a) /\ (a \o b)[i] = a[i]
              \/ i > Len(a) /\ i - Len(a) \in DOMAIN b /\ (a \o b)[i] = b[i - Len(a)]
    OBVIOUS

\* The next slot keeps the array compact, whether it is kept or not.
LEMMA FoundCompact ==
    ASSUME NEW s0 \in Sector0, NEW s \in Slots, NEW a \in Seq(Partition),
           1 <= Len(a), Len(a) <= s, Compact(a, s - 1)
    PROVE  LET b == a \o Found(s0, s) IN
           b \in Seq(Partition) /\ 1 <= Len(b) /\ Len(b) <= s + 1 /\ Compact(b, s)
<1> DEFINE f == Found(s0, s)
           b == a \o f
<1>1. f \in Seq(Partition) /\ \A i \in DOMAIN f : f[i].mbr_num = s
    BY FoundType
<1>2. Len(f) \in {0, 1} /\ DOMAIN f = 1..Len(f)
  <2>1. CASE Kept(s0.slot[s])
      BY <2>1 DEF Found
  <2>2. CASE ~Kept(s0.slot[s])
      BY <2>2 DEF Found
  <2> QED
      BY <2>1, <2>2
<1>3. \A i \in DOMAIN a : a[i].mbr_num \in 0..4 /\ i \in Nat
    BY Elements
<1> HIDE DEF f
<1>4. b \in Seq(Partition) /\ Len(b) = Len(a) + Len(f) /\ Len(a) \in Nat
    BY <1>1
<1>5. ASSUME NEW i \in DOMAIN b
      PROVE  \/ i \in DOMAIN a /\ i <= Len(a) /\ b[i] = a[i]
             \/ i = Len(a) + 1 /\ b[i].mbr_num = s
  <2>1. \/ i \in DOMAIN a /\ i <= Len(a) /\ b[i] = a[i]
        \/ i > Len(a) /\ i - Len(a) \in DOMAIN f /\ b[i] = f[i - Len(a)]
      BY <1>1, ConcatIndex
  <2>2. i - Len(a) \in DOMAIN f => i - Len(a) = 1
      BY <1>2
  <2> QED
      BY <1>1, <1>4, <2>1, <2>2, ConcatIndex
<1> HIDE DEF b
<1>6. s \in 1..4
    BY DEF Slots
<1>7. Compact(b, s)
  <2>1. ASSUME NEW i \in DOMAIN b, b[i].mbr_num # 0
        PROVE  2 <= i /\ i <= b[i].mbr_num + 1 /\ b[i].mbr_num <= s
      BY <1>3, <1>4, <1>5, <1>6, <2>1 DEF Compact
  <2>2. ASSUME NEW i \in DOMAIN b, NEW j \in DOMAIN b,
               b[i].mbr_num # 0, b[i].mbr_num < b[j].mbr_num
        PROVE  i < j
    <3>1. CASE i = Len(a) + 1 /\ b[i].mbr_num = s
        BY <1>3, <1>5, <1>6, <2>2, <3>1 DEF Compact
    <3>2. CASE i \in DOMAIN a /\ i <= Len(a) /\ b[i] = a[i]
        BY <1>3, <1>4, <1>5, <1>6, <2>2, <3>2 DEF Compact
    <3> QED
        BY <1>5, <3>1, <3>2
  <2> QED
      BY <2>1, <2>2 DEF Compact
<1>8. 1 <= Len(b) /\ Len(b) <= s + 1
    BY <1>2, <1>4, <1>6
<1> QED
    BY <1>4, <1>7, <1>8 DEF f, b

\* Logical partitions behind a compact array leave it compact.
LEMMA TailCompact ==
    ASSUME NEW a \in Seq(Partition), Compact(a, 4), NEW tail \in Seq(Partition),
           \A i \in DOMAIN tail : tail[i].mbr_num = 0
    PROVE  Compact(a \o tail, 4)
<1> DEFINE b == a \o tail
<1>1. ASSUME NEW i \in DOMAIN b
      PROVE  \/ i \in DOMAIN a /\ b[i] = a[i]
             \/ b[i].mbr_num = 0
  <2>1. \/ i \in DOMAIN a /\ b[i] = a[i]
        \/ i - Len(a) \in DOMAIN tail /\ b[i] = tail[i - Len(a)]
      BY ConcatIndex
  <2> QED
      BY <2>1
<1>2. \A i \in DOMAIN a : i \in Nat /\ a[i].mbr_num \in 0..4
    BY Elements
<1> HIDE DEF b
<1>3. Compact(b, 4)
    BY <1>1, <1>2 DEF Compact
<1> QED
    BY <1>3 DEF b

\* Every array a scan can produce is compact.
LEMMA ScanCompact ==
    ASSUME NEW s0 \in Sector0, NEW parts \in ScanPartitions(s0)
    PROVE  Compact(parts, 4)
<1> DEFINE p0 == <<Raw(User)>>
           p1 == p0 \o Found(s0, 1)
           p2 == p1 \o Found(s0, 2)
           p3 == p2 \o Found(s0, 3)
           p4 == p3 \o Found(s0, 4)
<1>0. 1 \in Slots /\ 2 \in Slots /\ 3 \in Slots /\ 4 \in Slots
    BY DEF Slots
<1>1. /\ p0 \in Seq(Partition) /\ 1 <= Len(p0) /\ Len(p0) <= 1 /\ Compact(p0, 1 - 1)
    BY SizeAssumption DEF Raw, Partition, Compact, User
<1> HIDE DEF p0
<1>2. p1 \in Seq(Partition) /\ 1 <= Len(p1) /\ Len(p1) <= 1 + 1 /\ Compact(p1, 1)
    BY <1>0, <1>1, FoundCompact
<1> HIDE DEF p1
<1>3. p2 \in Seq(Partition) /\ 1 <= Len(p2) /\ Len(p2) <= 2 + 1 /\ Compact(p2, 2)
  <2>1. Len(p1) <= 2 /\ Compact(p1, 2 - 1)
      BY <1>2
  <2> QED
      BY <1>0, <1>2, <2>1, FoundCompact
<1> HIDE DEF p2
<1>4. p3 \in Seq(Partition) /\ 1 <= Len(p3) /\ Len(p3) <= 3 + 1 /\ Compact(p3, 3)
  <2>1. Len(p2) <= 3 /\ Compact(p2, 3 - 1)
      BY <1>3
  <2> QED
      BY <1>0, <1>3, <2>1, FoundCompact
<1> HIDE DEF p3
<1>5. p4 \in Seq(Partition) /\ Compact(p4, 4)
  <2>1. Len(p3) <= 4 /\ Compact(p3, 4 - 1)
      BY <1>4
  <2> QED
      BY <1>0, <1>4, <2>1, FoundCompact
<1> HIDE DEF p4
<1>6. PICK tail \in LogicalTables \cup {<<>>} : parts = p0 \o Primaries(s0) \o tail
    BY DEF ScanPartitions, p0
<1>7. tail \in Seq(Partition) /\ \A i \in DOMAIN tail : tail[i].mbr_num = 0
  <2>1. CASE tail \in LogicalTables
      BY <2>1, TableAssumption
  <2>2. CASE tail = <<>>
      BY <2>2
  <2> QED
      BY <1>6, <2>1, <2>2
<1>8. p0 \o Primaries(s0) = p4
  <2> DEFINE f1 == Found(s0, 1)
             f2 == Found(s0, 2)
             f3 == Found(s0, 3)
             f4 == Found(s0, 4)
  <2> DEFINE f12 == f1 \o f2
             f123 == f12 \o f3
  <2>1. f1 \in Seq(Partition) /\ f2 \in Seq(Partition) /\ f3 \in Seq(Partition) /\ f4 \in Seq(Partition)
      BY <1>0, FoundType
  <2>2. p4 = (((p0 \o f1) \o f2) \o f3) \o f4 /\ Primaries(s0) = f123 \o f4
      BY DEF p1, p2, p3, p4, Primaries
  <2> HIDE DEF f1, f2, f3, f4
  <2>3. f12 \in Seq(Partition)
      BY <2>1, Joined
  <2>4. (p0 \o f1) \o f2 = p0 \o f12
      BY <1>1, <2>1, Associative
  <2> HIDE DEF f12
  <2>5. p0 \in Seq(Partition) /\ f3 \in Seq(Partition)
      BY <1>1, <2>1
  <2>6. f123 \in Seq(Partition)
      BY <2>3, <2>5, Joined
  <2>7. (p0 \o f12) \o f3 = p0 \o f123
      BY <2>3, <2>5, Associative
  <2> HIDE DEF f123
  <2>8. p0 \in Seq(Partition) /\ f4 \in Seq(Partition)
      BY <1>1, <2>1
  <2>9. (p0 \o f123) \o f4 = p0 \o (f123 \o f4)
      BY <2>6, <2>8, Associative
  <2> QED
      BY <2>2, <2>4, <2>7, <2>9
<1> QED
    BY <1>5, <1>6, <1>7, <1>8, TailCompact

\* In a compact array that skips no slot, slot m is at index m + 1.
LEMMA DenseIndex ==
    ASSUME NEW parts \in Seq(Partition), Compact(parts, 4), NEW i \in DOMAIN parts,
           parts[i].mbr_num # 0,
           \A s \in 1..parts[i].mbr_num : \E j \in DOMAIN parts : parts[j].mbr_num = s
    PROVE  i = parts[i].mbr_num + 1
<1> DEFINE m == parts[i].mbr_num
<1>1. m \in 1..4 /\ \A j \in DOMAIN parts : j \in Nat
    BY Elements
<1>2. 2 <= i /\ i <= m + 1
    BY DEF Compact
<1>3. \A s \in 1..m : \E j \in DOMAIN parts : parts[j].mbr_num = s /\ 2 <= j /\ (s < m => j < i)
    BY <1>1 DEF Compact
<1>4. CASE m = 1
    BY <1>1, <1>2, <1>4
<1>5. CASE m = 2
  <2>1. PICK j1 \in DOMAIN parts : parts[j1].mbr_num = 1 /\ 2 <= j1 /\ j1 < i
      BY <1>3, <1>5
  <2> QED
      BY <1>1, <1>2, <1>5, <2>1
<1>6. CASE m = 3
  <2>1. PICK j1 \in DOMAIN parts : parts[j1].mbr_num = 1 /\ 2 <= j1
      BY <1>3, <1>6
  <2>2. PICK j2 \in DOMAIN parts : parts[j2].mbr_num = 2 /\ j2 < i
      BY <1>3, <1>6
  <2>3. j1 < j2
      BY <2>1, <2>2 DEF Compact
  <2> QED
      BY <1>1, <1>2, <1>6, <2>1, <2>2, <2>3
<1>7. CASE m = 4
  <2>1. PICK j1 \in DOMAIN parts : parts[j1].mbr_num = 1 /\ 2 <= j1
      BY <1>3, <1>7
  <2>2. PICK j2 \in DOMAIN parts : parts[j2].mbr_num = 2
      BY <1>3, <1>7
  <2>3. PICK j3 \in DOMAIN parts : parts[j3].mbr_num = 3 /\ j3 < i
      BY <1>3, <1>7
  <2>4. j1 < j2 /\ j2 < j3
      BY <2>1, <2>2, <2>3 DEF Compact
  <2>5. j1 \in Nat /\ j2 \in Nat /\ j3 \in Nat /\ i \in Nat
      BY <1>1
  <2>6. i <= 5
      BY <1>2, <1>7
  <2> QED
      BY <1>7, <2>1, <2>3, <2>4, <2>5, <2>6
<1> QED
    BY <1>1, <1>4, <1>5, <1>6, <1>7

CompactInv == Compact(disks[User].parts, 4)

\* The cached array is compact, after any sequence of scans and updates.
THEOREM CachedCompact == Spec => []CompactInv
<1>1. Init => CompactInv
    BY DEF Init, CompactInv, Compact, Unprobed, Disks
<1>2. TypeOK /\ CompactInv /\ [Next]_vars => CompactInv'
  <2> SUFFICES ASSUME TypeOK, CompactInv, [Next]_vars PROVE CompactInv'
      OBVIOUS
  <2>1. Compact(<<>>, 4) /\ Compact(<<Raw(User)>>, 4)
      BY DEF Compact, Raw
  <2>2. CASE BlkInitialize
    <3>1. SeenSector0 \in Sector0
        BY SectorTypes
    <3> QED
        BY <2>1, <2>2, <3>1, InitializeTables, ScanCompact DEF CompactInv, Unprobed
  <2>3. CASE ~BlkInitialize
    <3>1. disks' = disks \/ disks'[User].parts = <<>>
        BY <2>3, OtherTables DEF Unprobed, Disks
    <3> QED
        BY <2>1, <3>1 DEF CompactInv
  <2> QED
      BY <2>2, <2>3
<1> QED
    BY <1>1, <1>2, TypeCorrect, PTL DEF Spec

\* For every table, every scan and every sequence of updates: while the cached
\* array skips no slot, updating partition k leaves the others' entries alone.
THEOREM UpdatesTheirSlot == Spec => UpdateHitsItsPartition
<1>1. TypeOK /\ CompactInv =>
          \A k \in UpdatedParts : mbr' # mbr /\ Dense /\ Updates(k) => LeavesOthers(k)
  <2> SUFFICES ASSUME TypeOK, CompactInv, NEW k \in UpdatedParts, Dense, Updates(k),
                      NEW i \in DOMAIN disks[User].parts, i # k + 1,
                      disks[User].parts[i].mbr_num # 0
               PROVE  mbr'.slot[disks[User].parts[i].mbr_num] = mbr.slot[disks[User].parts[i].mbr_num]
      BY DEF LeavesOthers
  <2> DEFINE parts == disks[User].parts
  <2>1. parts \in Seq(Partition)
      BY DEF TypeOK, Disks
  <2>2. parts[i].mbr_num \in Slots
      BY <2>1, Elements DEF Slots
  <2>3. i = parts[i].mbr_num + 1
      BY <2>1, DenseIndex DEF CompactInv, Dense
  <2>4. parts[i].mbr_num # k
      BY <2>3
  <2>5. DiffersInSlot(mbr', mbr, k)
      BY UpdateTouchesItsSlot
  <2> QED
      BY <2>2, <2>4, <2>5 DEF DiffersInSlot
<1> QED
    BY <1>1, TypeCorrect, CachedCompact, PTL DEF UpdateHitsItsPartition
-----------------------------------------------------------------------------
(* What Bootloader takes for an access to the boot area *)

\* The probed boot area is one raw disk without a table.
BootInv ==
    disks[Boot1].hw => disks[Boot1].parts = <<Raw(Boot1)>> /\ disks[Boot1].n = 0

LEMMA BootStep == TypeOK /\ BootInv /\ [Next]_vars => BootInv'
<1>1. ASSUME TypeOK, BootInv, BlkInitialize PROVE BootInv'
  <2>1. disks'[Boot1] = disks[Boot1] \/ (disks'[Boot1].parts = <<Raw(Boot1)>> /\ disks'[Boot1].n = 0)
      BY <1>1, InitializeTables
  <2> QED
      BY <1>1, <2>1 DEF BootInv, Raw
<1>2. ASSUME TypeOK, BootInv, [Next]_vars, ~BlkInitialize PROVE BootInv'
    BY <1>2, OtherTables DEF BootInv, Unprobed, Disks, Raw
<1> QED
    BY <1>1, <1>2

\* The handle flash_bootloader.c uses, and the range Bootloader calls InArea.
BootHandle == [disk |-> Boot1, part |-> 0]
InBootArea(lba, count) == lba + count <= BootBlocks

\* Every access to the boot area whose last block number does not wrap ends as
\* one of the four outcomes Bootloader gives it (ReadFailed, WriteFailed,
\* Written): done, with the user area selected again; failed at the selection,
\* which may have taken effect; out of the area; or failed inside of it, in the
\* transfer or in selecting the user area again (disks.c 147-173, 196-220).
BootOutcome(lba, count) ==
    \/ bootRet' = "ok" /\ InBootArea(lba, count) /\ selected' = User
    \/ bootRet' = "EIO" /\ selected' \in {selected, Boot1}
    \/ bootRet' = "ERANGE" /\ ~InBootArea(lba, count) /\ selected' = Boot1
    \/ bootRet' = "EIO" /\ InBootArea(lba, count) /\ selected' \in {User, Boot1}
BootAccesses ==
    [][\A lba \in Lbas : \A count \in 1..MaxCount :
          /\ lba + count < WordSize
          /\ BlkRead(BootHandle, lba, count) \/ BlkWrite(BootHandle, lba, count)
          => BootOutcome(lba, count)]_vars
THEOREM BootAccessOutcomes == Spec => BootAccesses
<1>1. Init => BootInv
    BY DEF Init, BootInv, Unprobed, Disks
<1>2. ASSUME TypeOK, BootInv, NEW lba \in Lbas, NEW count \in 1..MaxCount, lba + count < WordSize,
             BlkRead(BootHandle, lba, count) \/ BlkWrite(BootHandle, lba, count)
      PROVE  BootOutcome(lba, count)
  <2>1. PICK contents : Access(BootHandle, lba, count, contents)
      BY <1>2 DEF BlkRead, BlkWrite
  <2>2. BootHandle.disk = Boot1 /\ BootHandle.part = 0 /\ AreaOf(BootHandle) = Boot1
      BY DEF BootHandle, AreaOf
  <2>3. disks[Boot1].parts = <<Raw(Boot1)>> /\ disks[Boot1].n = 0
    <3>1. disks[BootHandle.disk].hw
        BY <2>1 DEF Access
    <3> QED
        BY <1>2, <2>2, <3>1 DEF BootInv
  <2>4. ~Rejected(BootHandle)
      BY <2>2, <2>3 DEF Rejected
  <2>5. PartitionsAt(BootHandle) = {Raw(Boot1)}
    <3>1. Len(<<Raw(Boot1)>>) = 1 /\ <<Raw(Boot1)>>[0 + 1] = Raw(Boot1) /\ 0 < 1
        OBVIOUS
    <3> QED
        BY <2>2, <2>3, <3>1 DEF PartitionsAt, Listed
  <2>6. Raw(Boot1).num = BootBlocks /\ Raw(Boot1).start = 0
      BY DEF Raw, User, Boot1
  <2>7. lba \in Nat /\ count \in Nat /\ lba + count \in Nat
      BY SizeAssumption
  <2>8. OutOfRange(Raw(Boot1), lba, count) <=> ~InBootArea(lba, count)
      BY <1>2, <2>6, <2>7, NoWrap, SizeAssumption DEF OutOfRange, InBootArea
  <2>9. CASE \E area \in {selected, Boot1} : Return(BootHandle, "EIO", area)
      BY <2>2, <2>9 DEF Return, BootOutcome
  <2>10. CASE Transfer(BootHandle, lba, count, contents)
    <3>1. CASE OutOfRange(Raw(Boot1), lba, count) /\ Return(BootHandle, "ERANGE", Boot1)
        BY <2>2, <2>8, <3>1 DEF Return, BootOutcome
    <3>2. CASE ~OutOfRange(Raw(Boot1), lba, count) /\ Return(BootHandle, "EIO", Boot1)
        BY <2>2, <2>8, <3>2 DEF Return, BootOutcome
    <3>3. CASE ~OutOfRange(Raw(Boot1), lba, count) /\ Finish(BootHandle)
        BY <2>2, <2>8, <3>3 DEF Finish, Return, BootOutcome, Disks
    <3> QED
        BY <2>2, <2>5, <2>10, <3>1, <3>2, <3>3 DEF Transfer
  <2> QED
      BY <2>1, <2>4, <2>9, <2>10 DEF Access
<1>3. TypeOK /\ BootInv =>
          \A lba \in Lbas : \A count \in 1..MaxCount :
              /\ lba + count < WordSize
              /\ BlkRead(BootHandle, lba, count) \/ BlkWrite(BootHandle, lba, count)
              => BootOutcome(lba, count)
    BY <1>2
<1> QED
    BY <1>1, <1>3, BootStep, TypeCorrect, PTL DEF Spec, BootAccesses
=============================================================================
