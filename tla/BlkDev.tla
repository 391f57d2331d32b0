------------------------------- MODULE BlkDev -------------------------------
(***************************************************************************)
(* The block layer of the recovery firmware: the two eMMC areas            *)
(* (hal/src/blkdev/disks.c), the cached partition table                    *)
(* (hal/src/blkdev/partscan.c) and the partition-table updates             *)
(* (recovery/common/mbr.c).                                                *)
(*                                                                         *)
(* The eMMC has ONE access-partition register: a command goes to whichever *)
(* area it selects, whatever the caller addressed.  A call addresses an    *)
(* area with a handle [disk, part] (blk_disk_handle).  Each operation is   *)
(* one action, its card commands failing or succeeding nondeterministically*)
(* (the firmware is single threaded: nothing interleaves with a call).     *)
(***************************************************************************)
EXTENDS Naturals, Sequences, FiniteSets

CONSTANTS
    UserBlocks,     \* userPartitionBlocks: sectors of the user area
    BootBlocks,     \* bootPartitionBlocks: sectors of each boot area
    WordSize,       \* 2^w: lba_t and blk_size_t wrap modulo WordSize
    Lbas, MaxCount, \* the block numbers and the longest transfer enumerated
    UpdatedParts,   \* the partitions whose table entry is ever updated
    Codes,          \* partition codes (type byte of a table entry)
    ExtCodes,       \* the codes partscan.c calls extended
    NewCodes,       \* the codes a partition can be given (convert_fs.c: ext4)
    Mbrs,           \* what sector 0 of an area may hold at first power-up
    DataSectors,    \* what a write of data may leave in a sector 0
    LogicalTables,  \* what parse_extended may find behind an extended entry
    Garbage         \* what one element past the end of a heap array may hold

User  == 0     \* blkdev_emmc_user
Boot1 == 1     \* blkdev_emmc_boot1
Disks == {User, Boot1}
Slots == 1..4  \* mbr_num_parts

Entry == [code: Codes, active: BOOLEAN, start: Nat, num: Nat]
\* sig: how many of the two signature bytes 0x55 0xAA are right.
Sector0 == [sig: {"both", "one", "none"}, slot: [Slots -> Entry]]
\* code "hw" is blk_part_type_hardware: entry 0 of an array, the raw area.
Partition == [code: Codes \cup {"hw"}, start: Nat, num: Nat, mbr_num: 0..4]
Handles == [disk: Disks, part: 0..4]
Cmds == [dev: Handles, lba: Nat, count: Nat, area: Disks, at: Nat, listed: BOOLEAN]
NoCmd == <<>>

ASSUME SizeAssumption ==
    /\ UserBlocks \in Nat \ {0} /\ BootBlocks \in Nat \ {0}
    /\ WordSize \in Nat \ {0} /\ MaxCount \in Nat \ {0}
    /\ UserBlocks < WordSize /\ BootBlocks < WordSize
    /\ Lbas \subseteq 0..WordSize - 1 /\ UpdatedParts \subseteq Slots
ASSUME TableAssumption ==
    /\ ExtCodes \subseteq Codes /\ NewCodes \subseteq Codes \ ExtCodes
    /\ "hw" \notin Codes
    /\ Mbrs \subseteq [Disks -> Sector0] /\ DataSectors \subseteq Sector0
    /\ \A t \in LogicalTables :
          t \in Seq(Partition) /\ \A i \in DOMAIN t : t[i].mbr_num = 0
    /\ Garbage \subseteq Partition

VARIABLES
    sector0,   \* sector 0 of each area (persistent)
    card,      \* did MMC_Init succeed at boot (emmc_card() # NULL)
    selected,  \* the area the card's commands go to
    disks,     \* ctx.disks: the partition array, n_parts and hwdrv of each
    cmd,       \* the last data command the card was sent
    bootRet,   \* what the last access to the boot area returned
    stray      \* was the scan or a write since it one that may hit a wrong
               \* sector 0 (not in the code: Geometry's precondition)

vars == <<sector0, card, selected, disks, cmd, bootRet, stray>>

\* The partition table: sector 0 of the user area.
mbr == sector0[User]

Unprobed == [parts |-> <<>>, n |-> 0, hw |-> FALSE]
Raw(d) == [code |-> "hw", start |-> 0, mbr_num |-> 0,
           num |-> IF d = User THEN UserBlocks ELSE BootBlocks]

Init ==
    /\ sector0 \in Mbrs
    /\ card \in BOOLEAN
    /\ selected = User
    /\ disks = [d \in Disks |-> Unprobed]
    /\ cmd = NoCmd
    /\ bootRet = "none"
    /\ stray = FALSE

-----------------------------------------------------------------------------
(* Addressing *)

Blocks(area) == IF area = User THEN UserBlocks ELSE BootBlocks

\* dev.part is compared with n_parts by ">", so part = n_parts is let through.
Rejected(dev) == dev.part > disks[dev.disk].n

\* &parts[ipart]: an element of the array, or what lies behind its end.
Listed(dev) == dev.part < Len(disks[dev.disk].parts)
PartitionsAt(dev) ==
    IF Listed(dev) THEN {disks[dev.disk].parts[dev.part + 1]} ELSE Garbage

\* part_lba_to_disc_lba: the sums wrap.
OutOfRangeNoCount(part, lba, count) == lba % WordSize > part.num
OutOfRange(part, lba, count) == (lba + count) % WordSize > part.num
DiscLba(part, lba) == (lba + part.start) % WordSize

\* The area a command for dev goes to: boot accesses select theirs first,
\* user accesses take the selection as they find it.
AreaUnselected(dev) == selected
AreaOf(dev) == IF dev.disk = Boot1 THEN Boot1 ELSE selected

Command(dev, lba, count, part, listed) ==
    [dev |-> dev, lba |-> lba, count |-> count, area |-> AreaOf(dev),
     at |-> DiscLba(part, lba), listed |-> listed]

-----------------------------------------------------------------------------
(* blk_read and blk_write *)

\* The call returns ret with the card left on `area`.
Return(dev, ret, area) ==
    /\ selected' = area
    /\ bootRet' = IF dev.disk = Boot1 THEN ret ELSE bootRet

\* After a command that succeeded the user area is selected again; that
\* SWITCH may fail too, and then so does the call.  A failed SWITCH may have
\* taken effect.
Finish(dev) ==
    \/ Return(dev, "ok", IF dev.disk = Boot1 THEN User ELSE selected)
    \/ dev.disk = Boot1 /\ \E area \in Disks : Return(dev, "EIO", area)

\* A command at block 0 of an area may leave any of contents in its sector 0.
LeavesInSector0(area, at, contents) ==
    \/ UNCHANGED sector0
    \/ at = 0 /\ \E c \in contents : sector0' = [sector0 EXCEPT ![area] = c]

\* Neither -ERANGE nor a failed command selects the user area again.
Transfer(dev, lba, count, contents) ==
    \E part \in PartitionsAt(dev) :
        IF OutOfRange(part, lba, count)
        THEN Return(dev, "ERANGE", AreaOf(dev)) /\ UNCHANGED <<cmd, sector0>>
        ELSE \/ Return(dev, "EIO", AreaOf(dev)) /\ UNCHANGED <<cmd, sector0>>
             \/ /\ (DiscLba(part, lba) + count) % WordSize <= Blocks(AreaOf(dev))
                /\ cmd' = Command(dev, lba, count, part, Listed(dev))
                /\ LeavesInSector0(AreaOf(dev), DiscLba(part, lba), contents)
                /\ Finish(dev) \/ Return(dev, "EIO", AreaOf(dev))

\* The program accesses no disk that blk_initialize has not probed (hw): its
\* parts would be NULL.
Access(dev, lba, count, contents) ==
    /\ disks[dev.disk].hw
    /\ \/ Rejected(dev) /\ Return(dev, "ENXIO", selected) /\ UNCHANGED <<cmd, sector0>>
       \/ /\ ~Rejected(dev) /\ dev.disk = Boot1  \* selecting Boot1 failed
          /\ \E area \in {selected, Boot1} : Return(dev, "EIO", area)
          /\ UNCHANGED <<cmd, sector0>>
       \/ ~Rejected(dev) /\ Transfer(dev, lba, count, contents)
    /\ UNCHANGED <<card, disks>>

BlkRead(dev, lba, count)  == Access(dev, lba, count, {}) /\ UNCHANGED stray

\* A write through a listed partition that lies on the disk behind sector 0,
\* at block numbers that do not wrap.
Proper(dev, lba, count) ==
    LET p == disks[dev.disk].parts[dev.part + 1] IN
    /\ Listed(dev) /\ lba + count < WordSize
    /\ p.start > 0 /\ p.start + p.num <= UserBlocks

\* Nothing writes through the raw user handle but mbr.c, below.
BlkWrite(dev, lba, count) ==
    /\ dev.disk = User => dev.part > 0
    /\ Access(dev, lba, count, DataSectors)
    /\ stray' = (stray \/ (dev.disk = User /\ ~Proper(dev, lba, count)))

-----------------------------------------------------------------------------
(* blk_initialize: the partition table is read again *)

Sector0Handle == [disk |-> User, part |-> 0]
\* What a read of sector 0 of the user disk returns.
SeenSector0 == sector0[selected]
Sector0Command == Command(Sector0Handle, 0, 1, Raw(User), TRUE)

Kept(e) ==
    e.code \notin ExtCodes /\ e.num > 0 /\ e.start + e.num <= UserBlocks
FoundCountingRaw(s0, s) ==
    LET e == s0.slot[s] IN
    IF Kept(e) THEN <<[code |-> e.code, start |-> e.start, num |-> e.num, mbr_num |-> s + 1]>>
               ELSE <<>>
FoundFromZero(s0, s) ==
    LET e == s0.slot[s] IN
    IF Kept(e) THEN <<[code |-> e.code, start |-> e.start, num |-> e.num, mbr_num |-> s - 1]>>
               ELSE <<>>
Found(s0, s) ==
    LET e == s0.slot[s] IN
    IF Kept(e) THEN <<[code |-> e.code, start |-> e.start, num |-> e.num, mbr_num |-> s]>>
               ELSE <<>>
\* Kept slots move up: an index of this array is not a slot of the table.
Primaries(s0) == Found(s0, 1) \o Found(s0, 2) \o Found(s0, 3) \o Found(s0, 4)
HasExtended(s0) == \E s \in Slots : s0.slot[s].code \in ExtCodes
ScanPartitions(s0) ==
    {<<Raw(User)>> \o Primaries(s0) \o tail :
        tail \in IF HasExtended(s0) THEN LogicalTables ELSE {<<>>}}

\* n_parts is cleared before anything can fail.
ScanFailedKeepingCount ==
    disks' = [disks EXCEPT ![User] = [parts |-> <<Raw(User)>>, n |-> @.n, hw |-> TRUE]]
ScanFailed ==
    disks' = [disks EXCEPT ![User] = [parts |-> <<Raw(User)>>, n |-> 0, hw |-> TRUE]]
\* One wrong signature byte is let through (&& where mbr.c has ||).
ScanSucceeded ==
    /\ SeenSector0.sig # "none"
    /\ \E parts \in ScanPartitions(SeenSector0) :
          disks' = [d \in Disks |->
                       IF d = User THEN [parts |-> parts, n |-> Len(parts), hw |-> TRUE]
                       ELSE [parts |-> <<Raw(Boot1)>>, n |-> 0, hw |-> TRUE]]

BlkInitialize ==
    /\ \/ ~card /\ disks' = [disks EXCEPT ![User] = Unprobed] /\ UNCHANGED cmd
       \/ card /\ cmd' = Sector0Command /\ (ScanFailed \/ ScanSucceeded)
    /\ stray' = (selected # User)
    /\ UNCHANGED <<sector0, card, selected, bootRet>>

-----------------------------------------------------------------------------
(* mbr_set_partition_type, mbr_set_partition_boot_flag *)

\* The entry is found by the handle's partition index, taken as a slot.
SlotOfNext(part) == IF part < 4 THEN part + 1 ELSE part
SlotOf(part) == part

\* Sector 0 keeps its content when the read or the write fails or the read
\* finds no signature; it may have the new one though the write failed.
UpdateSector0(updated) ==
    /\ cmd' = Sector0Command
    /\ \/ UNCHANGED sector0
       \/ SeenSector0.sig = "both" /\ sector0' = [sector0 EXCEPT ![selected] = updated]

\* The caller has accessed the partition before, so part > n_parts is refused
\* there, and part = n_parts is not.
MbrSetPartitionType(part, code) ==
    /\ disks[User].hw /\ part <= disks[User].n
    /\ UpdateSector0([SeenSector0 EXCEPT !.slot[SlotOf(part)].code = code])
    /\ UNCHANGED <<card, selected, disks, bootRet, stray>>

MbrSetPartitionBootFlag(part, bootable) ==
    /\ disks[User].hw /\ part <= disks[User].n
    /\ UpdateSector0([SeenSector0 EXCEPT !.slot[SlotOf(part)].active = bootable])
    /\ UNCHANGED <<card, selected, disks, bootRet, stray>>

-----------------------------------------------------------------------------
\* Power off and on: RAM and the card's selection are lost, sector 0 stays.
PowerCycle ==
    /\ card' \in BOOLEAN
    /\ selected' = User
    /\ disks' = [d \in Disks |-> Unprobed]
    /\ cmd' = NoCmd
    /\ bootRet' = "none"
    /\ stray' = FALSE
    /\ UNCHANGED sector0

Next ==
    \/ BlkInitialize
    \/ PowerCycle
    \/ \E dev \in Handles, lba \in Lbas, count \in 1..MaxCount :
          BlkRead(dev, lba, count) \/ BlkWrite(dev, lba, count)
    \/ \E part \in UpdatedParts :
          \/ \E code \in NewCodes : MbrSetPartitionType(part, code)
          \/ \E bootable \in BOOLEAN : MbrSetPartitionBootFlag(part, bootable)

Spec == Init /\ [][Next]_vars

-----------------------------------------------------------------------------
(* Properties *)

BootErrors == {"EIO", "ERANGE", "ENXIO"}

\* Every variable has its type, in every state of any sequence of calls.
TypeOK ==
    /\ sector0 \in [Disks -> Sector0]
    /\ card \in BOOLEAN
    /\ selected \in Disks
    /\ disks \in [Disks -> [parts: Seq(Partition), n: Nat, hw: BOOLEAN]]
    /\ cmd \in Cmds \cup {NoCmd}
    /\ bootRet \in {"none", "ok"} \cup BootErrors
    /\ stray \in BOOLEAN

\* Between calls the card can be left on the boot area only while the last
\* access to it returned an error: every successful one selects the user area
\* again (disks.c 166-173, 213-220), and no error path does (155-164, 201-211).
SelectionInv == selected = Boot1 => bootRet \in BootErrors

\* A command reaches another area than the one its caller addressed only
\* while the last access to the boot area is a failed one: with no error in
\* between, any sequence of calls on both disks is routed correctly.
MisroutedOnlyAfterBootError ==
    cmd # NoCmd /\ cmd.area # cmd.dev.disk => bootRet \in BootErrors

\* Every command reaches the area its handle names.  Violated: nothing selects
\* the user area for an access to it (disks.c 147, 196 select Boot1 only).
RoutedToAddressedArea == cmd # NoCmd => cmd.area = cmd.dev.disk

\* A command sent for a listed partition that lies on the disk stays inside
\* it, if its last block number does not wrap (part_lba_to_disc_lba adds in
\* 32 bits and compares the wrapped sum).
AccessedPartition == disks[cmd.dev.disk].parts[cmd.dev.part + 1]
InsidePartition ==
    LET p == AccessedPartition IN
    cmd # NoCmd /\ cmd.listed /\ cmd.lba + cmd.count < WordSize
        /\ p.start + p.num <= Blocks(cmd.dev.disk)
    => p.start <= cmd.at /\ cmd.at + cmd.count <= p.start + p.num

\* Every partition number below n_parts has an element in the array, after
\* any sequence of successful and failed scans: a scan that fails must not
\* leave the count of the table before it (disks.c 84-99).
CountedPartsExist == \A d \in Disks : disks[d].n <= Len(disks[d].parts)

\* The cached place of a primary partition is the one in sector 0, however
\* often types and boot flags were updated in between, whatever data was
\* written to both areas and however those calls failed: mounted file systems
\* keep their place on the disk.  It takes a scan that read the user area, and
\* since then only writes to the user disk that are Proper: one with a block
\* number that wraps, one to an entry that starts at sector 0 and one through
\* the element behind the array can hit the table (disks.c 34-43, 207).
GeometryCoherent ==
    ~stray =>
        \A i \in DOMAIN disks[User].parts :
            LET p == disks[User].parts[i] IN
            p.mbr_num # 0 => /\ p.start = mbr.slot[p.mbr_num].start
                             /\ p.num = mbr.slot[p.mbr_num].num

\* When the scan skipped no slot before the last one it kept, updating the
\* type or the flag of partition k leaves the entries of the other cached
\* partitions alone (mbr.c 44, 83 take the index of the compacted array for a
\* slot).  It is the scan's table that counts: an update in between can make
\* the table of sector 0 dense while the array keeps its holes.
Dense ==
    \A i \in DOMAIN disks[User].parts : \A s \in 1..disks[User].parts[i].mbr_num :
        \E j \in DOMAIN disks[User].parts : disks[User].parts[j].mbr_num = s
Updates(k) ==
    \/ \E code \in NewCodes : MbrSetPartitionType(k, code)
    \/ \E bootable \in BOOLEAN : MbrSetPartitionBootFlag(k, bootable)
LeavesOthers(k) ==
    \A i \in DOMAIN disks[User].parts :
        LET s == disks[User].parts[i].mbr_num IN
        i # k + 1 /\ s # 0 => mbr'.slot[s] = mbr.slot[s]
UpdateHitsItsPartition ==
    [][\A k \in UpdatedParts : mbr' # mbr /\ Dense /\ Updates(k) => LeavesOthers(k)]_vars
=============================================================================
