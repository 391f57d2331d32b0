----------------------------- MODULE Bootloader -----------------------------
(***************************************************************************)
(* The bootloader update (recovery/flash_bootloader.c): write the image    *)
(* file to the boot area, read it back and compare, remove the file.       *)
(*                                                                         *)
(* Both loops move SECTORS_PER_TRANSFER sectors through one buffer; one    *)
(* round of a loop is one action.  The card has one area selection (see    *)
(* BlkDev): an access to the boot area that fails can leave the boot area  *)
(* selected, and what the file system reads or writes then is not the      *)
(* user area.  lba and sz are counted in bytes.                            *)
(***************************************************************************)
EXTENDS Naturals

CONSTANTS
    SectorBytes, SectorsPerTransfer,
    AreaBytes,     \* the boot area's size
    MinimalSize,   \* minimal_size: the smallest image that is accepted
    Images,        \* the image files: [id, size]
    None,          \* no image file
    Old, Zero, Junk

Chunk == SectorBytes * SectorsPerTransfer
Cells == {Old, Zero, Junk} \cup [img: Images, at: Nat]

ASSUME BootAssumption ==
    /\ SectorBytes \in Nat \ {0} /\ SectorsPerTransfer \in Nat \ {0}
    /\ Chunk \in Nat \ {0} /\ AreaBytes \in Nat
    /\ MinimalSize \in Nat /\ MinimalSize >= Chunk
    /\ \A img \in Images : img.size \in Nat
    /\ None \notin Images

VARIABLES
    file,      \* the image file waiting on the user partition, or None
    area,      \* the bytes of the boot area
    selected,  \* the area the card's commands go to
    pc,        \* where flash_bootloader is
    lba, sz,   \* the loop's block address and the bytes still to come
    buf,       \* sect_buf, buf2
    result     \* what the last call returned

disk == <<file, area>>
loop == <<lba, sz, buf>>
vars == <<disk, selected, pc, loop, result>>

Garbage == [i \in 0..Chunk - 1 |-> Junk]   \* malloc

Init ==
    /\ file \in Images \cup {None}
    /\ area = [i \in 0..AreaBytes - 1 |-> Old]
    /\ selected = "user" /\ pc = "idle" /\ result = "none"
    /\ lba = 0 /\ sz = 0 /\ buf = Garbage

Return(ret) == pc' = "idle" /\ result' = ret /\ UNCHANGED loop
Enter(where) ==
    /\ pc' = where
    /\ lba' = 0 /\ sz' = file.size /\ buf' = Garbage

-----------------------------------------------------------------------------
(* The image file *)

\* With the boot area selected the file system reads there: of each sector
\* its driver may still hold the right data, or takes what it finds for it.
Sources == IF selected = "user" THEN {{}} ELSE SUBSET (0..SectorsPerTransfer - 1)
FileByte(junk, i) ==
    IF i \div SectorBytes \in junk THEN Junk ELSE [img |-> file, at |-> (file.size - sz) + i]

\* fread: whole sectors, or the last sz bytes into a buffer of which only the
\* first sector was cleared; behind them stands what the round before left.
Loaded(junk) ==
    [i \in 0..Chunk - 1 |->
        IF i < sz THEN FileByte(junk, i) ELSE IF i < SectorBytes THEN Zero ELSE buf[i]]
RestUnclamped == sz - Chunk
Rest == IF sz < Chunk THEN 0 ELSE sz - Chunk

\* A read error in the middle of a transfer: n of its sectors arrived.
CutOff(junk, n) ==
    [i \in 0..Chunk - 1 |-> IF i < n * SectorBytes THEN FileByte(junk, i) ELSE buf[i]]
CutOffs(junk) ==
    {CutOff(junk, n) : n \in IF sz < Chunk THEN {} ELSE 1..SectorsPerTransfer - 1}

Advance(b) ==
    lba' = lba + Chunk /\ sz' = Rest /\ buf' = b /\ UNCHANGED <<pc, result>>

-----------------------------------------------------------------------------
(* flash_ecoboot *)

InAreaStrictly == lba + Chunk < AreaBytes
InArea == lba + Chunk <= AreaBytes

\* The first k sectors of the buffer b arrive in the boot area.
Store(b, k) ==
    area' = [i \in 0..AreaBytes - 1 |->
                IF lba <= i /\ i < lba + k * SectorBytes THEN b[i - lba] ELSE area[i]]

\* blk_write fails: selecting the boot area, the range, writing, or selecting
\* the user area again.  A selection that fails may have taken effect.
Written(b) == InArea /\ Store(b, SectorsPerTransfer) /\ selected' = "user"
WriteFailed(b) ==
    \/ UNCHANGED area /\ selected' \in {selected, "boot"} /\ Return("EIO")
    \/ ~InArea /\ UNCHANGED area /\ selected' = "boot" /\ Return("ERANGE")
    \/ /\ InArea /\ (\E k \in 0..SectorsPerTransfer : Store(b, k))
       /\ selected' = "boot" /\ Return("EIO")
    \/ Written(b) /\ Return("EIO")

FlashChunk ==
    /\ pc = "flash" /\ sz > 0
    /\ \/ UNCHANGED <<area, selected>> /\ Return("errno")
       \/ \E junk \in Sources :
             \/ \E b \in CutOffs(junk) : WriteFailed(b) \/ (Written(b) /\ Return("errno"))
             \/ WriteFailed(Loaded(junk))
             \/ Written(Loaded(junk)) /\ Advance(Loaded(junk))
    /\ UNCHANGED file

\* The loop ends in a round that has nothing to read.
FlashedUnverified ==
    /\ pc = "flash" /\ sz = 0
    /\ pc' = "unlink" /\ UNCHANGED <<disk, selected, loop, result>>
Flashed ==
    /\ pc = "flash" /\ sz = 0
    /\ Return("errno") \/ (Enter("verify") /\ UNCHANGED result)
    /\ UNCHANGED <<disk, selected>>

-----------------------------------------------------------------------------
(* verify_ecoboot *)

ReadFailed ==
    \/ selected' \in {selected, "boot"} /\ Return("EIO")
    \/ ~InArea /\ selected' = "boot" /\ Return("ERANGE")
    \/ InArea /\ selected' \in {"user", "boot"} /\ Return("EIO")

SameSector(b) == \A i \in 0..SectorBytes - 1 : area[lba + i] = b[i]
Same(b) == \A i \in 0..Chunk - 1 : area[lba + i] = b[i]

\* Reading the boot area comes first, in every round: it leaves the user area
\* selected for the file, and the last round reads one transfer more than was
\* written.
VerifyChunk ==
    /\ pc = "verify"
    /\ \/ ReadFailed
       \/ /\ InArea /\ selected' = "user"
          /\ \/ sz = 0 /\ pc' = "unlink" /\ UNCHANGED <<loop, result>>
             \/ sz > 0 /\ Return("errno")
             \/ \E b \in CutOffs({}) : Return(IF Same(b) THEN "errno" ELSE "eco_verify")
             \/ sz > 0 /\ ~Same(Loaded({})) /\ Return("eco_verify")
             \/ sz > 0 /\ Same(Loaded({})) /\ Advance(Loaded({}))
    /\ UNCHANGED disk

-----------------------------------------------------------------------------
(* flash_bootloader *)

\* No file, no regular file, a small one, no memory: nothing is touched.
Accepted == file # None /\ file.size >= MinimalSize
FlashBootloader ==
    /\ pc = "idle"
    /\ \/ Return("errno")
       \/ Accepted /\ Enter("flash") /\ result' = "none"
    /\ UNCHANGED <<disk, selected>>

Unlink ==
    /\ pc = "unlink"
    /\ \/ file' = None /\ Return("ok")
       \/ UNCHANGED file /\ Return("eco_vfs")
    /\ UNCHANGED <<area, selected>>

-----------------------------------------------------------------------------
(* What happens between two calls *)

\* The update script unpacks an image.
PutImage(img) ==
    /\ pc = "idle" /\ selected = "user"
    /\ file' = img /\ result' = "none"
    /\ UNCHANGED <<area, selected, pc, loop>>

\* A write to the user area (the log, say) goes to the area selected.
UserWrite(at) ==
    /\ pc = "idle" /\ selected = "boot" /\ at + SectorBytes <= AreaBytes
    /\ area' = [i \in 0..AreaBytes - 1 |->
                   IF at <= i /\ i < at + SectorBytes THEN Junk ELSE area[i]]
    /\ UNCHANGED <<file, selected, pc, loop, result>>

\* A write cut off half-way leaves the area as one that failed half-way does.
PowerCycle ==
    /\ pc' = "idle" /\ selected' = "user" /\ result' = "none"
    /\ lba' = 0 /\ sz' = 0 /\ buf' = Garbage
    /\ UNCHANGED disk

Next ==
    \/ FlashBootloader \/ FlashChunk \/ Flashed \/ VerifyChunk \/ Unlink
    \/ \E img \in Images : PutImage(img)
    \/ \E at \in {k * SectorBytes : k \in 0..AreaBytes} : UserWrite(at)
    \/ PowerCycle

Spec == Init /\ [][Next]_vars

-----------------------------------------------------------------------------
(* Properties *)

\* Every variable has its type, and no transfer is cut to a negative size.
TypeOK ==
    /\ file \in Images \cup {None}
    /\ area \in [0..AreaBytes - 1 -> Cells]
    /\ selected \in {"user", "boot"}
    /\ pc \in {"idle", "flash", "verify", "unlink"}
    /\ lba \in Nat /\ sz \in Nat
    /\ buf \in [0..Chunk - 1 -> Cells]
    /\ result \in {"none", "ok", "errno", "EIO", "ERANGE", "eco_verify", "eco_vfs"}

\* The boot area holds the whole image.
Holds(a, img) ==
    img.size <= AreaBytes /\ \A i \in 0..img.size - 1 : a[i] = [img |-> img, at |-> i]

\* The image file is removed only when the boot area holds all of it, and with
\* no image waiting nothing changes the boot area: whatever fails, wherever the
\* power goes, whatever the file system read or wrote in the wrong area.
Install == INSTANCE BootInstall
Installs == Install!Spec

\* When only the removal failed, the image is installed, until the next call.
RemovalFailedIsInstalled == result = "eco_vfs" => Holds(area, file)

\* -ERANGE means an image for which verify_ecoboot, which reads one transfer
\* more than flash_ecoboot writes, finds no room behind it in the boot area.
RoomFor(img) == \E n \in 0..AreaBytes : img.size <= n * Chunk /\ (n + 1) * Chunk <= AreaBytes
RangeErrorExplained == result = "ERANGE" => ~RoomFor(file)
=============================================================================
