# PureRecovery in TLA+

PureRecovery is the recovery firmware of the Mudita Pure and Bell devices. It runs
bare-metal on an i.MX RT1051, mounts the partitions of the eMMC and runs a Lua
script that updates the system, the bootloader, the databases and the secure fuses.
This directory holds a formal model of its storage side and of the drivers it waits
on, the timer, the panel and the keyboard: TLA+ modules, TLC configurations that
check them on small instances, and proofs checked by TLAPS. `PROJECT.json` maps
every definition to the source lines it stands for, and lists the runs, mutants,
hazards, findings and theorems that this document explains.

The firmware is one thread. What runs beside it is the timer interrupt (Delay),
the keyboard controller (Keyboard) and the SD host's interrupts, which stay in
drivers below what is modelled. What makes the rest hard is failure: a card
command, a file-system call or the power may fail at any of them, and most
error paths return from the middle of a sequence with part of it done. Every
model has those failures at every call.

## 1. Inventory

`src/` below is the repository root.

| Component | Source | State | Operations | Module |
|---|---|---|---|---|
| Block devices and partition table | `hal/src/blkdev/disks.c`, `partscan.c`, `recovery/common/mbr.c` | the area the card selects, the cached partition array of each disk with its count, sector 0 | `blk_initialize`, `blk_read`, `blk_write`, `mbr_set_partition_type`, `mbr_set_partition_boot_flag` | BlkDev, PartScan |
| Virtual file system | `hal/src/tinyvfs/tinyvfs.c`, `tinyvfs_mount.c`, `platform/syscalls/fdsycalls.c` | registered drivers, mount table, list of mounts, current mount, working directory, descriptors | mount/unmount of the table, every call on names or descriptors | TinyVfs, MountLifecycle |
| Bootloader update | `recovery/flash_bootloader.c` | image file, boot area, the loops' position and buffer | `flash_bootloader` | Bootloader, BootInstall |
| Conversion of the file system | `recovery/convert_fs.c` | partition table, contents and labels, logs and their backup | `repartition_fs` | Repartition, Conversion |
| Directory walker, copy, removal | `recovery/common/dir_walker.c`, `path_opts.c` | recursion, error, limit; the tree and its copy | `recursive_cp`, `recursive_unlink` | DirWalker |
| Program start and end | `recovery/main.c` | mounted or not, log open or not | `prepare_environment`, `destroy_environment` | Repartition (`Boot`, `Exit`) |
| File system drivers | `hal/src/tinyvfs/fs/` | caches, journal, driver data of a mount | `mount`, `unmount`, file operations | FsDrivers (mount, unmount) |
| eMMC driver | `hal/src/emmc.c` | card handle | `emmc_init` | BlkDev (`card`, `PowerCycle`) |
| Secure fuses | `recovery/security/pgmkeys.c`, `flash_secure_fuses.c`, `hal/src/security.c` | one-time-programmable words and locks | program the keys | - (called from nowhere) |
| Delay | `hal/src/delay.c`, `delay.h` | millisecond counter | `msleep`, `get_jiffiess`, difference of times | Delay |
| System calls | `platform/syscalls/` | none | translation of errors and flags | - |
| Keyboard, I2C | `hal/src/keyboard/`, `i2c_host.c`, `luarecovery/src/lkeyboard.c` | array of events; queue of the controller | poll | Keyboard |
| Display and GUI | `hal/src/display/`, `products/*/gui` | frame buffer | draw, refresh, wait for the panel | Delay (`eink_wait`) |
| Cryptography | `hal/src/hwcrypt/` | none | digest, verification | - |
| Lua interface | `luarecovery/src/` | none | argument checks around the above | - |
| Databases | `recovery/common/database.c`, `sqlite3_vfs.c` | sqlite's | sqlite's files over the VFS | - |
| Boot reason, console, faults | `boot_reason.c`, `console.c`, `hardfault.c` | registers | single accesses | - |
| Pattern matching | `recovery/common/match.c` | none | `regexec` | - |
| Products | `products/*/hal/system.c` | initialised or not | start-up in order | - |
| Vendor code | `platform/drivers`, `CMSIS`, `thirdparty` | - | environment of the models | - |
| Tests | `tests/`, `unittest/` | - | read for what they expect | - |

**How they interact.** Everything is a direct call. `repartition_fs` and
`flash_bootloader` are called by the script through Lua. They use
the walker and POSIX calls, which go through the descriptor table to the VFS,
through its mount to a driver, through the driver's disk functions to
`blk_read`/`blk_write`, and to the card. Three pieces of state are shared
across components without any of them owning it:

- the card's *area selection*, set by an access to the boot area and left there
  by its error paths, felt by every access to the user area (BlkDev,
  Bootloader);
- pointers into the *mount table*, held by the list of mounts, the current mount
  and every open file, and freed by an unmount (TinyVfs; Repartition checks that
  the one file the firmware itself keeps open, the log, is closed in time);
- *sector 0*, cached by the scan and rewritten under it by `mbr.c` (BlkDev,
  Repartition).

**What makes each part correct, and what is hard about it:**

- *Block layer.* A command reaches the area and the partition its caller named,
  for every sequence of calls and failures. Hard: the selection after errors,
  block numbers that wrap, an array index used as a slot number, a cache that
  outlives the scan that filled it.
- *VFS.* The table is mounted as a whole or not at all; a name leads to the
  mount it lies in and never to freed memory; relative and absolute names
  agree. Hard: failures in the middle of mounting and unmounting, the order of
  unmounting, state that outlives the table.
- *Bootloader update.* The image file, the only record that an update is due, is
  removed only when the boot area holds it. Hard: power loss, partial
  transfers, the area selection between two calls.
- *Conversion.* A device boots after it, keeps its logs, and is told the truth
  about the result. Hard: a dozen calls that may each fail, the power, a second
  call after an interrupted first.
- *Walker.* Success means the whole tree. Hard: errors propagated through a
  recursion that goes on after them, and failures nothing reports.
- *Scan of the partition table.* It ends, finds what is there, and stores no
  partition outside its extended one. Hard: chains that cross or lead back,
  products that wrap, a try counter that is set back.
- *Drivers.* What a mount holds in its library is there as long as the mount is,
  and no longer. Hard: half a dozen steps that each may fail, some of which are only
  warned about, and data that is freed on a failed unmount.
- *Delay.* A wait is long enough and ends. Hard: the interrupt between the look
  at the counter and the `wfi`; the end of the counter.
- *Keyboard.* Each event is handed out once and in order. Hard: keys that
  change between the transfers of a poll, and transfers whose result nobody looks at.

## 2. The modules

| Module | What it is |
|---|---|
| `BlkDev` | the block layer: state machine and properties |
| `MountLifecycle` | abstract: the mount table is down, up or wedged |
| `TinyVfs` | the virtual file system; implements `MountLifecycle` |
| `BootInstall` | abstract: an image waits until the boot area holds it |
| `Bootloader` | the bootloader update; implements `BootInstall` |
| `Conversion` | abstract: FAT becomes ext4 through a broken stage |
| `Repartition` | the conversion, from boot to end; implements `Conversion`, and uses the actions of `MountLifecycle` for the mount table |
| `DirWalker` | copying and removing trees |
| `PartScan` | the scan of sector 0 and of the chains of extended records |
| `FsDrivers` | mount and unmount inside the three file system drivers |
| `Delay` | the timer interrupt, `msleep`, the wait for the panel |
| `Keyboard` | a poll of the keyboard, transfer by transfer |
| `Hal` | composes the two: behaviours of the timer or of the keyboard |
| `MC*` | the constants of the TLC runs |
| `*Proofs` | theorems and proofs about the module they are named for |

The models are tied together by five seams. `BlkDev` takes the result of a scan as a
choice among tables; `PartScan` is the scan itself, and `ScanIsTaken` proves that
what it leaves is one of them. `TinyVfs` takes a driver's mount or unmount as one
that succeeds or fails; `FsDrivers` repeats the two loops over the table and shows
what happens inside each. Both are proved to implement `MountLifecycle`.
`Repartition` takes mounting and unmounting at the abstract specification that
`TinyVfs` is proved to implement. It takes the walker's copy and removal one file a
step, with the outcomes `DirWalker` has; its flag `listed` is `DirWalker`'s
`~unseen`. `Bootloader` takes from `BlkDev` what a failed or successful access does
to the area selection: `BootAccessOutcomes` proves that an access to the boot area
has the four outcomes it is given there.

### BlkDev

`selected` is the card's access-partition register. `disks` is `ctx.disks` of
`disks.c`: for each disk the array of partitions (element 1 is the raw disk), the
count `n`, and whether the disk has a card. `sector0` is sector 0 of each area,
which survives a power cycle, and `mbr` that of the user area; `cmd` is the last
data command, and `bootRet` what the last access to the boot area returned (both are
what callers see, not variables of the program). Contents are modelled of sector 0
alone: a write of data that reaches block 0 of an area may leave any of
`DataSectors` there (`LeavesInSector0`), also one through a block number that
wrapped, through an entry that starts at 0 or through the element behind the array.
`stray` notes that such a write to the user disk happened since the scan, or that
the scan read the boot area.

`Access` is `blk_read`/`blk_write` with all their exits: the check of the
partition number by `>` (so the number one behind the array is let through,
where the element is any of `Garbage`), the failing selection (which may have taken effect),
`-ERANGE`, the
failing command, the failing selection of the user area afterwards. `Finish` is
the only place where the user area is selected again. `BlkInitialize` is
the scan: the count cleared first, sector 0 read through whatever area is
selected, one wrong signature byte let through, empty, oversized and extended
entries dropped and the rest moved up. The two updates of `mbr.c` read, check
both signature bytes, change the entry
whose slot is the *array index*, and write; they go through the area that is selected. Their
caller (`convert_fs.c` 192) has used the partition before, so the model calls them and
the accesses only for a probed disk; `mbr_set_partition_boot_flag` has no caller.
Each operation is one action: no other code runs during a call.

### TinyVfs

`mps` is the calloc'ed table; an element is named by its index, and what still
points to it once the table is freed is `Freed`. Using `Freed`, a null mount or an
unmounted element's null `fs` sets `fault`, and the model stops: the C behaviour is
undefined from there. `fopsl`, `current`, `cwd`, `handles` are `ctx.fopsl`,
`ctx.current_mnt`, `ctx.cwd` and `file_handles`. The loops of `vfs_mount_init` and
`vfs_unmount_deinit` are one element a step (`MountEntry`, `UnmountEntry`), so that
TLC reports where in the loop a property breaks; no other operation runs in between.
`Unlinked` models the list removal as it is written: it relinks only at the head.
`Entry` is `vfs_get_mnt_point`, with its refusal of names of one character. The
comparison in `vfs_rename` looks at the text of the mount point and at nothing
behind it, so a name that begins with that text (`Extensions`: `/system_b` with
`/system`) passes for one in the same mount; it has any outcome for a relative name,
whose `match_len` is never set. `MountInit` may end after some drivers found memory
to register (`SomeTypes`): a later one that finds none drops the array and keeps the
number (`tinyvfs.c` 143-148), and the next mount searches an array that is not there
(`DriversLost`).

### Bootloader

One round of the write loop (`FlashChunk`) or of the verify loop (`VerifyChunk`) is
a step, and power may go between any two; a write cut off half-way stores a prefix
of its sectors. `Loaded` is what `fread` leaves in the buffer, with the bytes behind
a partial last transfer, and `sz`/`lba` are the loop's variables, in bytes.
`UserWrite` is what happens between calls when the boot area was left selected: a
write to the user area lands in the boot area. With the boot area selected, the
file's content may be wrong sector by sector; its size is taken to be read right or
not at all (the directory entry is in the driver's cache, or the lookup fails).

### Repartition

The variables are split into what is on the eMMC and what is in RAM. `pc` names
the next call of `repartition_fs`, each of which may fail, and several of which
may have their effect though they report failure. `Boot`, `Exit` and
`PowerCycle` close the loop over any number of boots. The abstractions: a
partition's content is `fat`, `erased`, `partial` or `ext4`; log files have
no content; an unmount that fails at its first element leaves all mounted, one that fails
later wedges the table; `boot.json` is read as part of `RepartitionFs`, which fails or
not. `userFs` tells whether the file system of `/user` creates
the parents of a new file (ext4 here does), because nothing makes
`/user/tmp_backup`.

### DirWalker

The recursion is a stack of directories with what is still unread of each. Every
entry, buffer and return is a step. `WalkForgiving`, like the other definitions with
a long name before the one they vary, is a mutant. A file of the copy is `part`,
`torn` (a short write), or `whole`. `Loops` has the outcomes of two `lseek` calls
that may fail. A path is refused only when directory and entry have more than 1024
characters (`LongPaths`); with 1023 or 1024 it is cut, and names another entry or
nothing (`Named`). `unseen` and `sought` remember, for the properties, that a
failure happened that nothing in the code reports.

### PartScan

`image` is what the disk holds and never changes; `ScanPartitions` reads sector 0,
`EnterRoot` begins `parse_extended` for the next extended entry, and each round of
its loop is one `VisitRecord`, which ends the walk, follows a link, or stores
partitions (`Logicals`) in the order of the code. Products by the sector size are
cut to `WordSize` exactly where the code multiplies in 32 bits, and not in
`check_partition`, which multiplies in 64. The sizes and links are compared as the
code does: a link's start counts from the extended partition, an entry's from its
record, and what is stored as a logical partition's start is its *record's* sector
(`partscan.c` 171) although `blk_dev.h` 30 calls the field `//! First sector`: the
two agree only for entries whose start is 0 (finding 4). `parts` that grows behind
`MAX_NUM_PARTS` leads to `overrun`, from where the C behaviour is undefined. A first
extended sector of `UINT32_MAX` equals the mark for "nothing read", so the buffer is
parsed as `malloc` left it (`Garbage`).

### FsDrivers

`ext` holds what lwext4 has: volumes allocated by `ext4_diskio.c`, devices
registered, points mounted, journals running. `drive` is FatFs's table of work
areas, `contexts` counts littlefs's I/O contexts, `data` is `mp->fs_data`. Each
driver's mount and unmount has one outcome per step that can fail. What the
model shows beside its properties, none of it contradicting a document:

- `ext_mount` reports a failure when only the write-back mode was refused, though
  the mount is complete (`vfs_ext4.c` 96-102);
- after a failed `ext4_recover` the result of `ext4_umount` is not looked at (86);
- a failed `dlfs_mount` frees the driver's data and then reads its configuration
  (`vfs_littlefs.c` 333-335): the fault `freed_config`;
- littlefs and FatFs free the driver's data even when unmounting failed, and the
  mount stays in the list: any call on it, and a second unmount, is then a fault
  (`null_data`, `freed_drive`), while an ext4 mount merely loses its journal.
  `TinyVfs` knows a failed unmount as one that changes nothing, which is right for
  ext4 only;
- the I/O context of a littlefs volume is never freed (340-347).

### Delay

Two actors. `Tick` is the interrupt; `Look` and `Wfi` are the two halves of a
turn of `msleep`'s loop, so that a tick may fall between them. `ticked` limits the interrupt
to one tick between two steps of a program that runs, which takes far less than
a millisecond for a step; a program that sleeps, or is not in a wait, sees any number.
`EinkWait` and `EinkLook` are `eink_wait`, which calls `msleep(1)`.
`begin`, `want`, `elapsed`, `since`, `waited` are what a caller with a watch would note.

### Keyboard

`fifo` is the controller's queue (external), `events` and `i` are the driver's array
and index, `retval` its one byte for all transfers. `KeyChange` may come between any
two transfers. A transfer fails without effect on `retval` (so the byte before
counts again, the number of events itself as a key code: a failed first read after a
count of 2 is the key of code 2), or is not answered, in which case the driver waits
for ever (`Nack`). `view` is the bit of the event a script was handed last of each
key: what the bit stands for is left out, because the code contradicts itself there
(section 3). `step` is where the program is; the definitions carry `Kbd` in their
names because `Hal` extends Keyboard and Delay.

### Hal

The timer and the keyboard's controller have no state in common, and the program is in a
call of one of them at a time. A behaviour of `Hal` is one of the device it `observed`
from the start, with that module's fairness; the other's variables keep their
first values.

## 3. What the runs check

| Run | Distinct states | Shows |
|---|---|---|
| `blkdev` (`MCBlkDev.cfg`) | 49 013 | routing, bounds, coherence of the cached table |
| `blkdev_routing` | violation | finding 1 |
| `vfs` (`MCTinyVfs.cfg`) | 47 405 | the mount lifecycle, the list, faults, names |
| `bootloader` (`MCBootloader.cfg`) | 135 931 | the update survives failures and power cuts |
| `repartition` (`MCRepartition.cfg`) | 4 876 | the conversion over any number of boots |
| `repartition_labels` | violation | finding 2 |
| `repartition_backup` | violation | finding 3 |
| `dirwalker` (`MCDirWalker.cfg`) | 13 363 | success means the whole tree; calls return |
| `partscan` (`MCPartScan.cfg`) | 52 309 | the scan ends, finds all, stays inside |
| `partscan_start` | violation | finding 4 |
| `hal` (`MCHal.cfg`) | 737 822 | waits are punctual and end; events arrive once and in order |
| `fsdrivers` (`MCFsDrivers.cfg`) | 35 491 | the drivers' data matches the mounts |

Every property is stated with a comment in its module. The ones worth a reader's
time:

- **BlkDev.** `MisroutedOnlyAfterBootError`: with no failed boot access in between,
  any sequence of calls is routed correctly. `InsidePartition`: a command for a
  listed partition stays inside it, unless the block numbers wrap.
  `CountedPartsExist`: no count outlives its array. `GeometryCoherent`: the cached
  place of a partition is the one in sector 0, whatever data was written and
  whichever updates failed, until a write that may hit the table by mistake: one
  whose block number wraps, one to an entry that starts at sector 0 or does not lie
  on the disk, one through the element behind the array. The code does not keep such
  writes from sector 0 (`disks.c` 34-43, 207). `UpdateHitsItsPartition`: while the
  cached array has no hole (`Dense`: whenever a slot is in it, so is every slot
  before), an update leaves the other cached partitions' entries alone (with a hole
  before the partition it does not; none of the repository's documents say whether
  such tables occur, hence the condition). The condition is about the array of the
  last scan, not about sector 0: the update of an extended entry can fill the hole
  on the disk while the array keeps it, and the next update by index goes astray.
  The attempt to prove the property of sector 0 led to that state; one of the run's
  tables now reaches it.
- **TinyVfs.** `MountsTogether` (refinement of `MountLifecycle`),
  `ListIsMounted` (why unmounting in table order works at all), `FaultsExplained`,
`NamesAgree`. `RenamesStay`: a rename of an absolute name crosses into another mount
only where that one's mount point begins with the text of the first one's.
- **Bootloader.** `Installs` (refinement of `BootInstall`),
  `RemovalFailedIsInstalled`, and `RangeErrorExplained`: the image that is refused
  after it was written correctly is the one that leaves no room for one more
  transfer.
- **Repartition.** `LogsSurvive`, `SuccessIsComplete`, `LogClosedWhileDown`,
  `BootsAgain`, `OneWay` (refinement of `Conversion`: the stage in which the
  device cannot boot is left only by the conversion that entered it).
- **DirWalker.** `CopyIsWhole`: a copy that reports success is whole, up to the four
  failures nothing reports: of `readdir`, of a path that is cut, of a short write,
  of `lseek`. `RemovalIsWhole`, `Terminates`.

- **PartScan.** `LogicalsInside` and `FindsAll`: on a disk of less than 2^32
  bytes whose links stay in their extended partition - whatever else its records
  hold, chains that lead back included - the sanity checks let nothing through
  that lies outside, and a scan that kept its tries has missed nothing: every
partition is in the array with code and size, and those that begin at their record
with their first sector. The first sector of the others is finding 4.
  `OverrunExplained`: the array overflows only through a record parsed
  twice or a disk with more partitions than it has room for. `ScanEnds`: each record
  that sets the counter of tries back also fills the array, so no loop goes on for ever.
- **FsDrivers.** `MountsBacked`: a listed mount has all its driver needs until an
  unmount of *it* fails. `LibrariesBalanced`: the libraries hold exactly what is
  mounted, so that lwext4's table of devices never fills up over
  any number of mounts; a volume of a failed conversion stays, as one each.
- **Delay.** `Punctual`: `msleep` is never early and at most one tick late, and a
  timeout of the panel means that the panel had its time. `Returns`: both waits end.
  Both need the end of the counter (49 days after power-on) to be far. Near it the
  first wait for the last value ends on time only if the program looks in that very
  millisecond: a tick missed between look and `wfi` there costs another turn of the
  counter.
- **Keyboard.** `InOrder`: what was handed out, read and is still queued is the
  sequence of events, each once, but for reads that failed. `Settles`: once keys
  rest, a script that goes on polling holds of each key the bit of its last event
  and not of an earlier one.

**Findings.** Four runs check one property each that a comment or document of
the repository states, and end in a counterexample.

1. `RoutedToAddressedArea`: a failed access to the boot area leaves it selected,
   and the next access to the user area goes there (`disks.c` 147-173, 196-220).
2. `LabelsFixed`: run from slot B, the conversion labels slot B's partition
   `system_a` (`convert_fs.c` 368); it then looks for slot B's mount, which is not there,
   and reports a failure (385).
3. `NoLogLost`: a `readdir` that fails half-way ends the backup with success, and
   the partition is erased (`direntsyscalls.c` 69-73, `dir_walker.c` 62).
4. `StartIsFirstSector`: a logical partition that does not begin at its record is
   stored with the record's sector as its `//! First sector` (`partscan.c` 171,
   `blk_dev.h` 30).

Smaller disagreements met while modelling, which have no run of their own:

- `vfs_rename` compares `match_len` characters without looking at what follows
  (`tinyvfs.c` 760), and for a relative name over an uninitialised length, against
  its comment "Make sure both files are mounted on the same path" (759).
  `RenamesStay` says how far the first goes, and is about absolute names because of
  the second. The text of the slots' mount points comes from outside the repository
  (`get_prefix`): whether one begins with another is not known here.
- The walk goes on in the parents of the directory an error was met in
  (`dir_walker.c` 81), against "exits on first error" (`dir_walker.h` 42).

- `keyboard.c` 97 says `rel_pres: 0 - key release, 1 - key press`, but `kbd_pressed`
  is 0 and `kbd_released` 1 (`keyboard.h` 46-48), and these are what `lkeyboard.c`
  84-87 exports: by that comment a script is told the opposite of each key's event.
  Which of the two the controller sides with is not in the repository, so `Settles`
  and `InOrder` are about the bit and claim no name for it.
- `kbd_lock` changes nothing: `TCA8418_ModifyReg` receives where it should send.
- `_open` keeps the slot of a file that failed to open, so slots run out
  (`fdsycalls.c` 36-42, a state of TinyVfs); `jiffiess_timer_diff`, used by tests
  only, takes the difference across a wrap the wrong way round (`delay.h` 26);
  `vfs_truncate` passes a structure it never initialised to `vfs_open` (`tinyvfs.c`
  470).

**Mutants.** Each property of a passing run has a mutant: a variant of one mapped
definition, written beside it (`FlashedUnverified` beside `Flashed`), as a
plausible bug would make it. Put in place of the original it makes TLC find
that property violated. This shows that no property holds for lack of anything
that could break it.

### Bounds, and why they are enough

- *BlkDev*: 6 user and 2 boot sectors with 3-bit block numbers, so that the ends of
  the partitions and of the boot area and the wrap-around all fall among the
  enumerated block numbers 0, 1, 7 and transfers of 1 or 2. Five boot records: with
  holes, with an extended and an oversized entry, with an extended entry before the
  others, with half a signature, with none; data that reads as half a table with an
  entry at sector 0, and a table left in the boot area. Nothing in the code depends
  on larger numbers but through the same sums.
- *TinyVfs*: the two tables the program mounts one after the other (`/user` alone,
  then the three of `mount_points.c` 27-46, the prefix of slot B beginning with
  `/system`) and one that names a mount point twice; registrations that stop before
  the first driver and after one; names in a mount, in none, beside one, too short,
  relative; two descriptors, so that one can be open or leaked while the other is
  used; a working directory of at most 3 components (`MaxDepth`, a guard of
  `Chdir`).
- *Bootloader*: two sectors of two bytes a transfer and an area of three transfers:
  a first, a middle and a last round, a partial transfer whose end falls in its
  second sector, an image below the minimal size, and one that leaves no room for
  the read-back.
- *Repartition*: two log files, so that a backup can hold one and miss one. Any
  number of boots and calls.
- *DirWalker*: trees of up to three directories with a limit of two, so that the
  limit is met both exactly and beyond; an empty file, one of one buffer, one of
  two; one path too long, a file and a directory whose paths are cut to those of
  others, which are in the tree or not.

- *PartScan*: ten sectors of two bytes with words of four bits, so that products
  wrap inside the disk; three record sectors, each any of a few contents, which
  gives chains that end, cross, lead back, leave the partition and leave the disk;
  an array of seven (four entries of sector 0, the raw disk and two more) and two
  tries.
- *FsDrivers*: both tables of `main.c`, every assignment of the three types to three
  partitions, a device table as large as lwext4 is configured, one conversion per
  partition, four littlefs mounts (`MaxLfsMounts`, because their contexts are never
  freed).
- *Hal*: a counter of 13 values with waits of 0 and 3 (and of 1, by `eink_wait`) and
  three turns of `eink_wait`: calls far from the end of the counter, across it and
  ending at it. Two keys, one of which is the code a count of two reads as; a queue
  of two, so that three changes between two polls overflow it; four events, two
  failures.

No counter is cut off by a state constraint. `MCTinyVfs.cfg`, `MCFsDrivers.cfg`
and `MCHal.cfg` turn the deadlock check off, because nothing runs after a
fault, once a mount of the table has failed, or when a transfer hangs; every other
run has it on.

### Fairness and liveness

- *DirWalker*: `WF_vars(Step)`. The firmware is one thread and no call in it
  blocks, so a call that has begun takes its next step. `CopyFails` is not part
  of `Step`: an error may end a copy but none has to come. `Terminates` is then what the
  code gives: every call returns unless an `lseek` failed, in which case `read` may
  return 0 for ever while the remaining size never reaches 0.
- *PartScan*: `WF_vars(Scan)`: nothing in the scan waits.
- *Delay*: `WF_vars(Tick)`, the timer runs, and `WF_vars(Program)`, a program that is awake
  goes on. A sleeping one is woken by the tick; that it goes on before the next
  tick is what `ticked` says. Nothing is assumed of the panel or of other interrupts.
- *Keyboard*: weak fairness of the program's steps: a script polls again and again
  (the scripts are not in the repository, but polling is the only way to read keys), and
  a transfer ends one way or another. Nothing is assumed of keys and failures.

The other models have no liveness property: their operations are straight sequences
or loops over a fixed count, and an update that fails may fail every time.

## 4. What is proved

The proofs hold for every value of the constants that the named assumptions
allow. TLC evaluates those assumptions in every run.

| Module | Assumptions | Theorems |
|---|---|---|
| `BlkDevProofs` | `SizeAssumption`, `TableAssumption` | `TypeCorrect`, `SelectionCorrect`, `RoutedAfterSuccess`, `Inside`, `Counted`, `Geometry`, `CachedCompact`, `UpdatesTheirSlot`, `BootAccessOutcomes` |
| `TinyVfsProofs` | `VfsAssumption` | `TypeCorrect`, `ListCorrect`, `LifecycleImplemented`, `FaultsCorrect`, `NamesCorrect`, `RenamesCorrect` |
| `BootloaderProofs` | `BootAssumption` | `TypeCorrect`, `RemovalFailed`, `InstallImplemented`, `RangeErrors` |
| `RepartitionProofs` | none | `TypeCorrect`, `Success`, `LogClosed`, `Boots`, `LogsKept`, `OneWayImplemented` |
| `DirWalkerProofs` | `TreeAssumption` | `TypeCorrect`, `CopyCorrect`, `RemovalCorrect`, `EveryStepAdvances` |
| `PartScanProofs` | `WidthAssumption`, `ImageAssumption` | `TypeCorrect`, `LogicalsStayInside`, `NothingMissed`, `OverrunHasACause`, `RoomLeft`, `ScanIsBounded`, `ScanIsTaken` |
| `HalProofs` | `DelayAssumption`, `KeyboardAssumption` | `TypeCorrect`, `PunctualAlways`, `WaitIsBounded`; `KbdTypeCorrect`, `EventsInOrder`; `HalTypeCorrect`, `DevicesCorrect` |
| `FsDriversProofs` | `DriversAssumption` | `TypeCorrect`, `MountsAreBacked`, `LibrariesAreBalanced`, `DriversImplementLifecycle` |

Each proof goes through an inductive invariant, stronger than the property, with
one step per action or group of actions.

- *BlkDev.* Three small invariants, each kept beside `TypeOK`. `RoutingInv` is
  `SelectionInv /\ MisroutedOnlyAfterBootError`, which only together are inductive:
  a command is misrouted only from a selection left behind. `GeometryCoherent` is
  inductive once stated of any array and any sector 0 (`Placed`): a write that is
  `Proper` and goes to the user area is not at block 0. `InsidePartition` speaks of
  the last command and the present array, so it needs `CommandInv` (no command and
  no probed disk without a card: only then does a new scan come with a new command)
  and `RawInv` (a raw disk is the first element of its array). `CompactInv` is the
  shape of the array: the raw disk, the kept entries in the order of their slots,
  then the logical partitions. It is proved from a lemma about one slot that is
  joined to a compact array (`FoundCompact`), used four times; `DenseIndex` then
  makes the index of an array without holes the slot, which is what `mbr.c` takes it
  for, and `UpdatesTheirSlot` follows. `BootInv` (the probed boot area is one raw
  disk without a table) makes the range check of an access to it the one
  `Bootloader` calls `InArea`.
- *TinyVfs.* `LoopInv` says what the two loops have done at index `n`. `TableInv` is
  the key: the mounted elements are an interval `first .. last` of the table
  (`Window`) and the list is that interval in order, so the element unmounted next
  is always the head. `PointsDiffer` (no two mounts at one point) and `CwdInv` (the
  working directory begins with the current mount's point, from the first mount
  until the first unmount) give `NamesAgree`; `HandleInv` (an open descriptor has a
  mount) serves `FaultsExplained`. `RenamesStay` needs no more than the list: both
  names lie in elements of it (`EntryPoint`), which compare equal or are one of
  `Extensions`; nothing is assumed of these.
- *Bootloader.* `IInv == TypeOK /\ LoopInv /\ VerifyInv /\ SelectInv /\
  RemovalInv`. `VerifyInv` is the heart: the bytes before `lba` compared equal to
  the image's, and `lba + sz` is the image's size. It is inductive only because a
  round of `verify_ecoboot` reads the boot area first, which leaves the user
  area selected for the file: a file read from the wrong area never counts
  as verified. `SelectInv` (the boot area is left selected only while an image
  waits) and `RemovalInv` carry this over to what happens between calls.
  `RangeInv` (the loops count whole transfers, none of which begins behind the
  image's last) gives `RangeErrorExplained` by the order of products (`ChunksInOrder`).
- *Repartition.* `IInv == TypeOK /\ RamInv /\ StageInv /\ LogInv /\ ResultInv`:
  what is mounted and whether the log is open at each place of the sequence,
  what the partition and its table entry are there, where the logs are, and
  what a result on its way out already stands for.
- *DirWalker.* `CoverInv` is the heart: whatever lies in a directory that has been
  made in the copy is whole, or still unread in some listing, or the file being
  copied. It rests on `DoneInv` (a listing that ended without error or loss has
  nothing unread), `IdleInv`, `LoopInv` and `RootedInv`. When the stack is empty
  every child of a copied directory is copied; that the whole tree then is needs
  that no directory lies below itself, which `TreeAssumption` says and every
  file system provides. `EveryStepAdvances` is the argument for the end of a call: each
  step, one that fails included, lowers the first that changes of the limit, the depth
  of the recursion, whether the innermost listing goes on, what is unread in it, and the
  buffers left of a file (`Advances`). In a finite tree that cannot go on for ever.
  It rests on `SizeInv`, that position and rest make up the file's size, which only a failed
  `lseek` breaks.
- *PartScan.* Lemmas on words and products say when the 32-bit comparisons are the
  exact ones. `Straight` (on a regular disk the walk stays in its root, with sizes
  that did not wrap) then gives `LogicalsInside`; `FoundInv` adds what the
  records parsed so far have led to; `CountInv` counts the elements stored
  against the entries of the records parsed, each at most once while none was parsed twice.
  `RoomInv` needs nothing of the disk: a scan that goes on has room for an entry, so what
  is written behind the array is one record's four elements at most. By it `Rank`, the
  rounds left (those of the extended entries to come, of the room in the
  array and of the tries), is a natural number that every step lowers. With the
  code's 104 elements and 100 tries a scan of any disk, also one whose
  chains lead back into themselves, ends after at most 42 426 steps of the model.
  `TailInv` keeps the array's beginning: the raw disk and the primary entries as `BlkDev`
  has them, and logical ones only behind an extended entry. In `ScanIsTaken`
  `BlkDev` is instantiated with every sequence of logical partitions: what it
  assumes of them beyond that is what its runs enumerate.
- *Delay.* `SleepInv` ties the ticks that passed to the counter, the loop and
  whether a tick has come since the look: that makes "at most one late" inductive.
  `WaitInv` sums them up over the turns of `eink_wait`: a tick at least and three at
  most for each, which is `Punctual`'s last part and `WaitIsBounded`.
- *Keyboard.* `KbdInv` is `KbdTypeOK` with what the call stands for at each of its
  transfers: until the count is read nothing is counted and read (`Fresh`) and then the
  array is clear (`Asked`), the elements before `i` have a key and those from `i` on are 0
  (`Filled`), the events queued have one (`Keyed`), and in the loop the queue holds what is
  left to read and the byte a failed read repeats has a key too, because it is
  the count or an event (`Reading`). So no read is one of an empty queue,
  `_poll` stops at `i`, and it is handed just what was read (`HandedOutIsRead`);
  `InOrder` is kept: an event moves from the head of the queue to the end of what was read
  (`MoveHead`) and from there to what was handed out.
- *Hal.* A step of `Hal` is a step of each device or leaves it alone (`HalStep`), so the two
  invariants carry over.
- *FsDrivers.* `IInv == TypeOK /\ Phases /\ MountsBacked /\ LibrariesBalanced`:
  the two properties are inductive together once `Phases` says which elements of
  the table are listed at each index of the two loops. The refinement maps a table whose
  elements from the next one to unmount on are all listed to `up`, and any other
  registered one to `wedged` (`State`), whatever the libraries still hold.

The action property `LogsSurvive` and the four refinements rest on the same
invariants: initial states map to initial states, and each step to a step of the
abstract specification or to none.

**Only model-checked.** `Terminates`, `ScanEnds`, `Returns` and `Settles` are
liveness, which this prover does not do (it knows neither fairness nor `ENABLED`).
What is behind the first three is proved: `EveryStepAdvances` and `ScanIsBounded`
say that each step of a call or a scan lowers a measure, `Punctual` and
`WaitIsBounded` how many ticks a wait can take. That steps and ticks go on coming is
what fairness adds. Every other property of a passing run has its theorem; the four
violated properties have none, of course.

## 5. What is not modelled

- *BlkDev*: the second boot area is like the first; of what blocks hold, sector 0
  alone; calls for a disk that was never probed, which the program does not make.
- *PartScan*: the erase sizes of littlefs read from sector 0, which are data.
- *FsDrivers*: operations on files, which keep no state in the drivers;
  failed allocations inside `vfs_lfs_append_volume`, whose result is not looked at.
- *Delay*: the `DEBUG` build, which looks at the counter without sleeping.
- *Keyboard*: the initialisation of the controller; keys 1 to 80 but the two of the run.
- *Secure fuses*: `flash_secure_fuses` is called from nowhere in the repository, so
  no behaviour of the program includes burning a key. Had it a caller, the hazards
  to look at would be key words and the lock burnt one after the other (`pgmkeys.c`
  148) and the wait for an error flag that nothing clears (`security.c` 23).
- *TinyVfs*: directory handles and the listing of `/`; `readmount`; mount points
  below other mount points, which the program never makes; the bounds of copied
  names (`tinyvfs.c` 912, 915); failed allocations of list nodes; a new table at
  a freed table's address.
- *Repartition*: a switch of slots between two boots; log files written while the
  conversion is away; the mounting of `/user` alone before the whole table, which is
  part of `Boot`.
- *DirWalker*: the text functions on paths in `path_opts.c`.
- Most of the repository's lines are vendor headers (`MIMXRT1051.h`, `arm_math.h`,
  `sqlite3.h`), images as arrays and vendor drivers, which have no behaviour
  to model. Of the program's own state-changing code the map covers most; as a share
  of all lines it is small, and no widening of the model would change that.
- The components without a module in the table of section 1: pure computation,
  register accesses, pixel data, vendor code, or code that is not in this
  repository.

## 6. Plan

Done, in this order: BlkDev, TinyVfs, Bootloader, Repartition, DirWalker, then the
layers they rest on: PartScan, Delay, FsDrivers, Keyboard (Delay and Keyboard in one
run, by Hal). Each has its run, its mutants and its proofs (those of Delay and
Keyboard are both in `HalProofs`), and an abstract specification where it promises
one. What could follow:

1. what remains of the seam between `TinyVfs` and `FsDrivers`, which agree on
   `MountLifecycle`: a failed unmount of a littlefs or FAT mount is a state
   `TinyVfs` does not have;
2. the descriptor table of `fdsycalls.c` as a module of its own, with `_open`'s
   leaked slots and the directory handles;
3. the seam between `DirWalker` and `Repartition` as a refinement.
