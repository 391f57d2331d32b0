------------------------------ MODULE FsDrivers ------------------------------
(***************************************************************************)
(* The file system drivers' mount and unmount (hal/src/tinyvfs/fs) below   *)
(* the mount table: what each leaves in its library - lwext4, FatFs,       *)
(* littlefs, which are external and known by these calls only - and in the *)
(* mount's fs_data, on success and after the failure of any of its steps.  *)
(* TinyVfs shows the table above, where a driver's mount simply succeeds   *)
(* or fails.  A mount is named by its device; its point is its own.        *)
(***************************************************************************)
EXTENDS Naturals, Sequences, FiniteSets

CONSTANTS
    Devices,        \* the partitions, as handles of the block layer
    FatDrives,      \* those whose number is a FatFs drive, 0 .. 9
    Fstabs,         \* the tables vfs_mount_init is called with
    ExtDevices,     \* CONFIG_EXT4_BLOCKDEVS_COUNT
    MaxConversions, \* bound: conversions of a partition
    MaxLfsMounts    \* bound: mounts of a littlefs partition

ASSUME DriversAssumption ==
    /\ FatDrives \subseteq Devices
    /\ ExtDevices \in Nat /\ MaxConversions \in Nat /\ MaxLfsMounts \in Nat
    /\ \A tab \in Fstabs :
           /\ tab \in Seq(Devices) /\ tab # <<>> /\ Len(tab) <= ExtDevices
           /\ \A i, j \in DOMAIN tab : tab[i] = tab[j] => i = j

VARIABLES
    type,       \* the file system each partition's code names
    registered, \* a driver is registered with the VFS (ctx.num_fse > 0)
    tab,        \* the devices of the mount table, <<>> when there is none
    listed,     \* the mounts whose fs is set: those in the list
    data,       \* mp->fs_data: null, live, or freed
    op, n,      \* the loop over the table that runs, and its index
    ext,        \* lwext4: volumes, device and mount tables, journals
    drive,      \* FatFs's work area of each drive: none, live, or freed
    contexts,   \* the I/O contexts of littlefs that are allocated
    tried,      \* the mounts of which an unmount failed
    refused,    \* the ext4 mounts whose journal could not be started
    left,       \* the conversions that failed with their volume allocated
    fault

vfs == <<registered, tab, listed, op, n>>
libs == <<ext, drive, contexts>>
history == <<tried, refused, left>>
vars == <<type, vfs, data, libs, history, fault>>

Types == {"ext4", "vfat", "littlefs"}
Nothing == [volumes |-> [d \in Devices |-> 0], devs |-> {}, points |-> {}, journals |-> {}]

Init ==
    /\ type \in [Devices -> Types]
    /\ registered = FALSE /\ tab = <<>> /\ listed = {} /\ op = "idle" /\ n = 0
    /\ data = [d \in Devices |-> "null"]
    /\ ext = Nothing /\ drive = [d \in Devices |-> "none"] /\ contexts = 0
    /\ tried = {} /\ refused = {} /\ left = [d \in Devices |-> 0]
    /\ fault = "none"

Idle == op = "idle" /\ fault = "none"

-----------------------------------------------------------------------------
(* ext4 *)

WithVolume(x, d) == [x EXCEPT !.volumes[d] = @ + 1]
WithoutVolume(x, d) == [x EXCEPT !.volumes[d] = @ - 1]
WithDevice(x, d) == [x EXCEPT !.devs = @ \cup {d}]
WithoutDevice(x, d) == [x EXCEPT !.devs = @ \ {d}]
WithPoint(x, d) == [x EXCEPT !.points = @ \cup {d}]
WithoutPoint(x, d) == [x EXCEPT !.points = @ \ {d}, !.journals = @ \ {d}]
WithJournal(x, d) == [x EXCEPT !.journals = @ \cup {d}]
WithoutJournal(x, d) == [x EXCEPT !.journals = @ \ {d}]

\* A failed ext_mount undoes what came before the step that failed: no
\* volume; not registered (the table is full, or the name is in it); not
\* mounted; not recovered - where the result of ext4_umount is not looked at.
FailedExtMountsOfNoVolume(d) ==
    LET volume == WithVolume(ext, d)
        device == WithDevice(volume, d)
        point == WithPoint(device, d)
    IN  {WithoutVolume(ext, d), WithoutVolume(volume, d), WithoutVolume(WithoutDevice(device, d), d)} \cup
        {WithoutVolume(WithoutDevice(x, d), d) : x \in {point, WithoutPoint(point, d)}}
FailedExtMounts(d) ==
    LET volume == WithVolume(ext, d)
        device == WithDevice(volume, d)
        point == WithPoint(device, d)
    IN  {ext, WithoutVolume(volume, d), WithoutVolume(WithoutDevice(device, d), d)} \cup
        {WithoutVolume(WithoutDevice(x, d), d) : x \in {point, WithoutPoint(point, d)}}

\* A journal that does not start is only warned about.
DoneExtMounts(d) ==
    LET point == WithPoint(WithDevice(WithVolume(ext, d), d), d)
    IN  {point, WithJournal(point, d)}

\* If only the write-back mode is refused, everything is mounted and set up,
\* but the mount is reported to have failed.
ExtMount(d, ok) ==
    /\ \/ /\ ~ok /\ ext' \in FailedExtMounts(d)
          /\ UNCHANGED <<data, refused>>
       \/ /\ d \notin ext.devs /\ Cardinality(ext.devs) < ExtDevices
          /\ ext' \in DoneExtMounts(d)
          /\ data' = [data EXCEPT ![d] = "live"]
          /\ refused' = IF d \in ext'.journals THEN refused \ {d} ELSE refused \cup {d}
    /\ UNCHANGED <<drive, contexts, fault>>

\* The journal is stopped (or not: only warned about) before ext4_umount may
\* fail.  fs_data is not cleared.
ExtUnmountKeepsDevice(d, ok) ==
    /\ data[d] # "null"
    /\ \E x \in {ext, WithoutJournal(ext, d)} :
           IF ok THEN /\ ext' = WithoutVolume(WithoutPoint(x, d), d)
                      /\ data' = [data EXCEPT ![d] = "freed"]
           ELSE ext' = x /\ UNCHANGED data
    /\ UNCHANGED <<drive, contexts, fault>>
ExtUnmountEarly(d, ok) ==
    /\ data[d] # "null"
    /\ \E x \in {ext, WithoutJournal(ext, d)} :
           IF ok THEN /\ ext' = WithoutVolume(WithoutPoint(WithoutDevice(x, d), d), d)
                      /\ data' = [data EXCEPT ![d] = "freed"]
           ELSE ext' = WithoutDevice(x, d) /\ UNCHANGED data
    /\ UNCHANGED <<drive, contexts, fault>>
ExtUnmount(d, ok) ==
    /\ data[d] # "null"
    /\ \E x \in {ext, WithoutJournal(ext, d)} :
           IF ok THEN /\ ext' = WithoutVolume(WithoutDevice(WithoutPoint(x, d), d), d)
                      /\ data' = [data EXCEPT ![d] = "freed"]
           ELSE ext' = x /\ UNCHANGED data
    /\ UNCHANGED <<drive, contexts, fault>>

-----------------------------------------------------------------------------
(* vfat *)

\* f_mount keeps the work area it is given even when it then fails.
FatMount(d, ok) ==
    /\ \/ ~ok /\ UNCHANGED <<data, drive>>               \* -ENOMEM
       \/ ~ok /\ d \notin FatDrives /\ UNCHANGED drive   \* -ERANGE
          /\ data' = [data EXCEPT ![d] = "live"]
       \/ /\ d \in FatDrives
          /\ data' = [data EXCEPT ![d] = "live"]
          /\ drive' = [drive EXCEPT ![d] = "live"]
    /\ UNCHANGED <<ext, contexts, refused, fault>>

\* The work area is freed whatever f_unmount returned, which writes to it.
FatUnmount(d, ok) ==
    /\ data' = [data EXCEPT ![d] = "null"]
    /\ IF drive[d] = "freed"
       THEN fault' = "freed_drive" /\ ~ok /\ UNCHANGED drive
       ELSE /\ drive' = [drive EXCEPT ![d] = IF ok THEN "none" ELSE "freed"]
            /\ UNCHANGED fault
    /\ UNCHANGED <<ext, contexts>>

-----------------------------------------------------------------------------
(* littlefs *)

\* A volume whose size is refused keeps its context; after lfs_mount failed
\* the driver's data is freed and its configuration then used.
LfsMount(d, ok) ==
    /\ contexts < MaxLfsMounts
    /\ \/ ~ok /\ contexts' \in {contexts, contexts + 1} /\ UNCHANGED <<data, fault>>
       \/ ~ok /\ contexts' = contexts + 1 /\ fault' = "freed_config" /\ UNCHANGED data
       \/ /\ ok /\ contexts' = contexts + 1 /\ UNCHANGED fault
          /\ data' = [data EXCEPT ![d] = "live"]
    /\ UNCHANGED <<ext, drive, refused>>

\* fs_data is freed whatever lfs_unmount returned, the context never.
LfsUnmount(d, ok) ==
    /\ IF data[d] = "null" THEN fault' = "null_data" /\ ~ok /\ UNCHANGED data
       ELSE data' = [data EXCEPT ![d] = "null"] /\ UNCHANGED fault
    /\ UNCHANGED libs

-----------------------------------------------------------------------------
(* The table: vfs_mount_init and vfs_unmount_deinit *)

DriverMount(d, ok) ==
    \/ type[d] = "ext4" /\ ExtMount(d, ok)
    \/ type[d] = "vfat" /\ FatMount(d, ok)
    \/ type[d] = "littlefs" /\ LfsMount(d, ok)

DriverUnmount(d, ok) ==
    \/ type[d] = "ext4" /\ ExtUnmount(d, ok)
    \/ type[d] = "vfat" /\ FatUnmount(d, ok)
    \/ type[d] = "littlefs" /\ LfsUnmount(d, ok)

\* With a table, or with any driver registered, the call changes nothing (what
\* the search of a lost array of drivers does is in TinyVfs).  So a mount that
\* registers one or two drivers and finds no memory for the next leaves what
\* one leaves that finds none for its table: no table, and no way to get one.
MountInit(t) ==
    /\ Idle /\ ~registered
    /\ registered' = TRUE
    /\ \/ UNCHANGED <<tab, op, n, data>>   \* a later driver, or the calloc: -ENOMEM
       \/ tab' = t /\ op' = "mount" /\ n' = 1 /\ data' = [d \in Devices |-> "null"]
    /\ UNCHANGED <<type, listed, libs, history, fault>>

Return == op' = "idle" /\ n' = 0

\* The partition's code cannot be read or names none of the three.
NotDetected == Return /\ UNCHANGED <<type, registered, tab, listed, data, libs, history, fault>>

\* The table is freed; what it mounted so far stays listed and mounted.
MountFailed ==
    /\ DriverMount(tab[n], FALSE)
    /\ tab' = <<>> /\ Return
    /\ UNCHANGED <<type, registered, listed, tried, left>>

Mounted ==
    /\ DriverMount(tab[n], TRUE)
    /\ listed' = listed \cup {tab[n]}
    /\ IF n = Len(tab) THEN Return ELSE n' = n + 1 /\ UNCHANGED op
    /\ UNCHANGED <<type, registered, tab, tried, left>>

MountEntry == op = "mount" /\ fault = "none" /\ (NotDetected \/ MountFailed \/ Mounted)

UnmountDeinit ==
    /\ Idle /\ tab # <<>>
    /\ op' = "unmount" /\ n' = 1
    /\ UNCHANGED <<type, registered, tab, listed, data, libs, history, fault>>

NotMounted ==
    /\ tab[n] \notin listed /\ Return
    /\ UNCHANGED <<type, registered, tab, listed, data, libs, history, fault>>

UnmountFailed ==
    /\ tab[n] \in listed /\ DriverUnmount(tab[n], FALSE)
    /\ tried' = tried \cup {tab[n]}
    /\ Return
    /\ UNCHANGED <<type, registered, tab, listed, refused, left>>

Unmounted ==
    /\ tab[n] \in listed /\ DriverUnmount(tab[n], TRUE)
    /\ listed' = listed \ {tab[n]} /\ tried' = tried \ {tab[n]}
    /\ IF n = Len(tab) THEN Return /\ tab' = <<>> /\ registered' = FALSE
       ELSE n' = n + 1 /\ UNCHANGED <<op, tab, registered>>
    /\ UNCHANGED <<type, refused, left>>

UnmountEntry == op = "unmount" /\ fault = "none" /\ (NotMounted \/ UnmountFailed \/ Unmounted)

-----------------------------------------------------------------------------
\* Any call on a mount: littlefs reads fs_data, FatFs its drive's work area;
\* ext4 is given the path.
Use(d) ==
    /\ Idle /\ tab # <<>> /\ d \in listed
    /\ fault' = IF type[d] = "littlefs" /\ data[d] = "null" THEN "null_data"
                ELSE IF type[d] = "vfat" /\ drive[d] = "freed" THEN "freed_drive"
                ELSE "none"
    /\ UNCHANGED <<type, vfs, data, libs, history>>

\* convert_fs between unmounting and mounting again: the volume made for
\* formatting is removed only when all that follows succeeds.
Convert(d) ==
    /\ Idle /\ ~registered /\ type[d] = "vfat" /\ left[d] < MaxConversions
    /\ \/ type' = [type EXCEPT ![d] = "ext4"] /\ UNCHANGED <<ext, left>>
       \/ /\ type' \in {type, [type EXCEPT ![d] = "ext4"]}
          /\ ext' = WithVolume(ext, d)
          /\ left' = [left EXCEPT ![d] = @ + 1]
    /\ UNCHANGED <<vfs, data, drive, contexts, tried, refused, fault>>

Next ==
    \/ \E t \in Fstabs : MountInit(t)
    \/ MountEntry
    \/ UnmountDeinit
    \/ UnmountEntry
    \/ \E d \in Devices : Use(d) \/ Convert(d)

Spec == Init /\ [][Next]_vars

-----------------------------------------------------------------------------
(* Properties *)

\* Every variable has its type.
TypeOK ==
    /\ type \in [Devices -> Types]
    /\ registered \in BOOLEAN
    /\ tab \in Fstabs \cup {<<>>}
    /\ listed \subseteq Devices
    /\ data \in [Devices -> {"null", "live", "freed"}]
    /\ op \in {"idle", "mount", "unmount"}
    /\ n \in Nat /\ (op # "idle" => n \in DOMAIN tab)
    /\ ext \in [volumes: [Devices -> Nat], devs: SUBSET Devices,
                points: SUBSET Devices, journals: SUBSET Devices]
    /\ drive \in [Devices -> {"none", "live", "freed"}]
    /\ contexts \in 0 .. MaxLfsMounts
    /\ tried \subseteq Devices /\ refused \subseteq Devices
    /\ left \in [Devices -> 0 .. MaxConversions]
    /\ fault \in {"none", "null_data", "freed_drive", "freed_config"}

InExt4(d) == d \in ext.devs /\ d \in ext.points /\ ext.volumes[d] > 0

\* A listed mount has all its driver needs, whatever failed elsewhere.  Only
\* an unmount of it that failed may take that away, and not all of it: an ext4
\* mount then stays in lwext4's tables and loses its journal at most
\* (vfs_ext4.c 109-134), and can be unmounted again; the other two lose their
\* data (vfs_littlefs.c 340-347, vfs_vfat.c 580-596).
MountsBacked ==
    tab # <<>> => \A d \in listed :
        /\ type[d] = "ext4" => data[d] = "live" /\ InExt4(d)
                               /\ (d \in ext.journals \cup refused \cup tried)
        /\ type[d] # "ext4" /\ data[d] # "live" => d \in tried
        /\ type[d] = "vfat" /\ drive[d] # "live" => d \in tried

Of(t) == {d \in listed : type[d] = t}
Lost == registered /\ tab = <<>>   \* a mount, a registration or the calloc failed

\* The libraries hold what the mounts say, and nothing of mounts that are gone
\* or were refused: once all is unmounted they are empty, and while the table
\* is being mounted there is room in lwext4's device table for the next one,
\* however often it was mounted before (main.c 69-88, convert_fs.c 154-211).
\* A volume is a registered device's or was left by one conversion that
\* failed.  The exceptions are behind a failed mount of the table, after
\* which nothing mounts again: at most one mount is there that was refused.
LibrariesBalanced ==
    /\ ~registered => listed = {}
    /\ ~Lost => /\ ext.devs = Of("ext4") /\ ext.points = Of("ext4")
                /\ \A d \in Devices : drive[d] # "none" <=> d \in Of("vfat")
    /\ Lost => /\ Of("ext4") \subseteq ext.devs
               /\ \A d, e \in ext.devs \ listed : d = e
    /\ \A d \in Devices :
           ext.volumes[d] = left[d] + (IF d \in ext.devs THEN 1 ELSE 0)
    /\ op = "mount" => tab[n] \notin ext.devs /\ Cardinality(ext.devs) < ExtDevices
=============================================================================
