------------------------------- MODULE TinyVfs -------------------------------
(***************************************************************************)
(* The virtual file system: its mount table (hal/src/tinyvfs/              *)
(* tinyvfs_mount.c), its list of mounts, name lookup and working directory *)
(* (tinyvfs.c) and the descriptor table above it (platform/syscalls/       *)
(* fdsycalls.c), over one boot of the device: nothing of it persists.      *)
(*                                                                         *)
(* A mount is the address of an element of the calloc'ed table ctx.mps.    *)
(* The model names it by its index while the table lives; what still       *)
(* points there once the table is freed is Freed.  Using Freed, a null     *)
(* mount or the fs field of an unmounted element is a fault: the behaviour *)
(* is undefined from there on and the model stops.                         *)
(***************************************************************************)
EXTENDS Naturals, Sequences

CONSTANTS
    FsTypes,     \* the registered drivers: littlefs, vfat, ext4
    SomeTypes,   \* what is registered when the memory for one driver is missing
    FsAuto,        \* vfs_fs_auto: the type is found by the partition code
    Fstabs,      \* the mount descriptors vfs_mount_init is called with
    Paths,       \* the names the program uses: [abs, comps]
    ShortNames,  \* components of one character
    Extensions,  \* <<m, c>>: the component c begins with the mount point m
    MaxDepth,    \* the working directory's components, at most
    Slots,       \* the descriptor table's slots, 1 .. MAX_OPEN_FILES
    Null, Freed, NotFound

Descs == [point: STRING, type: FsTypes \cup {FsAuto}]
ASSUME VfsAssumption ==
    /\ FsAuto \notin FsTypes /\ Null \notin FsTypes /\ FsTypes # {}
    /\ Fstabs \subseteq Seq(Descs) \ {<<>>}
    /\ Paths \subseteq [abs: BOOLEAN, comps: Seq(STRING)]
    /\ Slots \subseteq Nat /\ MaxDepth \in Nat
    /\ SomeTypes \subseteq SUBSET FsTypes \ {FsTypes}
    /\ Null # Freed /\ Null # NotFound /\ Freed # NotFound
    /\ {Null, Freed, NotFound} \cap Nat = {}

VARIABLES
    fste,     \* ctx.fste: the registered file system types
    mps,      \* the mount table: where each element mounts, and its fs
    fopsl,    \* ctx.fopsl: the list of mounted elements
    current,  \* ctx.current_mnt
    cwd,      \* ctx.cwd
    handles,  \* file_handles: the mount each descriptor's file lies in
    op,       \* the loop running: "mount", "unmount", or "idle"
    n,        \* its index, counted from 1
    fstab,    \* vfs_mount_init's argument
    renamed,  \* the last rename handed to a driver: the mounts of its names
    fault     \* what was dereferenced that must not be, or "none"

table == <<fste, mps, fopsl>>
loop == <<op, n, fstab>>
vars == <<table, current, cwd, handles, loop, renamed, fault>>

NoRename == <<>>
Free == [st |-> "free", mp |-> Null]
Leaked == [st |-> "leaked", mp |-> Null]
Open(e) == [st |-> "open", mp |-> e]

Init ==
    /\ fste = {} /\ mps = <<>> /\ fopsl = <<>>
    /\ current = Null /\ cwd = <<>>
    /\ handles = [s \in Slots |-> Free]
    /\ op = "idle" /\ n = 0 /\ fstab = <<>>
    /\ renamed = NoRename /\ fault = "none"

Idle == op = "idle" /\ fault = "none"
InList(e) == \E k \in DOMAIN fopsl : fopsl[k] = e
Return == op' = "idle" /\ n' = 0 /\ fstab' = <<>>

\* free(ctx.mps): every pointer into the table dangles from here on.
Dangling(e) == IF e \in DOMAIN mps THEN Freed ELSE e
FreeTable ==
    /\ mps' = <<>>
    /\ current' = Dangling(current)
    /\ handles' = [s \in Slots |-> [handles[s] EXCEPT !.mp = Dangling(@)]]

-----------------------------------------------------------------------------
(* vfs_mount_init *)

\* -EEXIST, a failed blk_initialize, or a driver that is already registered.
MountRefused == UNCHANGED vars

\* A registration that finds no memory drops the array of drivers and keeps
\* their number: the next one searches an array that is not there.
DriversLost == mps = <<>> /\ fste \in SomeTypes \ {{}}

MountInit(tab) ==
    /\ Idle
    /\ \/ MountRefused
       \/ DriversLost /\ fault' = "null_drivers" /\ renamed' = NoRename
          /\ UNCHANGED <<table, current, cwd, handles, loop>>
       \/ /\ mps = <<>> /\ fste = {}
          /\ renamed' = NoRename
          /\ \/ fste' \in SomeTypes /\ UNCHANGED <<mps, loop>>  \* a driver's -ENOMEM
             \/ fste' = FsTypes /\ UNCHANGED <<mps, loop>>     \* calloc: -ENOMEM
             \/ /\ fste' = FsTypes
                /\ mps' = [i \in DOMAIN tab |-> [point |-> tab[i].point, fs |-> Null]]
                /\ op' = "mount" /\ n' = 1 /\ fstab' = tab
          /\ UNCHANGED <<fopsl, current, cwd, handles, fault>>

\* An unreadable partition entry or an unknown code: the table is kept.
NotDetected ==
    /\ fstab[n].type = FsAuto
    /\ Return
    /\ UNCHANGED <<table, current, cwd, handles>>

Busy(e) == \E k \in DOMAIN fopsl : fopsl[k] # Freed /\ mps[fopsl[k]].point = mps[e].point
Detected == IF fstab[n].type = FsAuto THEN FsTypes ELSE {fstab[n].type}

\* vfs_mount: the new mount goes to the end of the list and becomes current.
InsertedFirst(e) == <<e>> \o fopsl
Inserted(e) == Append(fopsl, e)
VfsMountKeepingCurrent(e, type) ==
    /\ ~Busy(e) /\ type \in fste
    /\ mps' = [mps EXCEPT ![e].fs = type]
    /\ fopsl' = Inserted(e)
    /\ UNCHANGED <<current, cwd>>
VfsMount(e, type) ==
    /\ ~Busy(e) /\ type \in fste
    /\ mps' = [mps EXCEPT ![e].fs = type]
    /\ fopsl' = Inserted(e)
    /\ current' = e
    /\ cwd' = <<mps[e].point>>

\* vfs_mount failed (the point is taken, or the driver's mount failed): the
\* table is freed, what was mounted stays in the list.
MountFailed ==
    /\ FreeTable
    /\ fopsl' = [k \in DOMAIN fopsl |-> Dangling(fopsl[k])]
    /\ Return
    /\ UNCHANGED <<fste, cwd>>

Mounted ==
    /\ \E type \in Detected : VfsMount(n, type)
    /\ IF n = Len(fstab) THEN Return ELSE n' = n + 1 /\ UNCHANGED <<op, fstab>>
    /\ UNCHANGED <<fste, handles>>

MountEntry ==
    /\ op = "mount"
    /\ NotDetected \/ MountFailed \/ Mounted
    /\ UNCHANGED <<renamed, fault>>

-----------------------------------------------------------------------------
(* vfs_unmount_deinit *)

UnmountDeinit ==
    /\ Idle
    /\ IF mps = <<>> THEN UNCHANGED vars   \* -EINVAL
       ELSE /\ op' = "unmount" /\ n' = 1 /\ renamed' = NoRename
            /\ UNCHANGED <<table, current, cwd, handles, fstab, fault>>

\* Removing a node relinks the list only when the node is its head: from any
\* other place the freed node stays linked.
Unlinked(e) ==
    IF fopsl # <<>> /\ Head(fopsl) = e THEN Tail(fopsl)
    ELSE [k \in DOMAIN fopsl |-> IF fopsl[k] = e THEN Freed ELSE fopsl[k]]
VfsUnmountAgain(e) == mps' = [mps EXCEPT ![e].fs = Null] /\ fopsl' = Unlinked(e)
VfsUnmount(e) ==
    /\ mps[e].fs # Null
    /\ mps' = [mps EXCEPT ![e].fs = Null]
    /\ fopsl' = Unlinked(e)

UnmountFailed == n <= Len(mps) /\ Return /\ UNCHANGED <<table, current, handles>>
Unmounted ==
    /\ n <= Len(mps) /\ VfsUnmount(n) /\ n' = n + 1
    /\ UNCHANGED <<fste, current, handles, op, fstab>>
DeinitEarly == n >= Len(mps) /\ FreeTable /\ Return /\ fste' = {} /\ UNCHANGED fopsl
\* All elements are unmounted by now, and so all nodes unlinked.
Deinit == n > Len(mps) /\ FreeTable /\ Return /\ fste' = {} /\ UNCHANGED fopsl

UnmountEntry ==
    /\ op = "unmount"
    /\ UnmountFailed \/ Unmounted \/ Deinit
    /\ UNCHANGED <<cwd, renamed, fault>>

-----------------------------------------------------------------------------
(* Names *)

\* Names of at most one character are refused, whatever they name.
TooShort(p) ==
    p.comps = <<>> \/ (~p.abs /\ Len(p.comps) = 1 /\ p.comps[1] \in ShortNames)
Absolute(p) == IF p.abs THEN p.comps ELSE cwd \o p.comps

\* vfs_get_mnt_point: where its mnt_pntp points after a call.  A relative
\* name is not looked up: its mount is the current one.  Every table of this
\* program mounts right below "/", so the longest match is the first component.
Entry(p) ==
    IF TooShort(p) THEN NotFound
    ELSE IF ~p.abs THEN current
    ELSE IF InList(Freed) THEN Freed
    ELSE IF \E k \in DOMAIN fopsl : mps[fopsl[k]].point = p.comps[1]
    THEN fopsl[CHOOSE k \in DOMAIN fopsl : mps[fopsl[k]].point = p.comps[1]]
    ELSE NotFound

\* What reading mp->fs->op does.
FaultAt(e) ==
    IF e = Null THEN "null_mount" ELSE IF e = Freed THEN "freed_mount"
    ELSE IF mps[e].fs = Null THEN "null_fs" ELSE "none"

\* Every operation on one name: stat, mkdir, rmdir, unlink, statvfs, chmod,
\* opendir.
PathCall(p) ==
    /\ Idle
    /\ fault' = IF Entry(p) = NotFound THEN "none" ELSE FaultAt(Entry(p))
    /\ renamed' = NoRename
    /\ UNCHANGED <<table, current, cwd, handles, loop>>

\* strncmp(from, to, match_len) compares the text of the mount point and does
\* not look at what follows it; for a relative name match_len is not set.
ComparedNever(p, q) == BOOLEAN
Compared(p, q) ==
    IF p.abs THEN {q.abs /\ (q.comps[1] = p.comps[1] \/ <<p.comps[1], q.comps[1]>> \in Extensions)}
    ELSE BOOLEAN

\* vfs_rename hands both names to the driver of the first one's mount.
Rename(p, q) ==
    /\ Idle
    /\ ~TooShort(q) /\ Entry(p) # NotFound /\ TRUE \in Compared(p, q)
    /\ fault' = FaultAt(Entry(p))
    /\ renamed' = IF fault' # "none" THEN NoRename
                  ELSE [abs |-> p.abs, mount |-> Entry(p),
                        target |-> Entry([abs |-> TRUE, comps |-> Absolute(q)])]
    /\ UNCHANGED <<table, current, cwd, handles, loop>>

\* vfs_chdir: nothing checks that the directory exists.
ChdirKeepingMount(p) == cwd' = Absolute(p) /\ UNCHANGED current
ChdirTo(p) ==
    /\ cwd' = Absolute(p)
    /\ current' = IF p.abs THEN Entry(p) ELSE current
Chdir(p) ==
    /\ Idle /\ Len(Absolute(p)) <= MaxDepth
    /\ LET e == Entry(p) IN
       \/ e = NotFound /\ UNCHANGED <<current, cwd, fault>>
       \/ p.abs /\ e = Freed /\ fault' = "freed_mount" /\ UNCHANGED <<current, cwd>>
       \/ e # NotFound /\ ~(p.abs /\ e = Freed) /\ ChdirTo(p) /\ UNCHANGED fault
    /\ renamed' = NoRename
    /\ UNCHANGED <<table, handles, loop>>

-----------------------------------------------------------------------------
(* Descriptors *)

FreeSlots == {s \in Slots : handles[s].st = "free"}
LowestFree == CHOOSE s \in FreeSlots : \A t \in FreeSlots : s <= t

\* _open: a failed open frees the file but leaves its slot taken.
Opened(s, p) ==
    LET e == Entry(p) IN
    \/ e = NotFound /\ handles' = [handles EXCEPT ![s] = Leaked] /\ UNCHANGED fault
    \/ e # NotFound /\ FaultAt(e) # "none" /\ fault' = FaultAt(e) /\ UNCHANGED handles
    \/ /\ e # NotFound /\ FaultAt(e) = "none"
       /\ \E h \in {Leaked, Open(e)} : handles' = [handles EXCEPT ![s] = h]
       /\ UNCHANGED fault
OpenFile(p) ==
    /\ Idle
    /\ IF FreeSlots = {} THEN UNCHANGED <<handles, fault>>   \* EMFILE
       ELSE Opened(LowestFree, p)
    /\ renamed' = NoRename
    /\ UNCHANGED <<table, current, cwd, loop>>

\* _read, _write, _lseek, fsync, ftruncate: all read fil->mp->fs first.
FileCall(s) ==
    /\ Idle /\ handles[s].st = "open"
    /\ fault' = FaultAt(handles[s].mp)
    /\ renamed' = NoRename
    /\ UNCHANGED <<table, current, cwd, handles, loop>>

\* _close: the slot is given back even when the driver's close fails.
CloseFile(s) ==
    /\ Idle /\ handles[s].st = "open"
    /\ fault' = FaultAt(handles[s].mp)
    /\ handles' = IF fault' = "none" THEN [handles EXCEPT ![s] = Free] ELSE handles
    /\ renamed' = NoRename
    /\ UNCHANGED <<table, current, cwd, loop>>

-----------------------------------------------------------------------------
Next ==
    \/ \E tab \in Fstabs : MountInit(tab)
    \/ MountEntry
    \/ UnmountDeinit
    \/ UnmountEntry
    \/ \E p \in Paths : Chdir(p) \/ OpenFile(p) \/ PathCall(p)
    \/ \E p, q \in Paths : Rename(p, q)
    \/ \E s \in Slots : FileCall(s) \/ CloseFile(s)

Spec == Init /\ [][Next]_vars

-----------------------------------------------------------------------------
(* Properties *)

Mounts == [point: STRING, fs: FsTypes \cup {Null}]
Pointers == DOMAIN mps \cup {Null, Freed}

\* Every variable has its type; pointers point into the table or are marked.
TypeOK ==
    /\ fste \subseteq FsTypes
    /\ mps \in Seq(Mounts)
    /\ fopsl \in Seq(DOMAIN mps \cup {Freed})
    /\ current \in Pointers
    /\ cwd \in Seq(STRING)
    /\ handles \in [Slots -> [st: {"free", "open", "leaked"}, mp: Pointers]]
    /\ op \in {"idle", "mount", "unmount"}
    /\ n \in Nat
    /\ fstab \in Seq(Descs)
    /\ fault \in {"none", "null_mount", "freed_mount", "null_fs", "null_drivers"}

\* While a table exists the list holds exactly its mounted elements, once each
\* and in table order: unmounting always meets the node it removes at the head
\* (the only place vfs_unmount 286-299 can unlink), and the walk of vfs_mount
\* 185-199 never reads an element of a table already freed.
ListIsMounted ==
    mps # <<>> =>
        /\ \A k \in DOMAIN fopsl : fopsl[k] # Freed /\ mps[fopsl[k]].fs # Null
        /\ \A e \in DOMAIN mps : mps[e].fs # Null => InList(e)
        /\ \A j, k \in DOMAIN fopsl : j < k => fopsl[j] < fopsl[k]

\* What is still to be unmounted is mounted.
Complete ==
    LET from == IF op = "unmount" THEN n ELSE 1 IN
    mps # <<>> /\ \A e \in DOMAIN mps : e >= from => mps[e].fs # Null
State ==
    IF op = "mount" \/ (mps = <<>> /\ fste = {}) THEN "down"
    ELSE IF Complete THEN "up" ELSE "wedged"

\* The whole table is mounted, or nothing is, or - after any mount, or any
\* unmount but the first, that failed - neither call can work again
\* (tinyvfs_mount.c 26-30, 43-54, 72-76, 96-104, 112-126).
Lifecycle == INSTANCE MountLifecycle WITH state <- State
MountsTogether == Lifecycle!Spec

\* While everything is mounted no name leads to a fault, whatever failed or
\* was unmounted before: only a descriptor kept open across an unmount does.
\* The fs of an unmounted element is read only once the table is wedged.
FaultsExplained ==
    /\ State = "up" /\ fault # "none" =>
           fault = "freed_mount" /\ \E s \in Slots : handles[s].mp = Freed
    /\ fault = "null_fs" => State = "wedged"

\* While everything is mounted a relative name means the file its absolute
\* form names: the current mount is the one the working directory lies in,
\* across every chdir and every new table (tinyvfs.c 77-80, 227-228, 908-916).
NamesAgree ==
    State = "up" /\ op = "idle" =>
        \A p \in Paths : ~p.abs /\ ~TooShort(p) =>
            Entry(p) = Entry([abs |-> TRUE, comps |-> Absolute(p)])

\* A rename of an absolute name crosses into another mount only where that
\* mount's point begins with the text of the first one's, "/system_b" with
\* "/system": the one way around the comparison that should "make sure both
\* files are mounted on the same path" (tinyvfs.c 757-764).
RenamesStay ==
    renamed # NoRename /\ renamed.abs =>
        \/ renamed.target \in {renamed.mount, NotFound}
        \/ <<mps[renamed.mount].point, mps[renamed.target].point>> \in Extensions
=============================================================================
