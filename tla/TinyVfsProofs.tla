---------------------------- MODULE TinyVfsProofs ----------------------------
(***************************************************************************)
(* Theorems about TinyVfs, for every mount table, name set and number of   *)
(* descriptors.  The inductive invariant says that the list of mounts is   *)
(* an interval of the table (TableInv), where the loop running stands in   *)
(* it (LoopInv), and that the current mount and the working directory      *)
(* belong together while everything is mounted (CwdInv).                   *)
(***************************************************************************)
EXTENDS TinyVfs, TLAPS

\* Where the running loop stands in the table.
LoopInv ==
    /\ fault # "none" => op = "idle"
    /\ op = "mount" => /\ mps # <<>> /\ Len(fstab) = Len(mps)
                       /\ n \in 1..Len(fstab) /\ fste = FsTypes
    /\ op = "unmount" => /\ mps # <<>> /\ n \in 1..Len(mps) + 1
                         /\ \A e \in DOMAIN mps : e < n => mps[e].fs = Null

\* The mounted elements are first .. last, and so is the list.
Window(first, last) ==
    /\ first <= last + 1 /\ last <= Len(mps)
    /\ Len(fopsl) = last + 1 - first
    /\ \A k \in DOMAIN fopsl : fopsl[k] = first + k - 1
    /\ \A e \in DOMAIN mps : mps[e].fs # Null <=> first <= e /\ e <= last
    /\ op = "mount" => first = 1 /\ last = n - 1

\* The list is an interval of the table.
TableInv ==
    /\ fste = {} => mps = <<>> /\ fopsl = <<>>
    /\ mps # <<>> => \E first \in 1..Len(mps) + 1, last \in 0..Len(mps) : Window(first, last)

\* No two mounts share a mount point.
PointsDiffer ==
    mps # <<>> =>
        \A j, k \in DOMAIN fopsl : mps[fopsl[j]].point = mps[fopsl[k]].point => j = k

\* Something is mounted, and nothing was unmounted since.
Anchored ==
    \/ op = "mount" /\ n > 1
    \/ op # "mount" /\ mps # <<>> /\ (op = "unmount" => n = 1)
       /\ \A e \in DOMAIN mps : mps[e].fs # Null
CwdInv ==
    Anchored => /\ current \in DOMAIN mps /\ mps[current].fs # Null
                /\ cwd # <<>> /\ cwd[1] = mps[current].point


-----------------------------------------------------------------------------
(* Type correctness *)

\* There are drivers, and what is left after a failed registration is not all.
LEMMA DriverFacts == FsTypes # {} /\ \A some \in SomeTypes : some \subseteq FsTypes
BY VfsAssumption

\* The marks Null, Freed and NotFound are no table indices.
LEMMA NotAnIndex ==
    ASSUME TypeOK
    PROVE  /\ Null \notin DOMAIN mps /\ Freed \notin DOMAIN mps /\ NotFound \notin Pointers
           /\ Null # Freed /\ DOMAIN mps \subseteq Nat
<1>1. DOMAIN mps = 1..Len(mps) /\ Len(mps) \in Nat
  BY DEF TypeOK
<1>2. Null \notin Nat /\ Freed \notin Nat /\ NotFound \notin Nat /\ Null # Freed
      /\ NotFound # Null /\ NotFound # Freed
  BY VfsAssumption
<1> QED BY <1>1, <1>2 DEF Pointers

\* What vfs_get_mnt_point yields is a mount or nothing.
LEMMA EntryType ==
    ASSUME TypeOK, NEW p
    PROVE  Entry(p) \in Pointers \cup {NotFound}
<1>1. CASE ~TooShort(p) /\ p.abs /\ ~InList(Freed)
           /\ \E k \in DOMAIN fopsl : mps[fopsl[k]].point = p.comps[1]
  <2> DEFINE k == CHOOSE k \in DOMAIN fopsl : mps[fopsl[k]].point = p.comps[1]
  <2>1. k \in DOMAIN fopsl /\ Entry(p) = fopsl[k]
    BY <1>1 DEF Entry
  <2> QED BY <2>1 DEF TypeOK, Pointers
<1>2. CASE ~(~TooShort(p) /\ p.abs /\ ~InList(Freed)
             /\ \E k \in DOMAIN fopsl : mps[fopsl[k]].point = p.comps[1])
  BY <1>2 DEF Entry, TypeOK, Pointers
<1> QED BY <1>1, <1>2

\* Freeing the table turns every pointer into it into Freed.
LEMMA FreedTableType ==
    ASSUME TypeOK, FreeTable
    PROVE  /\ mps' = <<>>
           /\ mps' \in Seq(Mounts)
           /\ current' \in Pointers'
           /\ handles' \in [Slots -> [st: {"free", "open", "leaked"}, mp: Pointers']]
<1>1. \A e \in Pointers : Dangling(e) \in {Null, Freed}
  BY NotAnIndex DEF Dangling, Pointers
<1>2. mps' = <<>> /\ <<>> \in Seq(Mounts)
  BY DEF FreeTable
<1>3. current' \in {Null, Freed}
  BY <1>1 DEF FreeTable, TypeOK
<1>4. handles' \in [Slots -> [st: {"free", "open", "leaked"}, mp: {Null, Freed}]]
  BY <1>1 DEF FreeTable, TypeOK
<1> QED BY <1>2, <1>3, <1>4 DEF Pointers

\* When the unmount loop has passed the last element the list is empty.
LEMMA ListEmptied ==
    ASSUME TypeOK, LoopInv, TableInv, op = "unmount", n > Len(mps)
    PROVE  fopsl = <<>>
<1>1. PICK first \in 1..Len(mps) + 1, last \in 0..Len(mps) : Window(first, last)
  BY DEF LoopInv, TableInv
<1>2. Len(mps) \in Nat /\ DOMAIN mps = 1..Len(mps) /\ Len(fopsl) \in Nat
  BY DEF TypeOK
<1>3. \A e \in 1..Len(mps) : ~(first <= e /\ e <= last)
  BY <1>1, <1>2 DEF Window, LoopInv
<1>4. Len(fopsl) = 0
  BY <1>1, <1>2, <1>3 DEF Window
<1> QED BY <1>4 DEF TypeOK

\* The table vfs_mount_init allocates has one unmounted element per descriptor.
LEMMA FreshTable ==
    ASSUME NEW tab \in Fstabs
    PROVE  LET new == [i \in DOMAIN tab |-> [point |-> tab[i].point, fs |-> Null]] IN
           /\ new \in Seq(Mounts)
           /\ Len(new) = Len(tab) /\ new # <<>> /\ tab \in Seq(Descs)
           /\ Len(tab) \in Nat \ {0}
           /\ \A e \in DOMAIN new : new[e].fs = Null
<1> DEFINE new == [i \in DOMAIN tab |-> [point |-> tab[i].point, fs |-> Null]]
<1>1. tab \in Seq(Descs) /\ tab # <<>>
  BY VfsAssumption
<1>2. Len(tab) \in Nat \ {0} /\ DOMAIN tab = 1..Len(tab)
  BY <1>1
<1>3. new \in [1..Len(tab) -> Mounts]
  <2>1. ASSUME NEW i \in 1..Len(tab) PROVE tab[i] \in Descs
    BY <1>1, <1>2
  <2>2. ASSUME NEW i \in 1..Len(tab) PROVE [point |-> tab[i].point, fs |-> Null] \in Mounts
    BY <2>1 DEF Descs, Mounts
  <2> QED BY <1>2, <2>2
<1>4. new \in Seq(Mounts) /\ Len(new) = Len(tab)
  BY <1>2, <1>3
<1>5. new # <<>>
  BY <1>2, <1>4
<1> QED BY <1>1, <1>2, <1>4, <1>5

\* The initial state is well typed.
LEMMA InitType == Init => TypeOK
BY DEF Init, TypeOK, Free, Pointers

\* vfs_mount_init up to its loop keeps the types.
LEMMA MountInitType ==
    ASSUME TypeOK, NEW tab \in Fstabs, MountInit(tab)
    PROVE  TypeOK'
<1>1. CASE UNCHANGED vars
  BY <1>1 DEF TypeOK, Pointers, vars, table, loop
<1>2. CASE /\ mps = <<>> /\ fste' \in SomeTypes \cup {FsTypes}
           /\ UNCHANGED <<mps, loop, fopsl, current, cwd, handles, fault>>
  BY <1>2, DriverFacts DEF TypeOK, Pointers, loop
<1>3. CASE /\ mps = <<>> /\ fste' = FsTypes
           /\ mps' = [i \in DOMAIN tab |-> [point |-> tab[i].point, fs |-> Null]]
           /\ op' = "mount" /\ n' = 1 /\ fstab' = tab
           /\ UNCHANGED <<fopsl, current, cwd, handles, fault>>
  <2>1. mps' \in Seq(Mounts) /\ fstab' \in Seq(Descs)
    BY <1>3, FreshTable
  <2>2. DOMAIN mps = {}
    BY <1>3
  <2>3. current' \in Pointers' /\ fopsl' \in Seq(DOMAIN mps' \cup {Freed})
    BY <1>3, <2>2 DEF TypeOK, Pointers
  <2>4. handles' \in [Slots -> [st: {"free", "open", "leaked"}, mp: Pointers']]
    BY <1>3, <2>2 DEF TypeOK, Pointers
  <2> QED BY <1>3, <2>1, <2>3, <2>4 DEF TypeOK
<1>4. CASE UNCHANGED <<table, current, cwd, handles, loop>> /\ fault' = "null_drivers"
  BY <1>4 DEF TypeOK, Pointers, table, loop
<1> QED BY <1>1, <1>2, <1>3, <1>4 DEF MountInit, MountRefused

\* One round of the mount loop keeps the types.
LEMMA MountEntryType ==
    ASSUME TypeOK, LoopInv, MountEntry
    PROVE  TypeOK'
<1>1. op = "mount" /\ n \in 1..Len(fstab) /\ Len(fstab) = Len(mps) /\ DOMAIN mps = 1..Len(mps)
  BY DEF MountEntry, LoopInv, TypeOK
<1>2. CASE NotDetected
  BY <1>2 DEF NotDetected, Return, MountEntry, table, TypeOK, Pointers
<1>3. CASE MountFailed
  <2>1. \A k \in DOMAIN fopsl : Dangling(fopsl[k]) = Freed
    BY DEF TypeOK, Dangling
  <2>2. fopsl' \in Seq(DOMAIN mps' \cup {Freed})
    BY <1>3, <2>1 DEF MountFailed, TypeOK
  <2> QED BY <1>3, <2>2, FreedTableType DEF MountFailed, MountEntry, Return, TypeOK
<1>4. CASE Mounted
  <2>1. PICK type \in Detected : VfsMount(n, type)
    BY <1>4 DEF Mounted
  <2>2. type \in FsTypes
    BY <2>1 DEF VfsMount, TypeOK
  <2>3. mps[n] \in Mounts
    BY <1>1 DEF TypeOK
  <2>4. [mps[n] EXCEPT !.fs = type] \in Mounts /\ mps[n].point \in STRING
    BY <2>2, <2>3 DEF Mounts
  <2>4a. mps' \in Seq(Mounts) /\ DOMAIN mps' = DOMAIN mps
    BY <1>1, <2>1, <2>4 DEF VfsMount, TypeOK
  <2>5. fopsl' \in Seq(DOMAIN mps' \cup {Freed})
    BY <1>1, <2>1, <2>4a DEF VfsMount, Inserted, TypeOK
  <2>6. Pointers' = Pointers /\ current' \in Pointers /\ cwd' \in Seq(STRING)
    BY <1>1, <2>1, <2>4, <2>4a DEF VfsMount, Pointers
  <2>7. CASE n = Len(fstab)
    BY <1>4, <2>4a, <2>5, <2>6, <2>7 DEF Mounted, Return, MountEntry, TypeOK
  <2>8. CASE n # Len(fstab)
    BY <1>4, <2>4a, <2>5, <2>6, <2>8 DEF Mounted, MountEntry, TypeOK
  <2> QED BY <2>7, <2>8
<1> QED BY <1>2, <1>3, <1>4 DEF MountEntry

\* One round of the unmount loop keeps the types.
LEMMA UnmountEntryType ==
    ASSUME TypeOK, LoopInv, TableInv, UnmountEntry
    PROVE  TypeOK'
<1>1. op = "unmount" /\ mps # <<>> /\ n \in 1..Len(mps) + 1 /\ DOMAIN mps = 1..Len(mps)
  BY DEF UnmountEntry, LoopInv, TypeOK
<1>2. CASE UnmountFailed
  BY <1>2 DEF UnmountFailed, Return, UnmountEntry, table, TypeOK, Pointers
<1>3. CASE Unmounted
  <2>0. n \in DOMAIN mps /\ mps[n] \in Mounts
    <3>1. n \in DOMAIN mps
      BY <1>1, <1>3 DEF Unmounted, TypeOK
    <3> QED BY <3>1 DEF TypeOK
  <2>1. n \in DOMAIN mps /\ [mps[n] EXCEPT !.fs = Null] \in Mounts
    BY <2>0 DEF Mounts
  <2>2. mps' \in Seq(Mounts) /\ DOMAIN mps' = DOMAIN mps
    BY <1>3, <2>1 DEF Unmounted, VfsUnmount, TypeOK
  <2> DEFINE P == DOMAIN mps \cup {Freed}
  <2>3. fopsl' \in Seq(P)
    <3>1. fopsl \in Seq(P) /\ fopsl' = Unlinked(n)
      BY <1>3 DEF Unmounted, VfsUnmount, TypeOK
    <3>2. CASE fopsl # <<>> /\ Head(fopsl) = n
      BY <3>1, <3>2 DEF Unlinked
    <3>3. CASE ~(fopsl # <<>> /\ Head(fopsl) = n)
      <4>1. fopsl' = [k \in DOMAIN fopsl |-> IF fopsl[k] = n THEN Freed ELSE fopsl[k]]
        BY <3>1, <3>3 DEF Unlinked
      <4>2. \A k \in DOMAIN fopsl : fopsl[k] \in P
        BY <3>1
      <4> HIDE DEF P
      <4>3. Freed \in P
        BY DEF P
      <4> QED BY <3>1, <4>1, <4>2, <4>3
    <3> QED BY <3>2, <3>3
  <2> QED BY <1>3, <2>2, <2>3 DEF Unmounted, UnmountEntry, TypeOK, Pointers
<1>4. CASE Deinit
  <2>1. fopsl = <<>>
    BY <1>1, <1>4, ListEmptied DEF Deinit
  <2> QED BY <1>4, <2>1, FreedTableType DEF Deinit, UnmountEntry, Return, TypeOK
<1> QED BY <1>2, <1>3, <1>4 DEF UnmountEntry

\* The calls on names and descriptors, none of which touches the table.
Call ==
    \/ \E p \in Paths : Chdir(p) \/ OpenFile(p) \/ PathCall(p)
    \/ \E p, q \in Paths : Rename(p, q)
    \/ \E s \in Slots : FileCall(s) \/ CloseFile(s)

\* Reading mp->fs->op is fine or one of three faults.
LEMMA FaultType ==
    ASSUME NEW e
    PROVE  FaultAt(e) \in {"none", "null_mount", "freed_mount", "null_fs"}
BY DEF FaultAt

\* No call on a name or a descriptor touches the mount table.
LEMMA CallFrame ==
    ASSUME Call
    PROVE  Idle /\ UNCHANGED <<fste, mps, fopsl, op, n, fstab>>
BY DEF Call, Chdir, OpenFile, PathCall, Rename, FileCall, CloseFile, table, loop

\* The calls on names and descriptors keep the types.
LEMMA CallType ==
    ASSUME TypeOK, Call
    PROVE  TypeOK'
<1>1. UNCHANGED <<fste, mps, fopsl, op, n, fstab>> /\ Pointers' = Pointers
  BY CallFrame DEF Pointers
<1>2. SUFFICES /\ current' \in Pointers /\ cwd' \in Seq(STRING)
               /\ handles' \in [Slots -> [st: {"free", "open", "leaked"}, mp: Pointers]]
               /\ fault' \in {"none", "null_mount", "freed_mount", "null_fs", "null_drivers"}
  BY <1>1 DEF TypeOK
<1>3. ASSUME NEW p \in Paths, Chdir(p) PROVE <1>2!1
  <2>1. Entry(p) \in Pointers \cup {NotFound}
    BY EntryType
  <2>2. Absolute(p) \in Seq(STRING)
    <3> DEFINE c == p.comps
    <3>1. c \in Seq(STRING) /\ cwd \in Seq(STRING)
      BY VfsAssumption DEF TypeOK
    <3> HIDE DEF c
    <3>2. cwd \o c \in Seq(STRING)
      BY <3>1
    <3> QED BY <3>1, <3>2 DEF Absolute, c
  <2> QED BY <1>3, <2>1, <2>2 DEF Chdir, ChdirTo, TypeOK
<1>4. ASSUME NEW p \in Paths, OpenFile(p) PROVE <1>2!1
  <2>1. Entry(p) \in Pointers \cup {NotFound}
    BY EntryType
  <2>2. Leaked \in [st: {"free", "open", "leaked"}, mp: Pointers]
        /\ (Entry(p) # NotFound => Open(Entry(p)) \in [st: {"free", "open", "leaked"}, mp: Pointers])
    BY <2>1 DEF Leaked, Open, Pointers
  <2>3. CASE FreeSlots = {}
    BY <1>4, <2>3 DEF OpenFile, TypeOK
  <2>4. CASE Opened(LowestFree, p)
    BY <1>4, <2>2, <2>4, FaultType DEF OpenFile, Opened, TypeOK
  <2> QED BY <1>4, <2>3, <2>4 DEF OpenFile
<1>5. ASSUME NEW p \in Paths, PathCall(p) PROVE <1>2!1
  BY <1>5, FaultType DEF PathCall, TypeOK
<1>8. ASSUME NEW p \in Paths, NEW q \in Paths, Rename(p, q) PROVE <1>2!1
  BY <1>8, FaultType DEF Rename, TypeOK
<1>6. ASSUME NEW s \in Slots, FileCall(s) PROVE <1>2!1
  BY <1>6, FaultType DEF FileCall, TypeOK
<1>7. ASSUME NEW s \in Slots, CloseFile(s) PROVE <1>2!1
  <2>1. Free \in [st: {"free", "open", "leaked"}, mp: Pointers]
    BY DEF Free, Pointers
  <2> QED BY <1>7, <2>1, FaultType DEF CloseFile, TypeOK
<1> QED BY <1>3, <1>4, <1>5, <1>6, <1>7, <1>8 DEF Call

\* Entering the unmount loop keeps the types.
LEMMA UnmountDeinitType ==
    ASSUME TypeOK, UnmountDeinit
    PROVE  TypeOK'
<1>1. UNCHANGED <<fste, mps, fopsl, current, cwd, handles, fstab, fault>>
      /\ ((op' = op /\ n' = n) \/ (op' = "unmount" /\ n' = 1))
  BY DEF UnmountDeinit, vars, table, loop
<1> QED BY <1>1 DEF TypeOK, Pointers

\* Every step keeps the types.
LEMMA TypePreserved ==
    ASSUME TypeOK, LoopInv, TableInv, [Next]_vars
    PROVE  TypeOK'
<1>1. CASE UNCHANGED vars
  BY <1>1 DEF TypeOK, Pointers, vars, table, loop
<1>2. CASE \E tab \in Fstabs : MountInit(tab)
  BY <1>2, MountInitType
<1>3. CASE MountEntry \/ UnmountDeinit \/ UnmountEntry
  BY <1>3, MountEntryType, UnmountDeinitType, UnmountEntryType
<1>4. CASE Call
  BY <1>4, CallType
<1> QED BY <1>1, <1>2, <1>3, <1>4 DEF Next, Call

-----------------------------------------------------------------------------
(* The list of mounts is an interval of the table *)

\* A fresh table has the empty interval as its list.
LEMMA MountInitTable ==
    ASSUME TypeOK, LoopInv, TableInv, NEW tab \in Fstabs, MountInit(tab)
    PROVE  LoopInv' /\ TableInv'
<1>1. CASE UNCHANGED vars
  BY <1>1 DEF LoopInv, TableInv, Window, vars, table, loop
<1>2. CASE mps = <<>> /\ fste = {} /\ op = "idle" /\ UNCHANGED <<mps, loop, fopsl, current, cwd, handles, fault>>
  BY <1>2 DEF LoopInv, TableInv, loop
<1>3. CASE /\ mps = <<>> /\ fste = {} /\ fste' = FsTypes
           /\ mps' = [i \in DOMAIN tab |-> [point |-> tab[i].point, fs |-> Null]]
           /\ op' = "mount" /\ n' = 1 /\ fstab' = tab /\ fault = "none"
           /\ UNCHANGED <<fopsl, current, cwd, handles, fault>>
  <2>1. Len(mps') = Len(tab) /\ mps' # <<>> /\ Len(tab) \in Nat \ {0}
        /\ \A e \in DOMAIN mps' : mps'[e].fs = Null
    BY <1>3, FreshTable
  <2>2. fopsl' = <<>>
    BY <1>3 DEF TableInv
  <2>3. DOMAIN mps' = 1..Len(mps')
    BY <1>3, FreshTable
  <2>4. Window(1, 0)'
    BY <1>3, <2>1, <2>2, <2>3 DEF Window
  <2>5. TableInv'
    BY <1>3, <2>1, <2>4, DriverFacts DEF TableInv
  <2> QED BY <1>3, <2>1, <2>5 DEF LoopInv
<1>4. CASE op = "idle" /\ UNCHANGED <<table, current, cwd, handles, loop>>
  BY <1>4 DEF LoopInv, TableInv, Window, table, loop
<1> QED BY <1>1, <1>2, <1>3, <1>4 DEF MountInit, MountRefused, Idle

\* A mount extends the interval by its next element, or the table is freed.
LEMMA MountEntryTable ==
    ASSUME TypeOK, LoopInv, TableInv, MountEntry
    PROVE  LoopInv' /\ TableInv'
<1>1. /\ op = "mount" /\ mps # <<>> /\ n \in 1..Len(fstab) /\ Len(fstab) = Len(mps)
      /\ DOMAIN mps = 1..Len(mps) /\ Len(mps) \in Nat \ {0} /\ fste = FsTypes /\ fault = "none"
  BY DEF MountEntry, LoopInv, TypeOK
<1>2. PICK m \in 0..Len(mps) : m = n - 1
  BY <1>1
<1>3. Window(1, m) /\ n = m + 1 /\ 1 \in 1..Len(mps) + 1 /\ m + 1 \in 0..Len(mps)
  BY <1>1, <1>2 DEF TableInv, Window
<1>4. CASE NotDetected
  <2>1. Window(1, m)'
    BY <1>1, <1>3, <1>4 DEF NotDetected, Return, Window, table
  <2>2. UNCHANGED <<mps, fste, fopsl>> /\ op' = "idle"
    BY <1>4 DEF NotDetected, Return, table
  <2>3. TableInv'
    BY <1>1, <1>2, <1>3, <2>1, <2>2, VfsAssumption DEF TableInv
  <2> QED BY <2>2, <2>3 DEF LoopInv
<1>5. CASE MountFailed
  <2>1. mps' = <<>> /\ fste' = FsTypes /\ op' = "idle"
    BY <1>1, <1>5 DEF MountFailed, FreeTable, Return
  <2> QED BY <2>1, VfsAssumption DEF LoopInv, TableInv
<1>6. CASE Mounted
  <2>1. PICK type \in Detected : VfsMount(n, type)
    BY <1>6 DEF Mounted
  <2>2. type # Null
    BY <2>1, VfsAssumption DEF VfsMount, TypeOK
  <2>3. /\ Len(mps') = Len(mps) /\ DOMAIN mps' = DOMAIN mps /\ mps' # <<>>
        /\ mps'[n].fs = type
        /\ \A e \in DOMAIN mps \ {n} : mps'[e] = mps[e]
    BY <1>1, <2>1 DEF VfsMount, TypeOK, Mounts
  <2>4. fopsl' = Append(fopsl, n) /\ Len(fopsl) = m
    BY <1>1, <1>3, <2>1 DEF VfsMount, Inserted, Window
  <2>5. Len(fopsl') = m + 1 /\ \A k \in DOMAIN fopsl' : fopsl'[k] = k
    BY <1>1, <1>3, <2>4 DEF Window, TypeOK
  <2>6. \A e \in DOMAIN mps' : mps'[e].fs # Null <=> 1 <= e /\ e <= m + 1
    BY <1>1, <1>3, <2>2, <2>3 DEF Window
  <2>7. CASE n = Len(fstab)
    <3>1. op' = "idle"
      BY <1>6, <2>7 DEF Mounted, Return
    <3>2. Window(1, m + 1)'
      BY <1>1, <1>3, <2>3, <2>5, <2>6, <3>1, <2>7 DEF Window
    <3>3. fste' # {}
      BY <1>1, <1>6, VfsAssumption DEF Mounted
    <3> QED BY <1>1, <1>3, <2>3, <3>1, <3>2, <3>3 DEF LoopInv, TableInv, MountEntry
  <2>8. CASE n # Len(fstab)
    <3>1. op' = op /\ n' = n + 1 /\ fstab' = fstab /\ fste' = fste
      BY <1>6, <2>8 DEF Mounted
    <3>2. Window(1, m + 1)'
      BY <1>1, <1>3, <2>3, <2>5, <2>6, <3>1 DEF Window
    <3>3. fste' # {}
      BY <1>1, <3>1, VfsAssumption
    <3> QED BY <1>1, <1>3, <2>3, <2>8, <3>1, <3>2, <3>3 DEF LoopInv, TableInv, MountEntry
  <2> QED BY <2>7, <2>8
<1> QED BY <1>4, <1>5, <1>6 DEF MountEntry

\* vfs_unmount always removes the head of the list.
LEMMA UnmountsHead ==
    ASSUME TypeOK, LoopInv, op = "unmount", Unmounted,
           NEW first \in 1..Len(mps) + 1, NEW last \in 0..Len(mps), Window(first, last)
    PROVE  /\ first = n /\ n \in DOMAIN mps /\ first <= last /\ fopsl # <<>>
           /\ fopsl' = Tail(fopsl) /\ Len(fopsl') = Len(fopsl) - 1
           /\ \A k \in DOMAIN fopsl' : fopsl'[k] = fopsl[k + 1] /\ k \in Nat /\ k + 1 \in DOMAIN fopsl
<1>1. DOMAIN mps = 1..Len(mps) /\ Len(mps) \in Nat
      /\ n \in 1..Len(mps) /\ mps[n].fs # Null
      /\ \A e \in DOMAIN mps : e < n => mps[e].fs = Null
  BY DEF Unmounted, VfsUnmount, TypeOK, LoopInv
<1>2. first = n /\ first <= last
  BY <1>1 DEF Window
<1>3. fopsl # <<>> /\ Head(fopsl) = n
  BY <1>2 DEF Window, TypeOK
<1>4. fopsl' = Tail(fopsl)
  BY <1>3 DEF Unmounted, VfsUnmount, Unlinked
<1>5. fopsl \in Seq(DOMAIN mps \cup {Freed})
  BY DEF TypeOK
<1> QED BY <1>1, <1>2, <1>3, <1>4, <1>5

\* An unmount shortens the interval from below; the last one empties it.
LEMMA UnmountTable ==
    ASSUME TypeOK, LoopInv, TableInv, UnmountDeinit \/ UnmountEntry
    PROVE  LoopInv' /\ TableInv'
<1>1. DOMAIN mps = 1..Len(mps) /\ Len(mps) \in Nat
  BY DEF TypeOK
<1>2. CASE UnmountDeinit
  <2>1. CASE UNCHANGED vars
    BY <2>1 DEF LoopInv, TableInv, Window, vars, table, loop
  <2>2. CASE /\ mps # <<>> /\ op' = "unmount" /\ n' = 1 /\ fault = "none"
             /\ UNCHANGED <<table, current, cwd, handles, fstab, fault>>
    <3>1. UNCHANGED <<fste, mps, fopsl>>
      BY <2>2 DEF table
    <3>2. LoopInv'
      BY <1>1, <2>2, <3>1 DEF LoopInv, TypeOK
    <3>3. TableInv'
      BY <2>2, <3>1 DEF TableInv, Window
    <3> QED BY <3>2, <3>3
  <2> QED BY <1>2, <2>1, <2>2 DEF UnmountDeinit, Idle
<1>3. CASE UnmountEntry
  <2>1. op = "unmount" /\ mps # <<>> /\ n \in 1..Len(mps) + 1 /\ fault = "none" /\ fault' = fault
        /\ \A e \in DOMAIN mps : e < n => mps[e].fs = Null
    BY <1>3 DEF UnmountEntry, LoopInv
  <2>2. PICK first \in 1..Len(mps) + 1, last \in 0..Len(mps) : Window(first, last)
    BY <2>1 DEF TableInv
  <2>3. CASE UnmountFailed
    <3>1. op' = "idle" /\ UNCHANGED <<fste, mps, fopsl>>
      BY <2>3 DEF UnmountFailed, Return, table
    <3>2. Window(first, last)'
      BY <2>2, <3>1 DEF Window
    <3> QED BY <2>1, <3>1, <3>2 DEF LoopInv, TableInv
  <2>4. CASE Deinit
    <3>1. mps' = <<>> /\ fste' = {} /\ op' = "idle" /\ fopsl' = fopsl
      BY <2>4 DEF Deinit, FreeTable, Return
    <3>2. fopsl = <<>>
      BY <2>1, <2>4, ListEmptied DEF Deinit
    <3> QED BY <3>1, <3>2 DEF LoopInv, TableInv
  <2>5. CASE Unmounted
    <3>1. n \in 1..Len(mps)
      BY <2>1, <2>5 DEF Unmounted
    <3>2. /\ first = n /\ first <= last /\ Len(fopsl') = Len(fopsl) - 1
          /\ \A k \in DOMAIN fopsl' : fopsl'[k] = fopsl[k + 1] /\ k \in Nat /\ k + 1 \in DOMAIN fopsl
      BY <2>1, <2>2, <2>5, UnmountsHead
    <3>3. Len(fopsl) = last + 1 - first /\ \A k \in DOMAIN fopsl : fopsl[k] = first + k - 1
      BY <2>2 DEF Window
    <3>4. \A k \in DOMAIN fopsl' : fopsl'[k] = first + k
      <4>1. ASSUME NEW k \in DOMAIN fopsl' PROVE fopsl'[k] = first + k
        <5>1. fopsl[k + 1] = first + (k + 1) - 1 /\ k \in Nat
          BY <3>2, <3>3
        <5> QED BY <3>2, <5>1
      <4> QED BY <4>1
    <3>5. /\ DOMAIN mps' = DOMAIN mps /\ Len(mps') = Len(mps) /\ mps'[n].fs = Null
          /\ \A e \in DOMAIN mps \ {n} : mps'[e] = mps[e]
      BY <1>1, <2>5, <3>1 DEF Unmounted, VfsUnmount, TypeOK, Mounts
    <3>6. n' = n + 1 /\ op' = "unmount" /\ fste' = fste /\ fste # {} /\ mps' # <<>>
      BY <1>1, <2>1, <2>5, <3>1, <3>5 DEF Unmounted, TableInv
    <3>7. Window(first + 1, last)'
      <4>0. DOMAIN mps = 1..Len(mps) /\ Len(mps) \in Nat
        BY <1>1 DEF TypeOK
      <4>1. \A e \in DOMAIN mps' : mps'[e].fs # Null <=> first + 1 <= e /\ e <= last
        <5> SUFFICES ASSUME NEW e \in DOMAIN mps'
                     PROVE  mps'[e].fs # Null <=> first + 1 <= e /\ e <= last
          OBVIOUS
        <5>1. e \in DOMAIN mps /\ e \in Nat /\ first \in Nat
          BY <3>5, <4>0
        <5>2. CASE e = n
          BY <3>2, <3>5, <5>1, <5>2
        <5>3. CASE e # n
          <6>1. mps'[e].fs # Null <=> first <= e /\ e <= last
            BY <2>2, <3>5, <5>1, <5>3 DEF Window
          <6> QED BY <3>2, <5>1, <5>3, <6>1
        <5> QED BY <5>2, <5>3
      <4>2. \A k \in DOMAIN fopsl' : fopsl'[k] = (first + 1) + k - 1
        BY <3>2, <3>4
      <4>3. Len(fopsl') = last + 1 - (first + 1) /\ first + 1 <= last + 1 /\ last <= Len(mps')
        BY <1>1, <3>2, <3>3, <3>5
      <4> QED BY <3>6, <4>1, <4>2, <4>3 DEF Window
    <3>8. TableInv'
      BY <1>1, <3>1, <3>2, <3>5, <3>6, <3>7 DEF TableInv
    <3> QED BY <1>1, <2>1, <3>1, <3>5, <3>6, <3>8 DEF LoopInv
  <2> QED BY <1>3, <2>3, <2>4, <2>5 DEF UnmountEntry
<1> QED BY <1>2, <1>3

\* The calls on names and descriptors leave the interval alone.
LEMMA CallTable ==
    ASSUME TypeOK, LoopInv, TableInv, Call
    PROVE  LoopInv' /\ TableInv'
BY CallFrame DEF LoopInv, TableInv, Window, Idle

\* Every step keeps the list an interval of the table.
LEMMA TablePreserved ==
    ASSUME TypeOK, LoopInv, TableInv, [Next]_vars
    PROVE  LoopInv' /\ TableInv'
<1>1. CASE UNCHANGED vars
  BY <1>1 DEF LoopInv, TableInv, Window, vars, table, loop
<1>2. CASE \E tab \in Fstabs : MountInit(tab)
  BY <1>2, MountInitTable
<1>3. CASE MountEntry \/ UnmountDeinit \/ UnmountEntry
  BY <1>3, MountEntryTable, UnmountTable
<1>4. CASE Call
  BY <1>4, CallTable
<1> QED BY <1>1, <1>2, <1>3, <1>4 DEF Next, Call

\* TinyVfs is type correct for every mount table, name set and failure.
THEOREM TypeCorrect == Spec => []TypeOK
<1>1. Init => TypeOK /\ LoopInv /\ TableInv
  BY InitType DEF Init, LoopInv, TableInv
<1>2. TypeOK /\ LoopInv /\ TableInv /\ [Next]_vars => (TypeOK /\ LoopInv /\ TableInv)'
  BY TypePreserved, TablePreserved
<1> QED BY <1>1, <1>2, PTL DEF Spec

\* A list that is an interval holds exactly the mounted elements, in order.
LEMMA ListFromInv == TypeOK /\ TableInv => ListIsMounted
<1> SUFFICES ASSUME TypeOK, TableInv, mps # <<>>
             PROVE  ListIsMounted
  BY DEF ListIsMounted
<1>1. PICK first \in 1..Len(mps) + 1, last \in 0..Len(mps) : Window(first, last)
  BY DEF TableInv
<1>2. DOMAIN mps = 1..Len(mps) /\ Len(mps) \in Nat
      /\ DOMAIN fopsl = 1..Len(fopsl) /\ Len(fopsl) = last + 1 - first
  BY <1>1 DEF TypeOK, Window
<1>3. \A k \in DOMAIN fopsl : fopsl[k] \in Nat /\ fopsl[k] \in DOMAIN mps /\ mps[fopsl[k]].fs # Null
  BY <1>1, <1>2 DEF Window
<1>4. \A k \in DOMAIN fopsl : fopsl[k] # Freed
  BY <1>2, <1>3, NotAnIndex
<1>5. ASSUME NEW e \in DOMAIN mps, mps[e].fs # Null PROVE InList(e)
  <2>1. first <= e /\ e <= last /\ e \in Nat
    BY <1>1, <1>2, <1>5 DEF Window
  <2>2. e + 1 - first \in DOMAIN fopsl /\ fopsl[e + 1 - first] = e
    BY <1>1, <1>2, <2>1 DEF Window
  <2> QED BY <2>2 DEF InList
<1>6. \A j, k \in DOMAIN fopsl : j < k => fopsl[j] < fopsl[k]
  BY <1>1, <1>2 DEF Window
<1> QED BY <1>3, <1>4, <1>5, <1>6 DEF ListIsMounted

\* The list holds exactly the mounted elements, in table order: unmounting
\* never frees a node that stays linked.
THEOREM ListCorrect == Spec => []ListIsMounted
<1>1. Init => TypeOK /\ LoopInv /\ TableInv
  BY InitType DEF Init, LoopInv, TableInv
<1>2. TypeOK /\ LoopInv /\ TableInv /\ [Next]_vars => (TypeOK /\ LoopInv /\ TableInv)'
  BY TypePreserved, TablePreserved
<1> QED BY <1>1, <1>2, ListFromInv, PTL DEF Spec

-----------------------------------------------------------------------------
(* The current mount and the working directory *)

Inv2 == TypeOK /\ LoopInv /\ TableInv

\* While a table exists the list's elements are among its mounted ones.
LEMMA Listed ==
    ASSUME Inv2, mps # <<>>, NEW k \in DOMAIN fopsl
    PROVE  /\ fopsl[k] \in DOMAIN mps /\ mps[fopsl[k]].fs # Null
           /\ ~InList(Freed)
<1>1. PICK first \in 1..Len(mps) + 1, last \in 0..Len(mps) : Window(first, last)
  BY DEF TableInv, Inv2
<1>2. DOMAIN mps = 1..Len(mps) /\ Len(mps) \in Nat
      /\ DOMAIN fopsl = 1..Len(fopsl) /\ Len(fopsl) = last + 1 - first
  BY <1>1 DEF TypeOK, Window, Inv2
<1>3. ASSUME NEW j \in DOMAIN fopsl PROVE fopsl[j] \in DOMAIN mps /\ mps[fopsl[j]].fs # Null
  <2>1. fopsl[j] = first + j - 1 /\ j \in 1..Len(fopsl)
    BY <1>1, <1>2 DEF Window
  <2>2. first + j - 1 \in DOMAIN mps /\ first <= first + j - 1 /\ first + j - 1 <= last
    BY <1>1, <1>2, <2>1 DEF Window
  <2>3. mps[first + j - 1].fs # Null
    BY <1>1, <2>2 DEF Window
  <2> QED BY <2>1, <2>2, <2>3
<1>4. TypeOK
  BY DEF Inv2
<1> QED BY <1>3, <1>4, NotAnIndex DEF InList

\* A step that changes neither table, current mount nor working directory keeps
\* them together, if it does not newly complete the table.
LEMMA StepAnchored ==
    ASSUME Inv2, PointsDiffer, CwdInv, [Next]_vars, UNCHANGED <<mps, fopsl, current, cwd>>,
           Anchored' => Anchored
    PROVE  PointsDiffer' /\ CwdInv'
BY DEF PointsDiffer, CwdInv

\* A fresh table is not anchored yet.
LEMMA MountInitCwd ==
    ASSUME Inv2, PointsDiffer, CwdInv, NEW tab \in Fstabs, MountInit(tab)
    PROVE  PointsDiffer' /\ CwdInv'
<1>1. CASE UNCHANGED vars
  BY <1>1 DEF PointsDiffer, CwdInv, Anchored, vars, table, loop
<1>2. CASE mps = <<>> /\ UNCHANGED <<mps, loop>> /\ op = "idle"
  BY <1>2 DEF PointsDiffer, CwdInv, Anchored, loop
<1>3. CASE mps = <<>> /\ fste = {} /\ op' = "mount" /\ n' = 1 /\ fopsl' = fopsl
  BY <1>3 DEF PointsDiffer, CwdInv, Anchored, Inv2, TableInv
<1>4. CASE UNCHANGED <<table, current, cwd, handles, loop>>
  BY <1>4 DEF PointsDiffer, CwdInv, Anchored, table, loop
<1> QED BY <1>1, <1>2, <1>3, <1>4 DEF MountInit, MountRefused, Idle

\* A mount makes its element current and its point the working directory.
LEMMA MountEntryCwd ==
    ASSUME Inv2, PointsDiffer, CwdInv, MountEntry
    PROVE  PointsDiffer' /\ CwdInv'
<1>1. /\ op = "mount" /\ mps # <<>> /\ n \in 1..Len(mps) /\ Len(fstab) = Len(mps)
      /\ DOMAIN mps = 1..Len(mps)
  BY DEF MountEntry, LoopInv, TypeOK, Inv2
<1>2. mps[n].fs = Null
  BY <1>1 DEF Inv2, TableInv, Window
<1>3. CASE NotDetected
  BY <1>1, <1>2, <1>3 DEF NotDetected, Return, PointsDiffer, CwdInv, Anchored, table
<1>4. CASE MountFailed
  BY <1>4 DEF MountFailed, FreeTable, Return, PointsDiffer, CwdInv, Anchored
<1>5. CASE Mounted
  <2>1. PICK type \in Detected : VfsMount(n, type)
    BY <1>5 DEF Mounted
  <2>2. type # Null
    BY <2>1, VfsAssumption DEF VfsMount, TypeOK, Inv2
  <2>3. /\ DOMAIN mps' = DOMAIN mps /\ mps'[n].fs = type
        /\ \A e \in DOMAIN mps : mps'[e].point = mps[e].point
    BY <1>1, <2>1 DEF VfsMount, TypeOK, Mounts, Inv2
  <2>4. current' = n /\ cwd' = <<mps[n].point>>
    BY <2>1 DEF VfsMount
  <2>5. CwdInv'
    BY <1>1, <2>2, <2>3, <2>4 DEF CwdInv
  <2>6. \A k \in DOMAIN fopsl : fopsl[k] \in DOMAIN mps /\ mps[fopsl[k]].point # mps[n].point
    <3>1. Inv2 => TypeOK
      BY DEF Inv2
    <3> QED BY <1>1, <2>1, <3>1, Listed, NotAnIndex DEF VfsMount, Busy
  <2>7. fopsl \in Seq(DOMAIN mps \cup {Freed}) /\ fopsl' = Append(fopsl, n)
    BY <2>1 DEF VfsMount, Inserted, Inv2, TypeOK
  <2>8. DOMAIN fopsl' = DOMAIN fopsl \cup {Len(fopsl) + 1} /\ fopsl'[Len(fopsl) + 1] = n
        /\ \A k \in DOMAIN fopsl : fopsl'[k] = fopsl[k]
    BY <2>7
  <2>9. PointsDiffer'
    BY <1>1, <2>3, <2>6, <2>8 DEF PointsDiffer
  <2> QED BY <2>5, <2>9
<1> QED BY <1>3, <1>4, <1>5 DEF MountEntry

\* The first unmount ends the anchoring.
LEMMA UnmountCwd ==
    ASSUME Inv2, PointsDiffer, CwdInv, UnmountDeinit \/ UnmountEntry
    PROVE  PointsDiffer' /\ CwdInv'
<1>1. CASE UnmountDeinit
  BY <1>1 DEF UnmountDeinit, Idle, PointsDiffer, CwdInv, Anchored, vars, table, loop
<1>2. CASE UnmountEntry
  <2>1. op = "unmount" /\ mps # <<>> /\ n \in 1..Len(mps) + 1 /\ cwd' = cwd
        /\ (\A e \in DOMAIN mps : e < n => mps[e].fs = Null)
        /\ DOMAIN mps = 1..Len(mps) /\ Len(mps) \in Nat \ {0}
    BY <1>2 DEF UnmountEntry, LoopInv, Inv2, TypeOK
  <2>2. CASE UnmountFailed
    <3>1. UNCHANGED <<mps, fopsl, current>> /\ op' = "idle"
      BY <2>2 DEF UnmountFailed, Return, table
    <3>2. (\A e \in DOMAIN mps : mps[e].fs # Null) => n = 1
      <4>1. 1 \in DOMAIN mps /\ (n # 1 => 1 < n)
        BY <2>1
      <4> QED BY <2>1, <4>1
    <3> QED BY <2>1, <3>1, <3>2 DEF PointsDiffer, CwdInv, Anchored
  <2>3. CASE Deinit
    BY <2>3 DEF Deinit, FreeTable, Return, PointsDiffer, CwdInv, Anchored
  <2>4. CASE Unmounted
    <3>1. n' > 1 /\ op' = "unmount" /\ n \in DOMAIN mps /\ mps[n].fs # Null
      BY <2>1, <2>4 DEF Unmounted, VfsUnmount
    <3>2. CwdInv'
      BY <3>1 DEF CwdInv, Anchored
    <3>3. \A e \in DOMAIN mps : mps'[e].point = mps[e].point
      BY <2>1, <2>4, <3>1 DEF Unmounted, VfsUnmount, Inv2, TypeOK, Mounts
    <3>4. PICK first \in 1..Len(mps) + 1, last \in 0..Len(mps) : Window(first, last)
      BY <2>1 DEF Inv2, TableInv
    <3>5. \A k \in DOMAIN fopsl' : fopsl'[k] = fopsl[k + 1] /\ k \in Nat /\ k + 1 \in DOMAIN fopsl
      BY <2>1, <2>4, <3>4, UnmountsHead DEF Inv2
    <3>6. ASSUME NEW j \in DOMAIN fopsl', NEW k \in DOMAIN fopsl',
                 mps'[fopsl'[j]].point = mps'[fopsl'[k]].point
          PROVE  j = k
      <4>1. fopsl[j + 1] \in DOMAIN mps /\ fopsl[k + 1] \in DOMAIN mps
        BY <2>1, <3>5, Listed
      <4>2. mps[fopsl[j + 1]].point = mps[fopsl[k + 1]].point
        BY <3>3, <3>5, <3>6, <4>1
      <4>3. j + 1 = k + 1
        BY <2>1, <3>5, <4>2 DEF PointsDiffer
      <4> QED BY <3>5, <4>3
    <3> QED BY <3>2, <3>6 DEF PointsDiffer
  <2> QED BY <1>2, <2>2, <2>3, <2>4 DEF UnmountEntry
<1> QED BY <1>1, <1>2

\* vfs_chdir moves the working directory and the current mount together.
LEMMA CallCwd ==
    ASSUME Inv2, PointsDiffer, CwdInv, Call
    PROVE  PointsDiffer' /\ CwdInv'
<1>1. Idle /\ UNCHANGED <<fste, mps, fopsl, op, n, fstab>>
  BY CallFrame
<1>2. PointsDiffer'
  BY <1>1 DEF PointsDiffer
<1>3. CASE UNCHANGED <<current, cwd>>
  BY <1>1, <1>2, <1>3, StepAnchored DEF Anchored, CwdInv
<1>4. ASSUME NEW p \in Paths, Chdir(p), Anchored PROVE CwdInv'
  <2>1. mps # <<>> /\ current \in DOMAIN mps /\ mps[current].fs # Null
        /\ cwd # <<>> /\ cwd[1] = mps[current].point
    BY <1>1, <1>4 DEF CwdInv, Anchored, Idle
  <2>2. CASE UNCHANGED <<current, cwd>>
    BY <1>1, <2>1, <2>2 DEF CwdInv
  <2>3. CASE Entry(p) # NotFound /\ ChdirTo(p) /\ p.abs
    <3>1. ~InList(Freed)
      BY <2>1, <2>3, Listed DEF InList
    <3> DEFINE k == CHOOSE k \in DOMAIN fopsl : mps[fopsl[k]].point = p.comps[1]
    <3>2. k \in DOMAIN fopsl /\ Entry(p) = fopsl[k] /\ mps[fopsl[k]].point = p.comps[1]
          /\ p.comps # <<>>
      BY <2>3, <3>1 DEF Entry, TooShort
    <3>3. fopsl[k] \in DOMAIN mps /\ mps[fopsl[k]].fs # Null
      BY <2>1, <3>2, Listed
    <3> QED BY <1>1, <2>3, <3>2, <3>3 DEF ChdirTo, Absolute, CwdInv
  <2>4. CASE Entry(p) # NotFound /\ ChdirTo(p) /\ ~p.abs
    <3> DEFINE c == p.comps
    <3>1. c \in Seq(STRING) /\ cwd \in Seq(STRING)
      BY VfsAssumption DEF Inv2, TypeOK
    <3>2. cwd' = cwd \o c /\ current' = current
      BY <2>4 DEF ChdirTo, Absolute
    <3> HIDE DEF c
    <3>3. cwd' # <<>> /\ cwd'[1] = cwd[1]
      BY <2>1, <3>1, <3>2
    <3> QED BY <1>1, <2>1, <3>2, <3>3 DEF CwdInv
  <2> QED BY <1>4, <2>2, <2>3, <2>4 DEF Chdir
<1>5. Anchored' => Anchored
  BY <1>1 DEF Anchored
<1>6. (\E p \in Paths : Chdir(p)) \/ UNCHANGED <<current, cwd>>
  BY DEF Call, OpenFile, PathCall, Rename, FileCall, CloseFile
<1> QED BY <1>2, <1>3, <1>4, <1>5, <1>6 DEF CwdInv

Inv == Inv2 /\ PointsDiffer /\ CwdInv

\* The invariant holds initially.
LEMMA InitInv == Init => Inv
BY InitType DEF Init, Inv, Inv2, LoopInv, TableInv, PointsDiffer, CwdInv, Anchored

\* The invariant is inductive.
LEMMA InvPreserved ==
    ASSUME Inv, [Next]_vars
    PROVE  Inv'
<1>1. Inv2'
  BY TypePreserved, TablePreserved DEF Inv, Inv2
<1>2. PointsDiffer' /\ CwdInv'
  <2>1. CASE UNCHANGED vars
    BY <2>1 DEF Inv, PointsDiffer, CwdInv, Anchored, vars, table, loop
  <2>2. CASE \E tab \in Fstabs : MountInit(tab)
    BY <2>2, MountInitCwd DEF Inv
  <2>3. CASE MountEntry \/ UnmountDeinit \/ UnmountEntry
    BY <2>3, MountEntryCwd, UnmountCwd DEF Inv
  <2>4. CASE Call
    BY <2>4, CallCwd DEF Inv
  <2> QED BY <2>1, <2>2, <2>3, <2>4 DEF Next, Call
<1> QED BY <1>1, <1>2 DEF Inv

\* While everything is mounted, a relative name leads to the mount its
\* absolute form leads to.
THEOREM NamesCorrect == Spec => []NamesAgree
<1>1. Inv => NamesAgree
  <2> SUFFICES ASSUME Inv, State = "up", op = "idle", NEW p \in Paths, ~p.abs, ~TooShort(p)
               PROVE  Entry(p) = Entry([abs |-> TRUE, comps |-> Absolute(p)])
    BY DEF NamesAgree
  <2> DEFINE q == [abs |-> TRUE, comps |-> Absolute(p)]
  <2>1. mps # <<>> /\ Anchored /\ DOMAIN mps = 1..Len(mps)
    BY DEF State, Complete, Anchored, Inv, Inv2, TypeOK
  <2>2. current \in DOMAIN mps /\ mps[current].fs # Null
        /\ cwd # <<>> /\ cwd[1] = mps[current].point
    BY <2>1 DEF CwdInv, Inv
  <2>3. Entry(p) = current
    BY DEF Entry
  <2>4. q.comps # <<>> /\ q.comps[1] = cwd[1]
    <3> DEFINE c == p.comps
    <3>1. c \in Seq(STRING) /\ cwd \in Seq(STRING) /\ q.comps = cwd \o c
      BY VfsAssumption DEF Inv, Inv2, TypeOK, Absolute
    <3> HIDE DEF c, q
    <3> QED BY <2>2, <3>1
  <2>5. PICK i \in DOMAIN fopsl : fopsl[i] = current
    <3>1. ListIsMounted
      BY ListFromInv DEF Inv, Inv2
    <3> QED BY <2>1, <2>2, <3>1 DEF ListIsMounted, InList
  <2>6. ~InList(Freed)
    BY <2>1, <2>5, Listed DEF Inv
  <2> DEFINE k == CHOOSE k \in DOMAIN fopsl : mps[fopsl[k]].point = q.comps[1]
  <2>7. k \in DOMAIN fopsl /\ mps[fopsl[k]].point = q.comps[1] /\ Entry(q) = fopsl[k]
    BY <2>2, <2>4, <2>5, <2>6 DEF Entry, TooShort
  <2>8. k = i
    BY <2>1, <2>2, <2>4, <2>5, <2>7 DEF PointsDiffer, Inv
  <2> QED BY <2>3, <2>5, <2>7, <2>8
<1> QED BY <1>1, InitInv, InvPreserved, PTL DEF Spec

-----------------------------------------------------------------------------
(* Faults *)

\* An open descriptor was opened on a mount.
HandleInv == \A s \in Slots : handles[s].st = "open" => handles[s].mp # Null

\* Every step keeps a mount in every open descriptor.
LEMMA HandlePreserved ==
    ASSUME TypeOK, HandleInv, [Next]_vars
    PROVE  HandleInv'
<1>1. CASE handles' = handles
  BY <1>1 DEF HandleInv
<1>2. CASE FreeTable
  BY <1>2, VfsAssumption DEF FreeTable, Dangling, HandleInv, TypeOK
<1>3. ASSUME NEW p \in Paths, OpenFile(p) PROVE HandleInv'
  <2>1. CASE handles' = handles
    BY <2>1 DEF HandleInv
  <2>2. CASE \E h \in {Leaked, Open(Entry(p))} :
                handles' = [handles EXCEPT ![LowestFree] = h] /\ (h = Leaked \/ Entry(p) # Null)
    BY <2>2 DEF HandleInv, TypeOK, Leaked, Open
  <2> QED BY <1>3, <2>1, <2>2 DEF OpenFile, Opened, FaultAt
<1>4. ASSUME NEW s \in Slots, CloseFile(s) PROVE HandleInv'
  BY <1>4 DEF CloseFile, HandleInv, TypeOK, Free
<1> QED BY <1>1, <1>2, <1>3, <1>4
        DEF Next, MountInit, MountRefused, MountEntry, NotDetected, MountFailed, Mounted,
            UnmountDeinit, UnmountEntry, UnmountFailed, Unmounted, Deinit, Chdir, PathCall,
            Rename, FileCall, vars

\* While everything is mounted no name leads to a fault.
LEMMA NamesAreSafe ==
    ASSUME Inv, Idle, State = "up", NEW p, Entry(p) # NotFound
    PROVE  FaultAt(Entry(p)) = "none"
<1>1. mps # <<>> /\ Anchored /\ (\A e \in DOMAIN mps : mps[e].fs # Null) /\ DOMAIN mps = 1..Len(mps)
  BY DEF State, Complete, Anchored, Idle, Inv, Inv2, TypeOK
<1>2. current \in DOMAIN mps
  BY <1>1 DEF CwdInv, Inv
<1>3. \A e \in DOMAIN mps : FaultAt(e) = "none"
  <2>1. TypeOK
    BY DEF Inv, Inv2
  <2> QED BY <1>1, <2>1, NotAnIndex DEF FaultAt
<1>4. CASE p.abs
  <2> DEFINE k == CHOOSE k \in DOMAIN fopsl : mps[fopsl[k]].point = p.comps[1]
  <2>1. CASE \E j \in DOMAIN fopsl : mps[fopsl[j]].point = p.comps[1]
    <3>1. ~InList(Freed)
      BY <1>1, <2>1, Listed DEF Inv
    <3>2. k \in DOMAIN fopsl /\ Entry(p) = fopsl[k]
      BY <1>4, <2>1, <3>1 DEF Entry
    <3>3. fopsl[k] \in DOMAIN mps
      BY <1>1, <3>2, Listed DEF Inv
    <3> QED BY <1>3, <3>2, <3>3
  <2>2. CASE ~\E j \in DOMAIN fopsl : mps[fopsl[j]].point = p.comps[1]
    <3>1. ~InList(Freed)
      BY <1>1, Listed DEF Inv, InList
    <3> QED BY <1>4, <2>2, <3>1 DEF Entry
  <2> QED BY <2>1, <2>2
<1>5. CASE ~p.abs
  BY <1>2, <1>3, <1>5 DEF Entry
<1> QED BY <1>4, <1>5

\* The fs of an unmounted element is only ever met in a wedged table.
LEMMA NullFsIsWedged ==
    ASSUME TypeOK, Idle, NEW e \in Pointers, FaultAt(e) = "null_fs"
    PROVE  State = "wedged"
<1>1. e \in DOMAIN mps /\ mps[e].fs = Null
  BY DEF FaultAt, Pointers
<1>2. mps # <<>> /\ e >= 1
  BY <1>1 DEF TypeOK
<1> QED BY <1>1, <1>2 DEF State, Complete, Idle

\* A call that faults while everything is mounted used a stale descriptor.
LEMMA CallFaults ==
    ASSUME Inv, HandleInv, Call
    PROVE  FaultsExplained'
<1>1. Idle /\ UNCHANGED <<fste, mps, fopsl, op, n, fstab>> /\ TypeOK
  BY CallFrame DEF Inv, Inv2
<1>2. State' = State
  BY <1>1 DEF State, Complete
<1>3. CASE fault' = "none"
  BY <1>3 DEF FaultsExplained
<1>4. ASSUME NEW p \in Paths, Entry(p) # NotFound, fault' = FaultAt(Entry(p)) PROVE FaultsExplained'
  <2>1. Entry(p) \in Pointers
    BY <1>1, <1>4, EntryType
  <2>2. State = "up" => fault' = "none"
    BY <1>1, <1>4, NamesAreSafe
  <2>3. fault' = "null_fs" => State = "wedged"
    BY <1>1, <1>4, <2>1, NullFsIsWedged
  <2> QED BY <1>2, <2>2, <2>3 DEF FaultsExplained
<1>5. ASSUME NEW s \in Slots, handles[s].st = "open", fault' = FaultAt(handles[s].mp),
             fault' # "none", handles' = handles
      PROVE  FaultsExplained'
  <2>1. handles[s].mp \in Pointers /\ handles[s].mp # Null
    BY <1>1, <1>5 DEF TypeOK, HandleInv
  <2>2. fault' = "null_fs" => State = "wedged"
    BY <1>1, <1>5, <2>1, NullFsIsWedged
  <2>3. fault' # "null_fs" => fault' = "freed_mount" /\ handles'[s].mp = Freed
    BY <1>5, <2>1 DEF FaultAt
  <2> QED BY <1>2, <2>2, <2>3 DEF FaultsExplained
<1>6. ASSUME NEW p \in Paths, Chdir(p), fault' # "none" PROVE FaultsExplained'
  <2>1. fault' = "freed_mount" /\ Entry(p) = Freed /\ Freed # NotFound
    BY <1>1, <1>6, VfsAssumption DEF Chdir, Idle
  <2>2. fault' = FaultAt(Entry(p))
    BY <2>1, VfsAssumption DEF FaultAt
  <2> QED BY <1>4, <2>1, <2>2
<1>7. ASSUME NEW p \in Paths, OpenFile(p), fault' # "none" PROVE FaultsExplained'
  BY <1>1, <1>4, <1>7 DEF OpenFile, Opened, Idle
<1>8. ASSUME NEW p \in Paths, PathCall(p), fault' # "none" PROVE FaultsExplained'
  BY <1>1, <1>4, <1>8 DEF PathCall, Idle
<1>10. ASSUME NEW p \in Paths, NEW q \in Paths, Rename(p, q), fault' # "none" PROVE FaultsExplained'
  BY <1>1, <1>4, <1>10 DEF Rename
<1>9. ASSUME NEW s \in Slots, FileCall(s) \/ CloseFile(s), fault' # "none" PROVE FaultsExplained'
  BY <1>5, <1>9 DEF FileCall, CloseFile
<1> QED BY <1>3, <1>6, <1>7, <1>8, <1>9, <1>10 DEF Call

\* While everything is mounted, only a descriptor kept open across an
\* unmount can lead to a fault, and the fs of an unmounted element is read
\* only in a wedged table.
THEOREM FaultsCorrect == Spec => []FaultsExplained
<1>1. Init => FaultsExplained /\ HandleInv
  BY DEF Init, FaultsExplained, HandleInv, Free
<1>2. Inv /\ HandleInv /\ FaultsExplained /\ [Next]_vars => (HandleInv /\ FaultsExplained)'
  <2> SUFFICES ASSUME Inv, HandleInv, FaultsExplained, [Next]_vars
               PROVE  HandleInv' /\ FaultsExplained'
    OBVIOUS
  <2>1. HandleInv'
    BY HandlePreserved DEF Inv, Inv2
  <2>2. CASE UNCHANGED vars
    BY <2>1, <2>2 DEF FaultsExplained, State, Complete, vars, table, loop
  <2>3. CASE fault' = "none"
    BY <2>1, <2>3 DEF FaultsExplained
  <2>4. CASE Call
    BY <2>1, <2>4, CallFaults
  <2>5. CASE DriversLost /\ op = "idle" /\ fault' = "null_drivers" /\ UNCHANGED <<table, loop>>
    <3>1. State' # "up"
      BY <2>5 DEF DriversLost, State, Complete, table, loop
    <3> QED BY <2>1, <2>5, <3>1 DEF FaultsExplained
  <2> QED BY <2>2, <2>3, <2>4, <2>5
          DEF Next, Call, MountInit, MountRefused, MountEntry, UnmountDeinit, UnmountEntry,
              Inv, Inv2, LoopInv, Idle
<1> QED BY <1>1, <1>2, InitInv, InvPreserved, PTL DEF Spec

-----------------------------------------------------------------------------
(* Renames *)

\* No rename is remembered while the table changes.
RenameInv ==
    /\ op # "idle" => renamed = NoRename
    /\ renamed # NoRename /\ renamed.abs => renamed.mount \in DOMAIN mps

\* What a mounted name's lookup yields has the name's first component as its
\* mount point.
LEMMA EntryPoint ==
    ASSUME TypeOK, ~InList(Freed), NEW p, p.abs, ~TooShort(p), Entry(p) # NotFound
    PROVE  Entry(p) \in DOMAIN mps /\ mps[Entry(p)].point = p.comps[1]
<1> DEFINE k == CHOOSE k \in DOMAIN fopsl : mps[fopsl[k]].point = p.comps[1]
<1>1. \E j \in DOMAIN fopsl : mps[fopsl[j]].point = p.comps[1]
  BY DEF Entry
<1>2. k \in DOMAIN fopsl /\ mps[fopsl[k]].point = p.comps[1] /\ Entry(p) = fopsl[k]
  BY <1>1 DEF Entry
<1>3. fopsl[k] \in DOMAIN mps
  BY <1>2 DEF TypeOK, InList
<1> QED BY <1>2, <1>3

\* A rename of an absolute name that reaches a driver stays in its mount, or
\* leads to one whose point begins with the text of the first one's.
LEMMA RenameStays ==
    ASSUME TypeOK, NEW p \in Paths, NEW q \in Paths, Rename(p, q),
           FaultAt(Entry(p)) = "none", p.abs
    PROVE  LET t == [abs |-> TRUE, comps |-> Absolute(q)] IN
           /\ Entry(p) \in DOMAIN mps
           /\ \/ Entry(t) \in {Entry(p), NotFound}
              \/ <<mps[Entry(p)].point, mps[Entry(t)].point>> \in Extensions
<1> DEFINE t == [abs |-> TRUE, comps |-> Absolute(q)]
<1>1. ~TooShort(p) /\ Entry(p) # NotFound /\ q.abs /\ t.comps = q.comps /\ q.comps # <<>>
      /\ (q.comps[1] = p.comps[1] \/ <<p.comps[1], q.comps[1]>> \in Extensions)
  BY DEF Rename, Compared, Entry, TooShort, Absolute
<1>2. ~InList(Freed)
  BY <1>1, VfsAssumption DEF Entry, FaultAt
<1>3. Entry(p) \in DOMAIN mps /\ mps[Entry(p)].point = p.comps[1]
  BY <1>1, <1>2, EntryPoint
<1>4. CASE q.comps[1] = p.comps[1]
  BY <1>1, <1>3, <1>4 DEF Entry, TooShort
<1>5. CASE <<p.comps[1], q.comps[1]>> \in Extensions /\ Entry(t) # NotFound
  <2>1. ~TooShort(t) /\ t.abs
    BY <1>1 DEF TooShort
  <2>2. mps[Entry(t)].point = t.comps[1]
    BY <1>2, <1>5, <2>1, EntryPoint
  <2> QED BY <1>1, <1>3, <1>5, <2>2
<1> QED BY <1>1, <1>3, <1>4, <1>5

\* A rename of an absolute name crosses into another mount only where that
\* mount's point begins with the text of the first one's: the comparison of
\* vfs_rename lets nothing else through.
THEOREM RenamesCorrect == Spec => []RenamesStay
<1>1. Init => RenamesStay /\ RenameInv
  BY DEF Init, RenamesStay, RenameInv, NoRename
<1>2. Inv /\ RenameInv /\ RenamesStay /\ [Next]_vars => RenameInv' /\ RenamesStay'
  <2> SUFFICES ASSUME Inv, RenameInv, RenamesStay, [Next]_vars
               PROVE  RenameInv' /\ RenamesStay'
    OBVIOUS
  <2>1. TypeOK
    BY DEF Inv, Inv2
  <2>2. CASE UNCHANGED <<renamed, mps, op>>
    BY <2>2 DEF RenamesStay, RenameInv
  <2>3. CASE renamed' = NoRename
    BY <2>3 DEF RenamesStay, RenameInv
  <2>4. ASSUME NEW p \in Paths, NEW q \in Paths, Rename(p, q), renamed' # NoRename
        PROVE  RenameInv' /\ RenamesStay'
    <3>1. FaultAt(Entry(p)) = "none" /\ UNCHANGED <<mps, op>> /\ op = "idle"
          /\ renamed' = [abs |-> p.abs, mount |-> Entry(p),
                         target |-> Entry([abs |-> TRUE, comps |-> Absolute(q)])]
      BY <2>4 DEF Rename, Idle, table, loop
    <3> QED BY <2>1, <2>4, <3>1, RenameStays DEF RenamesStay, RenameInv
  <2> QED BY <2>2, <2>3, <2>4
          DEF Next, MountInit, MountRefused, MountEntry, UnmountDeinit, UnmountEntry, Chdir,
              OpenFile, PathCall, FileCall, CloseFile, RenameInv, vars, table, loop
<1> QED BY <1>1, <1>2, InitInv, InvPreserved, PTL DEF Spec

-----------------------------------------------------------------------------
(* Refinement *)

\* Every step maps to a step of MountLifecycle or to a stutter.
LEMMA StateSteps ==
    ASSUME Inv, [Next]_vars
    PROVE  [Lifecycle!Next]_State
<1> USE DEF Lifecycle!Next, Lifecycle!MountAll, Lifecycle!UnmountAll
<1>1. TypeOK /\ LoopInv /\ TableInv /\ DOMAIN mps = 1..Len(mps) /\ FsTypes # {}
  BY VfsAssumption DEF Inv, Inv2, TypeOK
<1>2. CASE UNCHANGED vars
  BY <1>2 DEF State, Complete, vars, table, loop
<1>3. CASE Call
  BY <1>3, CallFrame DEF State, Complete
<1>4. ASSUME NEW tab \in Fstabs, MountInit(tab) PROVE [Lifecycle!Next]_State
  <2>1. CASE UNCHANGED vars
    BY <2>1 DEF State, Complete, vars, table, loop
  <2>2. CASE mps = <<>> /\ fste = {} /\ fste' # {} /\ op = "idle"
             /\ (UNCHANGED <<mps, loop>> \/ op' = "mount")
    BY <2>2 DEF State, Complete, loop
  <2>3. CASE mps = <<>> /\ fste = {} /\ op = "idle" /\ UNCHANGED <<mps, loop>>
    BY <2>3 DEF State, Complete, loop
  <2>4. CASE UNCHANGED <<table, loop>>
    BY <2>4 DEF State, Complete, table, loop
  <2> QED BY <1>1, <1>4, <2>1, <2>2, <2>3, <2>4 DEF MountInit, MountRefused, Idle
<1>5. CASE MountEntry
  <2>1. op = "mount" /\ State = "down" /\ n \in 1..Len(mps) /\ mps # <<>> /\ fste = FsTypes
        /\ Len(fstab) = Len(mps)
    BY <1>1, <1>5 DEF MountEntry, LoopInv, State
  <2>2. CASE NotDetected
    <3>1. mps[n].fs = Null
      BY <1>1, <2>1 DEF TableInv, Window
    <3> QED BY <1>1, <2>1, <2>2, <3>1 DEF NotDetected, Return, State, Complete, table
  <2>3. CASE MountFailed
    BY <1>1, <2>1, <2>3 DEF MountFailed, FreeTable, Return, State, Complete
  <2>4. CASE Mounted
    <3>1. CASE n # Len(fstab)
      BY <2>1, <2>4, <3>1 DEF Mounted, State
    <3>2. CASE n = Len(fstab)
      <4>1. op' = "idle" /\ fste' = fste
        BY <2>4, <3>2 DEF Mounted, Return
      <4> QED BY <2>1, <4>1, <1>1 DEF State
    <3> QED BY <3>1, <3>2
  <2> QED BY <1>5, <2>2, <2>3, <2>4 DEF MountEntry
<1>6. CASE UnmountDeinit
  BY <1>1, <1>6 DEF UnmountDeinit, Idle, State, Complete, vars, table, loop
<1>7. CASE UnmountEntry
  <2>1. op = "unmount" /\ n \in 1..Len(mps) + 1 /\ mps # <<>>
    BY <1>1, <1>7 DEF UnmountEntry, LoopInv
  <2>2. CASE UnmountFailed
    <3>1. UNCHANGED <<mps, fste>> /\ op' = "idle"
      BY <2>2 DEF UnmountFailed, Return, table
    <3>2. Complete' => Complete
      BY <1>1, <2>1, <3>1 DEF Complete
    <3> QED BY <2>1, <3>1, <3>2 DEF State
  <2>3. CASE Unmounted
    <3>1. n \in DOMAIN mps /\ mps[n].fs # Null /\ n' = n + 1 /\ op' = op /\ fste' = fste
      BY <1>1, <2>1, <2>3 DEF Unmounted, VfsUnmount
    <3>2. DOMAIN mps' = DOMAIN mps /\ (\A e \in DOMAIN mps \ {n} : mps'[e] = mps[e]) /\ mps' # <<>>
      BY <1>1, <2>1, <2>3, <3>1 DEF Unmounted, VfsUnmount, TypeOK
    <3>3. Complete' <=> Complete
      BY <1>1, <2>1, <3>1, <3>2 DEF Complete
    <3> QED BY <2>1, <3>1, <3>2, <3>3 DEF State
  <2>4. CASE Deinit
    <3>1. mps' = <<>> /\ fste' = {} /\ op' = "idle"
      BY <2>4 DEF Deinit, FreeTable, Return
    <3>2. Complete
      BY <1>1, <2>1, <2>4 DEF Complete, Deinit
    <3> QED BY <2>1, <3>1, <3>2 DEF State
  <2> QED BY <1>7, <2>2, <2>3, <2>4 DEF UnmountEntry
<1> QED BY <1>2, <1>3, <1>4, <1>5, <1>6, <1>7 DEF Next, Call

\* The mount table implements MountLifecycle: after a mount, or any unmount
\* but the first, has failed, nothing but a restart mounts or unmounts again.
THEOREM LifecycleImplemented == Spec => MountsTogether
<1>1. Init => Lifecycle!Init
  BY DEF Init, State, Lifecycle!Init
<1> QED BY <1>1, InitInv, InvPreserved, StateSteps, PTL DEF Spec, MountsTogether, Lifecycle!Spec
=============================================================================
