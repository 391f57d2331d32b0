-------------------------- MODULE FsDriversProofs --------------------------
(* Proofs about FsDrivers: types, what a listed mount is backed by, that   *)
(* the libraries hold what the mounts say, and that the mounts go together *)
(* as MountLifecycle says.                                                 *)
EXTENDS FsDrivers, FiniteSetTheorems, TLAPS

-----------------------------------------------------------------------------
(* lwext4's tables *)

ExtTables == [volumes: [Devices -> Nat], devs: SUBSET Devices,
              points: SUBSET Devices, journals: SUBSET Devices]

\* Each call on lwext4 changes one of its tables, and nothing else but the
\* journal of an unmounted point.
LEMMA VolumeMade ==
    ASSUME NEW x \in ExtTables, NEW d \in Devices
    PROVE  /\ WithVolume(x, d) \in ExtTables
           /\ WithVolume(x, d).volumes = [x.volumes EXCEPT ![d] = @ + 1]
           /\ WithVolume(x, d).devs = x.devs /\ WithVolume(x, d).points = x.points
           /\ WithVolume(x, d).journals = x.journals
    BY DEF ExtTables, WithVolume

LEMMA VolumeRemoved ==
    ASSUME NEW x \in ExtTables, NEW d \in Devices, x.volumes[d] > 0
    PROVE  /\ WithoutVolume(x, d) \in ExtTables
           /\ WithoutVolume(x, d).volumes = [x.volumes EXCEPT ![d] = @ - 1]
           /\ WithoutVolume(x, d).devs = x.devs /\ WithoutVolume(x, d).points = x.points
           /\ WithoutVolume(x, d).journals = x.journals
<1>1. x.volumes[d] \in Nat /\ x.volumes[d] - 1 \in Nat
    BY DEF ExtTables
<1> QED
    BY <1>1 DEF ExtTables, WithoutVolume

LEMMA DeviceMade ==
    ASSUME NEW x \in ExtTables, NEW d \in Devices
    PROVE  /\ WithDevice(x, d) \in ExtTables
           /\ WithDevice(x, d).devs = x.devs \cup {d}
           /\ WithDevice(x, d).volumes = x.volumes /\ WithDevice(x, d).points = x.points
           /\ WithDevice(x, d).journals = x.journals
    BY DEF ExtTables, WithDevice

LEMMA DeviceRemoved ==
    ASSUME NEW x \in ExtTables, NEW d \in Devices
    PROVE  /\ WithoutDevice(x, d) \in ExtTables
           /\ WithoutDevice(x, d).devs = x.devs \ {d}
           /\ WithoutDevice(x, d).volumes = x.volumes /\ WithoutDevice(x, d).points = x.points
           /\ WithoutDevice(x, d).journals = x.journals
    BY DEF ExtTables, WithoutDevice

LEMMA PointMade ==
    ASSUME NEW x \in ExtTables, NEW d \in Devices
    PROVE  /\ WithPoint(x, d) \in ExtTables
           /\ WithPoint(x, d).points = x.points \cup {d}
           /\ WithPoint(x, d).volumes = x.volumes /\ WithPoint(x, d).devs = x.devs
           /\ WithPoint(x, d).journals = x.journals
    BY DEF ExtTables, WithPoint

LEMMA PointRemoved ==
    ASSUME NEW x \in ExtTables, NEW d \in Devices
    PROVE  /\ WithoutPoint(x, d) \in ExtTables
           /\ WithoutPoint(x, d).points = x.points \ {d}
           /\ WithoutPoint(x, d).journals = x.journals \ {d}
           /\ WithoutPoint(x, d).volumes = x.volumes /\ WithoutPoint(x, d).devs = x.devs
    BY DEF ExtTables, WithoutPoint

LEMMA JournalChanged ==
    ASSUME NEW x \in ExtTables, NEW d \in Devices, NEW y,
           y = WithJournal(x, d) \/ y = WithoutJournal(x, d)
    PROVE  /\ y \in ExtTables
           /\ y.journals = x.journals \cup {d} \/ y.journals = x.journals \ {d}
           /\ y = WithJournal(x, d) => d \in y.journals
           /\ y.volumes = x.volumes /\ y.devs = x.devs /\ y.points = x.points
    BY DEF ExtTables, WithJournal, WithoutJournal

\* A mount that failed leaves the tables of volumes and devices as they were,
\* and of the points at most its own behind.
LEMMA FailedExt ==
    ASSUME ext \in ExtTables, NEW d \in Devices, d \notin ext.devs,
           NEW y \in FailedExtMounts(d)
    PROVE  /\ y \in ExtTables /\ y.volumes = ext.volumes /\ y.devs = ext.devs
           /\ y.points \subseteq ext.points \cup {d}
           /\ y.journals \subseteq ext.journals
<1> DEFINE volume == WithVolume(ext, d)
           device == WithDevice(volume, d)
           point == WithPoint(device, d)
<1>1. /\ volume \in ExtTables /\ volume.volumes = [ext.volumes EXCEPT ![d] = @ + 1]
      /\ volume.devs = ext.devs /\ volume.points = ext.points /\ volume.journals = ext.journals
    BY VolumeMade
<1>2. /\ device \in ExtTables /\ device.volumes = volume.volumes
      /\ device.devs = ext.devs \cup {d} /\ device.points = ext.points /\ device.journals = ext.journals
    BY <1>1, DeviceMade
<1>3. /\ point \in ExtTables /\ point.volumes = volume.volumes
      /\ point.devs = ext.devs \cup {d} /\ point.points = ext.points \cup {d}
      /\ point.journals = ext.journals
    BY <1>2, PointMade
<1>4. /\ WithoutPoint(point, d) \in ExtTables /\ WithoutPoint(point, d).volumes = volume.volumes
      /\ WithoutPoint(point, d).devs = ext.devs \cup {d}
      /\ WithoutPoint(point, d).points \subseteq ext.points \cup {d}
      /\ WithoutPoint(point, d).journals \subseteq ext.journals
    BY <1>3, PointRemoved
<1>5. ext.volumes \in [Devices -> Nat]
    BY DEF ExtTables
<1>6. volume.volumes[d] > 0 /\ [volume.volumes EXCEPT ![d] = @ - 1] = ext.volumes
    BY <1>1, <1>5
<1>7. ASSUME NEW z \in {device, point, WithoutPoint(point, d)}
      PROVE  /\ WithoutVolume(WithoutDevice(z, d), d) \in ExtTables
             /\ WithoutVolume(WithoutDevice(z, d), d).volumes = ext.volumes
             /\ WithoutVolume(WithoutDevice(z, d), d).devs = ext.devs
             /\ WithoutVolume(WithoutDevice(z, d), d).points \subseteq ext.points \cup {d}
             /\ WithoutVolume(WithoutDevice(z, d), d).journals \subseteq ext.journals
  <2> HIDE DEF volume, device, point
  <2>1. /\ z \in ExtTables /\ z.volumes = volume.volumes /\ z.devs = ext.devs \cup {d}
        /\ z.points \subseteq ext.points \cup {d} /\ z.journals \subseteq ext.journals
      BY <1>2, <1>3, <1>4, <1>7
  <2>2. /\ WithoutDevice(z, d) \in ExtTables /\ WithoutDevice(z, d).volumes = volume.volumes
        /\ WithoutDevice(z, d).devs = ext.devs
        /\ WithoutDevice(z, d).points = z.points /\ WithoutDevice(z, d).journals = z.journals
    <3>1. (ext.devs \cup {d}) \ {d} = ext.devs
        OBVIOUS
    <3>2. z \in ExtTables
        BY <2>1
    <3>3. /\ WithoutDevice(z, d) \in ExtTables /\ WithoutDevice(z, d).volumes = z.volumes
          /\ WithoutDevice(z, d).devs = z.devs \ {d}
          /\ WithoutDevice(z, d).points = z.points /\ WithoutDevice(z, d).journals = z.journals
        BY ONLY <3>2, d \in Devices, DeviceRemoved
    <3> QED
        BY <2>1, <3>1, <3>3
  <2> QED
      BY <2>1, <2>2, <1>6, VolumeRemoved
<1>8. /\ WithoutVolume(volume, d) \in ExtTables /\ WithoutVolume(volume, d).volumes = ext.volumes
      /\ WithoutVolume(volume, d).devs = ext.devs /\ WithoutVolume(volume, d).points = ext.points
      /\ WithoutVolume(volume, d).journals = ext.journals
    BY <1>1, <1>6, VolumeRemoved
<1>9. \/ y = ext \/ y = WithoutVolume(volume, d)
      \/ \E z \in {device, point, WithoutPoint(point, d)} : y = WithoutVolume(WithoutDevice(z, d), d)
    BY DEF FailedExtMounts
<1> HIDE DEF volume, device, point
<1> QED
    BY <1>7, <1>8, <1>9

\* A mount that got through is in every table.
LEMMA DoneExt ==
    ASSUME ext \in ExtTables, NEW d \in Devices, NEW y \in DoneExtMounts(d)
    PROVE  /\ y \in ExtTables /\ y.volumes = [ext.volumes EXCEPT ![d] = @ + 1]
           /\ y.devs = ext.devs \cup {d} /\ y.points = ext.points \cup {d}
           /\ ext.journals \subseteq y.journals
<1> DEFINE volume == WithVolume(ext, d)
           device == WithDevice(volume, d)
           point == WithPoint(device, d)
<1>1. /\ volume \in ExtTables /\ volume.volumes = [ext.volumes EXCEPT ![d] = @ + 1]
      /\ volume.devs = ext.devs /\ volume.points = ext.points /\ volume.journals = ext.journals
    BY VolumeMade
<1>2. /\ device \in ExtTables /\ device.volumes = volume.volumes
      /\ device.devs = ext.devs \cup {d} /\ device.points = ext.points /\ device.journals = ext.journals
    BY <1>1, DeviceMade
<1>3. /\ point \in ExtTables /\ point.volumes = volume.volumes
      /\ point.devs = ext.devs \cup {d} /\ point.points = ext.points \cup {d}
      /\ point.journals = ext.journals
    BY <1>2, PointMade
<1>4. y = point \/ y = WithJournal(point, d)
    BY DEF DoneExtMounts
<1> HIDE DEF volume, device, point
<1>5. WithJournal(point, d).journals = point.journals \cup {d}
    BY <1>3 DEF WithJournal, ExtTables
<1> QED
    BY <1>1, <1>3, <1>4, <1>5, JournalChanged

\* An unmount that got through leaves none of them.
LEMMA GoneExt ==
    ASSUME ext \in ExtTables, NEW d \in Devices, ext.volumes[d] > 0,
           NEW x \in {ext, WithoutJournal(ext, d)},
           NEW y, y = WithoutVolume(WithoutDevice(WithoutPoint(x, d), d), d)
    PROVE  /\ y \in ExtTables /\ y.volumes = [ext.volumes EXCEPT ![d] = @ - 1]
           /\ y.devs = ext.devs \ {d} /\ y.points = ext.points \ {d}
           /\ y.journals = ext.journals \ {d}
<1>1. /\ x \in ExtTables /\ x.volumes = ext.volumes /\ x.devs = ext.devs
      /\ x.points = ext.points
    BY JournalChanged
<1>2. x.journals \ {d} = ext.journals \ {d}
    BY DEF WithoutJournal, ExtTables
<1>3. /\ WithoutPoint(x, d) \in ExtTables /\ WithoutPoint(x, d).volumes = ext.volumes
      /\ WithoutPoint(x, d).devs = ext.devs /\ WithoutPoint(x, d).points = ext.points \ {d}
      /\ WithoutPoint(x, d).journals = ext.journals \ {d}
    BY <1>1, <1>2, PointRemoved
<1>4. /\ WithoutDevice(WithoutPoint(x, d), d) \in ExtTables
      /\ WithoutDevice(WithoutPoint(x, d), d).volumes = ext.volumes
      /\ WithoutDevice(WithoutPoint(x, d), d).devs = ext.devs \ {d}
      /\ WithoutDevice(WithoutPoint(x, d), d).points = ext.points \ {d}
      /\ WithoutDevice(WithoutPoint(x, d), d).journals = ext.journals \ {d}
    BY <1>3, DeviceRemoved
<1> QED
    BY <1>4, VolumeRemoved

-----------------------------------------------------------------------------
(* Type correctness *)

LEMMA TabType ==
    ASSUME TypeOK, op # "idle"
    PROVE  /\ tab \in Fstabs /\ tab \in Seq(Devices) /\ n \in DOMAIN tab
           /\ n \in 1..Len(tab) /\ Len(tab) \in Nat /\ Len(tab) <= ExtDevices
           /\ tab[n] \in Devices
           /\ \A i, j \in DOMAIN tab : tab[i] = tab[j] => i = j
<1>1. n \in DOMAIN tab /\ tab # <<>>
    BY DEF TypeOK
<1>2. tab \in Fstabs
    BY <1>1 DEF TypeOK
<1> QED
    BY <1>1, <1>2, DriversAssumption

\* Where lwext4 has the devices of the listed ext4 mounts, and one volume each,
\* a mount or unmount of another keeps it that way and all types.
LEMMA ExtMountType ==
    ASSUME TypeOK, NEW d \in Devices, NEW ok \in BOOLEAN, ExtMount(d, ok), d \notin ext.devs
    PROVE  ext' \in ExtTables /\ data' \in [Devices -> {"null", "live", "freed"}]
           /\ refused' \subseteq Devices
<1>1. ext \in ExtTables
    BY DEF TypeOK, ExtTables
<1>2. CASE ext' \in FailedExtMounts(d) /\ UNCHANGED <<data, refused>>
    BY <1>1, <1>2, FailedExt DEF TypeOK
<1>3. CASE /\ ext' \in DoneExtMounts(d) /\ data' = [data EXCEPT ![d] = "live"]
           /\ refused' = IF d \in ext'.journals THEN refused \ {d} ELSE refused \cup {d}
    BY <1>1, <1>3, DoneExt DEF TypeOK
<1> QED
    BY <1>2, <1>3 DEF ExtMount

LEMMA ExtUnmountType ==
    ASSUME TypeOK, NEW d \in Devices, NEW ok \in BOOLEAN, ExtUnmount(d, ok), ext.volumes[d] > 0
    PROVE  ext' \in ExtTables /\ data' \in [Devices -> {"null", "live", "freed"}]
<1>1. ext \in ExtTables
    BY DEF TypeOK, ExtTables
<1>2. PICK x \in {ext, WithoutJournal(ext, d)} :
          IF ok THEN /\ ext' = WithoutVolume(WithoutDevice(WithoutPoint(x, d), d), d)
                     /\ data' = [data EXCEPT ![d] = "freed"]
          ELSE ext' = x /\ UNCHANGED data
    BY DEF ExtUnmount
<1>3. x \in ExtTables
    BY <1>1, JournalChanged
<1>4. CASE ok
    BY <1>1, <1>2, <1>4, GoneExt DEF TypeOK
<1>5. CASE ~ok
    BY <1>2, <1>3, <1>5 DEF TypeOK
<1> QED
    BY <1>4, <1>5

LEMMA DriverMountType ==
    ASSUME TypeOK, NEW d \in Devices, NEW ok \in BOOLEAN, DriverMount(d, ok), d \notin ext.devs
    PROVE  /\ ext' \in ExtTables /\ data' \in [Devices -> {"null", "live", "freed"}]
           /\ refused' \subseteq Devices /\ drive' \in [Devices -> {"none", "live", "freed"}]
           /\ contexts' \in 0..MaxLfsMounts
           /\ fault' \in {"none", "null_data", "freed_drive", "freed_config"}
<1>1. CASE ExtMount(d, ok)
    BY <1>1, ExtMountType DEF TypeOK, ExtMount
<1>2. CASE FatMount(d, ok)
    BY <1>2 DEF TypeOK, FatMount, ExtTables
<1>3. CASE LfsMount(d, ok)
  <2>1. contexts' \in 0..MaxLfsMounts
      BY <1>3, DriversAssumption DEF TypeOK, LfsMount
  <2> QED
      BY <1>3, <2>1 DEF TypeOK, LfsMount, ExtTables
<1> QED
    BY <1>1, <1>2, <1>3 DEF DriverMount

LEMMA DriverUnmountType ==
    ASSUME TypeOK, NEW d \in Devices, NEW ok \in BOOLEAN, DriverUnmount(d, ok),
           type[d] = "ext4" => ext.volumes[d] > 0
    PROVE  /\ ext' \in ExtTables /\ data' \in [Devices -> {"null", "live", "freed"}]
           /\ drive' \in [Devices -> {"none", "live", "freed"}]
           /\ contexts' \in 0..MaxLfsMounts
           /\ fault' \in {"none", "null_data", "freed_drive", "freed_config"}
<1>1. CASE type[d] = "ext4" /\ ExtUnmount(d, ok)
    BY <1>1, ExtUnmountType DEF TypeOK, ExtUnmount
<1>2. CASE FatUnmount(d, ok)
    BY <1>2 DEF TypeOK, FatUnmount, ExtTables
<1>3. CASE LfsUnmount(d, ok)
    BY <1>3 DEF TypeOK, LfsUnmount, libs, ExtTables
<1> QED
    BY <1>1, <1>2, <1>3 DEF DriverUnmount

-----------------------------------------------------------------------------
(* The inductive invariant *)

\* The loop over the table lists its elements from the front and takes them
\* off from the front; lwext4 has no more devices than elements were mounted.
Phases ==
    /\ ~registered => tab = <<>>
    /\ op # "idle" => registered
    /\ op = "mount" => \A d \in listed : \E i \in 1..n - 1 : tab[i] = d
    /\ op = "unmount" => \A d \in listed : \E i \in n..Len(tab) : tab[i] = d
    /\ tab # <<>> => \A d \in listed : \E i \in 1..Len(tab) : tab[i] = d
    /\ IsFiniteSet(ext.devs)
    /\ op = "mount" => Cardinality(ext.devs) <= n - 1

IInv == TypeOK /\ Phases /\ MountsBacked /\ LibrariesBalanced

\* The element about to be mounted is not yet anywhere.
LEMMA NextToMount ==
    ASSUME IInv, op = "mount"
    PROVE  /\ tab[n] \in Devices /\ tab[n] \notin ext.devs /\ tab[n] \notin listed
           /\ registered /\ tab # <<>> /\ n \in 1..Len(tab) /\ Len(tab) \in Nat
           /\ ext.devs = Of("ext4") /\ ext.points = Of("ext4")
           /\ \A d \in Devices : drive[d] # "none" <=> d \in Of("vfat")
<1>1. /\ tab[n] \in Devices /\ n \in 1..Len(tab) /\ Len(tab) \in Nat
      /\ n \in DOMAIN tab /\ tab \in Seq(Devices)
      /\ \A i, j \in DOMAIN tab : tab[i] = tab[j] => i = j
    BY TabType DEF IInv
<1>2. registered /\ tab # <<>>
    BY <1>1 DEF IInv, Phases
<1>3. tab[n] \notin listed
  <2> SUFFICES ASSUME tab[n] \in listed PROVE FALSE
      OBVIOUS
  <2>1. PICK i \in 1..n - 1 : tab[i] = tab[n]
      BY DEF IInv, Phases
  <2> QED
      BY <1>1, <2>1
<1> QED
    BY <1>1, <1>2, <1>3 DEF IInv, LibrariesBalanced, Lost

LEMMA InitIInv == Init => IInv
<1> SUFFICES ASSUME Init PROVE IInv
    OBVIOUS
<1> USE DEF Init
<1>1. TypeOK
  <2>1. Nothing \in [volumes: [Devices -> Nat], devs: SUBSET Devices,
                    points: SUBSET Devices, journals: SUBSET Devices]
      BY DEF Nothing
  <2>2. 0 \in 0..MaxLfsMounts /\ [d \in Devices |-> 0] \in [Devices -> 0..MaxConversions]
      BY DriversAssumption
  <2> QED
      BY <2>1, <2>2 DEF TypeOK
<1>2. IsFiniteSet(ext.devs)
    BY FS_EmptySet DEF Nothing
<1>3. Phases /\ MountsBacked
    BY <1>2 DEF Phases, MountsBacked
<1>4. LibrariesBalanced
    BY DEF LibrariesBalanced, Lost, Of, Nothing
<1> QED
    BY <1>1, <1>3, <1>4 DEF IInv

LEMMA MountInitIInv == ASSUME IInv, NEW t \in Fstabs, MountInit(t) PROVE IInv'
<1> USE DEF IInv
<1>1. /\ listed = {} /\ tab = <<>> /\ ext' = ext /\ drive' = drive /\ listed' = listed
      /\ type' = type /\ left' = left /\ registered' /\ op = "idle"
    BY DEF MountInit, Idle, libs, history, Phases, LibrariesBalanced
<1>2. /\ t \in Seq(Devices) /\ t # <<>> /\ Len(t) \in Nat /\ 1 \in DOMAIN t
    BY DriversAssumption
<1>3. TypeOK'
    BY <1>1, <1>2 DEF MountInit, Idle, libs, history, TypeOK
<1>4. ext.devs = {} /\ ext.points = {} /\ Cardinality(ext.devs) = 0
    BY <1>1, FS_EmptySet DEF MountInit, LibrariesBalanced, Lost, Of
<1>5. \A d \in Devices : drive[d] = "none"
    BY <1>1 DEF MountInit, LibrariesBalanced, Lost, Of
<1>6. Phases'
    BY <1>1, <1>4 DEF MountInit, Phases
<1>7. MountsBacked'
    BY <1>1 DEF MountsBacked
<1>8. LibrariesBalanced'
  <2>1. Of("ext4")' = {} /\ Of("vfat")' = {}
      BY <1>1 DEF Of
  <2>2. op' = "mount" => Cardinality(ext'.devs) < ExtDevices
    <3>1. op' = "mount" => Len(t) > 0 /\ Len(t) <= ExtDevices
        BY <1>2, DriversAssumption
    <3> QED
        BY <1>1, <1>4, <3>1, DriversAssumption
  <2> QED
      BY <1>1, <1>4, <1>5, <2>1, <2>2 DEF LibrariesBalanced
<1> QED
    BY <1>3, <1>6, <1>7, <1>8

\* Leaving a loop without touching anything.
LEMMA ReturnIInv ==
    ASSUME IInv, op # "idle", Return,
           UNCHANGED <<type, registered, tab, listed, data, libs, history, fault>>
    PROVE  IInv'
<1> USE DEF IInv, Return, libs, history
<1>1. TypeOK'
    BY DEF TypeOK
<1>2. Phases'
    BY DEF Phases
<1>3. MountsBacked'
    BY DEF MountsBacked, InExt4
<1>4. LibrariesBalanced'
    BY DEF LibrariesBalanced, Lost, Of
<1> QED
    BY <1>1, <1>2, <1>3, <1>4

LEMMA UnmountDeinitIInv == ASSUME IInv, UnmountDeinit PROVE IInv'
<1> USE DEF IInv, UnmountDeinit, Idle, libs, history
<1>1. tab \in Seq(Devices) /\ Len(tab) \in Nat /\ 1 \in DOMAIN tab
    BY DriversAssumption DEF TypeOK
<1>2. TypeOK'
    BY <1>1 DEF TypeOK
<1>3. Phases'
    BY DEF Phases
<1>4. MountsBacked'
    BY DEF MountsBacked, InExt4
<1>5. LibrariesBalanced'
    BY DEF LibrariesBalanced, Lost, Of
<1> QED
    BY <1>2, <1>3, <1>4, <1>5

LEMMA UseIInv == ASSUME IInv, NEW d \in Devices, Use(d) PROVE IInv'
<1> USE DEF IInv, Use, Idle, vfs, libs, history
<1>1. TypeOK'
    BY DEF TypeOK
<1>2. Phases'
    BY DEF Phases
<1>3. MountsBacked'
    BY DEF MountsBacked, InExt4
<1>4. LibrariesBalanced'
    BY DEF LibrariesBalanced, Lost, Of
<1> QED
    BY <1>1, <1>2, <1>3, <1>4

LEMMA ConvertIInv == ASSUME IInv, NEW d \in Devices, Convert(d) PROVE IInv'
<1>1. /\ listed = {} /\ listed' = {} /\ tab = <<>> /\ tab' = <<>> /\ op = "idle" /\ op' = op /\ n' = n
      /\ registered' = registered /\ ~registered /\ drive' = drive
      /\ data' = data /\ contexts' = contexts /\ tried' = tried /\ refused' = refused /\ fault' = fault
    BY DEF IInv, Convert, Idle, vfs, Phases, LibrariesBalanced
<1>2. /\ type' \in [Devices -> Types] /\ left' \in [Devices -> 0..MaxConversions]
      /\ ext' \in ExtTables /\ ext'.devs = ext.devs /\ ext'.points = ext.points
      /\ \A e \in Devices : ext'.volumes[e] - left'[e] = ext.volumes[e] - left[e]
  <2>1. ext \in ExtTables /\ type \in [Devices -> Types] /\ left \in [Devices -> 0..MaxConversions]
        /\ ext.volumes \in [Devices -> Nat]
      BY DEF IInv, TypeOK, ExtTables
  <2>2. "ext4" \in Types
      BY DEF Types
  <2>3. CASE UNCHANGED <<ext, left>>
      BY <2>1, <2>2, <2>3 DEF Convert
  <2>4. CASE /\ type' \in {type, [type EXCEPT ![d] = "ext4"]}
             /\ ext' = WithVolume(ext, d)
             /\ left' = [left EXCEPT ![d] = @ + 1]
    <3>1. left[d] < MaxConversions
        BY DEF Convert
    <3>2. left' \in [Devices -> 0..MaxConversions]
        BY <2>1, <2>4, <3>1, DriversAssumption
    <3>3. /\ ext' \in ExtTables /\ ext'.volumes = [ext.volumes EXCEPT ![d] = @ + 1]
          /\ ext'.devs = ext.devs /\ ext'.points = ext.points
        BY <2>1, <2>4, VolumeMade
    <3> QED
        BY <2>1, <2>2, <2>4, <3>2, <3>3
  <2> QED
      BY <2>3, <2>4 DEF Convert
<1>3. TypeOK'
    BY <1>1, <1>2 DEF IInv, TypeOK, ExtTables
<1>4. Phases'
    BY <1>1, <1>2 DEF IInv, Phases
<1>5. MountsBacked'
    BY <1>1 DEF MountsBacked
<1>6. LibrariesBalanced'
  <2>1. Of("ext4") = {} /\ Of("vfat") = {} /\ Of("ext4")' = {} /\ Of("vfat")' = {}
      BY <1>1 DEF Of
  <2>2. \A e \in Devices : ext'.volumes[e] = left'[e] + (IF e \in ext'.devs THEN 1 ELSE 0)
    <3>1. \A e \in Devices : ext.volumes[e] = left[e] + (IF e \in ext.devs THEN 1 ELSE 0)
        BY DEF IInv, LibrariesBalanced
    <3>2. \A e \in Devices : ext.volumes[e] \in Int /\ ext'.volumes[e] \in Int
                             /\ left[e] \in Int /\ left'[e] \in Int
        BY <1>2 DEF IInv, TypeOK, ExtTables
    <3> QED
        BY <1>2, <3>1, <3>2
  <2> QED
      BY <1>1, <1>2, <2>1, <2>2 DEF IInv, LibrariesBalanced, Lost
<1> QED
    BY <1>3, <1>4, <1>5, <1>6 DEF IInv

\* A driver's mount that failed: at most its device is in lwext4 now, with
\* its volume.
LEMMA FailedMountEffect ==
    ASSUME IInv, op = "mount", NEW d \in Devices, d = tab[n], DriverMount(d, FALSE)
    PROVE  /\ ext'.devs = ext.devs \/ ext'.devs = ext.devs \cup {d}
           /\ \A e \in Devices : ext'.volumes[e] =
                  left[e] + (IF e \in ext'.devs THEN 1 ELSE 0)
<1>1. d \notin ext.devs /\ ext \in ExtTables /\ ext.volumes \in [Devices -> Nat]
    BY NextToMount DEF IInv, TypeOK, ExtTables
<1>2. \A e \in Devices : ext.volumes[e] = left[e] + (IF e \in ext.devs THEN 1 ELSE 0)
    BY DEF IInv, LibrariesBalanced
<1>3. \A e \in Devices : left[e] \in Nat
    BY DriversAssumption DEF IInv, TypeOK
<1>4. CASE ext' = ext
    BY <1>2, <1>4
<1>5. CASE ext' \in FailedExtMounts(d)
    BY <1>1, <1>2, <1>5, FailedExt
<1>6. CASE ext' \in DoneExtMounts(d)
  <2>1. ext'.volumes = [ext.volumes EXCEPT ![d] = @ + 1] /\ ext'.devs = ext.devs \cup {d}
      BY <1>1, <1>6, DoneExt
  <2> SUFFICES ASSUME NEW e \in Devices
               PROVE  ext'.volumes[e] = left[e] + (IF e \in ext'.devs THEN 1 ELSE 0)
      BY <2>1
  <2>2. left[e] \in Nat /\ ext.volumes[e] = left[e] + (IF e \in ext.devs THEN 1 ELSE 0)
      BY <1>2, <1>3
  <2>3. CASE e = d
    <3>1. ext'.volumes[e] = ext.volumes[e] + 1
        BY <1>1, <2>1, <2>3
    <3> QED
        BY <1>1, <2>1, <2>2, <2>3, <3>1
  <2>4. CASE e # d
    <3>1. ext'.volumes[e] = ext.volumes[e]
        BY <1>1, <2>1, <2>4
    <3> QED
        BY <1>1, <2>1, <2>2, <2>4, <3>1
  <2> QED
      BY <2>3, <2>4
<1> QED
  <2>1. \/ ExtMount(d, FALSE) \/ FatMount(d, FALSE) \/ LfsMount(d, FALSE)
      BY DEF DriverMount
  <2>2. ext' = ext \/ ext' \in FailedExtMounts(d) \/ ext' \in DoneExtMounts(d)
    <3>1. CASE ExtMount(d, FALSE)
        BY <3>1 DEF ExtMount
    <3>2. CASE FatMount(d, FALSE)
        BY <3>2 DEF FatMount
    <3>3. CASE LfsMount(d, FALSE)
        BY <3>3 DEF LfsMount
    <3> QED
        BY <2>1, <3>1, <3>2, <3>3
  <2> QED
      BY <1>4, <1>5, <1>6, <2>2

\* A driver's mount that worked.
LEMMA DoneMountEffect ==
    ASSUME IInv, op = "mount", NEW d \in Devices, d = tab[n], DriverMount(d, TRUE)
    PROVE  /\ data' = [data EXCEPT ![d] = "live"]
           /\ type[d] = "ext4" =>
                  /\ ext'.devs = ext.devs \cup {d} /\ ext'.points = ext.points \cup {d}
                  /\ ext'.volumes = [ext.volumes EXCEPT ![d] = @ + 1]
                  /\ d \in ext'.journals \cup refused'
                  /\ ext.journals \cup refused \subseteq ext'.journals \cup refused'
                  /\ drive' = drive /\ Cardinality(ext.devs) < ExtDevices
           /\ type[d] = "vfat" => /\ ext' = ext /\ refused' = refused
                                  /\ drive' = [drive EXCEPT ![d] = "live"]
           /\ type[d] = "littlefs" => ext' = ext /\ refused' = refused /\ drive' = drive
<1>1. ext \in ExtTables
    BY DEF IInv, TypeOK, ExtTables
<1>2. CASE type[d] = "ext4" /\ ExtMount(d, TRUE)
  <2>1. /\ ext' \in DoneExtMounts(d) /\ data' = [data EXCEPT ![d] = "live"] /\ drive' = drive
        /\ refused' = IF d \in ext'.journals THEN refused \ {d} ELSE refused \cup {d}
        /\ Cardinality(ext.devs) < ExtDevices
      BY <1>2 DEF ExtMount
  <2>2. /\ ext'.devs = ext.devs \cup {d} /\ ext'.points = ext.points \cup {d}
        /\ ext'.volumes = [ext.volumes EXCEPT ![d] = @ + 1] /\ ext.journals \subseteq ext'.journals
      BY <1>1, <2>1, DoneExt
  <2> QED
      BY <1>2, <2>1, <2>2
<1>3. CASE type[d] = "vfat" /\ FatMount(d, TRUE)
    BY <1>3 DEF FatMount
<1>4. CASE type[d] = "littlefs" /\ LfsMount(d, TRUE)
    BY <1>4 DEF LfsMount
<1> QED
    BY <1>2, <1>3, <1>4 DEF DriverMount

LEMMA MountFailedIInv == ASSUME IInv, op = "mount", MountFailed PROVE IInv'
<1> DEFINE d == tab[n]
<1>1. /\ d \in Devices /\ d \notin ext.devs /\ registered /\ ext.devs = Of("ext4")
      /\ DriverMount(d, FALSE) /\ tab' = <<>> /\ op' = "idle" /\ n' = 0
      /\ type' = type /\ registered' = registered /\ listed' = listed
      /\ tried' = tried /\ left' = left
    BY NextToMount DEF MountFailed, Return
<1>2. /\ ext'.devs = ext.devs \/ ext'.devs = ext.devs \cup {d}
      /\ \A e \in Devices : ext'.volumes[e] = left[e] + (IF e \in ext'.devs THEN 1 ELSE 0)
    BY <1>1, FailedMountEffect
<1> HIDE DEF d
<1>3. TypeOK'
    BY <1>1, DriverMountType DEF IInv, TypeOK, ExtTables
<1>4. Phases'
  <2>1. IsFiniteSet(ext'.devs)
      BY <1>2, FS_AddElement DEF IInv, Phases
  <2> QED
      BY <1>1, <2>1 DEF Phases
<1>5. MountsBacked'
    BY <1>1 DEF MountsBacked
<1>6. LibrariesBalanced'
  <2>1. Of("ext4")' = Of("ext4") /\ Of("ext4") \subseteq listed
      BY <1>1 DEF Of
  <2> QED
      BY <1>1, <1>2, <2>1 DEF LibrariesBalanced, Lost
<1> QED
    BY <1>3, <1>4, <1>5, <1>6 DEF IInv

LEMMA MountedIInv == ASSUME IInv, op = "mount", Mounted PROVE IInv'
<1> DEFINE d == tab[n]
<1>1. /\ d \in Devices /\ d \notin ext.devs /\ d \notin listed /\ registered /\ tab # <<>>
      /\ n \in 1..Len(tab) /\ Len(tab) \in Nat /\ ext.devs = Of("ext4") /\ ext.points = Of("ext4")
      /\ \A e \in Devices : drive[e] # "none" <=> e \in Of("vfat")
    BY NextToMount
<1>2. /\ DriverMount(d, TRUE) /\ listed' = listed \cup {d} /\ tab' = tab
      /\ type' = type /\ registered' = registered /\ tried' = tried /\ left' = left
    BY DEF Mounted
<1>3. \/ n = Len(tab) /\ op' = "idle" /\ n' = 0
      \/ n # Len(tab) /\ op' = op /\ n' = n + 1
    BY DEF Mounted, Return
<1>4. tab \in Seq(Devices) /\ Len(tab) <= ExtDevices /\ \A i, j \in DOMAIN tab : tab[i] = tab[j] => i = j
    BY TabType DEF IInv
<1>5. /\ data' = [data EXCEPT ![d] = "live"]
      /\ type[d] = "ext4" =>
             /\ ext'.devs = ext.devs \cup {d} /\ ext'.points = ext.points \cup {d}
             /\ ext'.volumes = [ext.volumes EXCEPT ![d] = @ + 1]
             /\ d \in ext'.journals \cup refused'
             /\ ext.journals \cup refused \subseteq ext'.journals \cup refused'
             /\ drive' = drive /\ Cardinality(ext.devs) < ExtDevices
      /\ type[d] = "vfat" => /\ ext' = ext /\ refused' = refused
                             /\ drive' = [drive EXCEPT ![d] = "live"]
      /\ type[d] = "littlefs" => ext' = ext /\ refused' = refused /\ drive' = drive
    BY <1>1, <1>2, DoneMountEffect
<1> HIDE DEF d
<1>6. /\ type \in [Devices -> Types] /\ listed \subseteq Devices /\ n \in Nat
      /\ data \in [Devices -> {"null", "live", "freed"}] /\ drive \in [Devices -> {"none", "live", "freed"}]
      /\ ext.volumes \in [Devices -> Nat] /\ left \in [Devices -> 0..MaxConversions]
    BY DEF IInv, TypeOK
<1>7. type[d] \in {"ext4", "vfat", "littlefs"}
    BY <1>1, <1>6 DEF Types
<1>8. TypeOK'
  <2>1. n' \in Nat /\ (op' # "idle" => n' \in DOMAIN tab')
      BY <1>1, <1>2, <1>3, <1>4, <1>6
  <2>2. op' \in {"idle", "mount", "unmount"}
      BY <1>3
  <2>3. /\ ext' \in ExtTables /\ data' \in [Devices -> {"null", "live", "freed"}]
        /\ refused' \subseteq Devices /\ drive' \in [Devices -> {"none", "live", "freed"}]
        /\ contexts' \in 0..MaxLfsMounts
        /\ fault' \in {"none", "null_data", "freed_drive", "freed_config"}
      BY <1>1, <1>2, DriverMountType DEF IInv
  <2>4. /\ type \in [Devices -> Types] /\ registered \in BOOLEAN /\ tab \in Fstabs \cup {<<>>}
        /\ listed \subseteq Devices /\ tried \subseteq Devices /\ left \in [Devices -> 0..MaxConversions]
      BY DEF IInv, TypeOK
  <2> QED
      BY <1>1, <1>2, <2>1, <2>2, <2>3, <2>4 DEF TypeOK, ExtTables
<1>9. ext'.devs = ext.devs \/ ext'.devs = ext.devs \cup {d}
    BY <1>5, <1>7
<1>10. IsFiniteSet(ext'.devs) /\ Cardinality(ext'.devs) <= Cardinality(ext.devs) + 1
       /\ Cardinality(ext.devs) \in Nat /\ Cardinality(ext'.devs) \in Nat /\ Cardinality(ext.devs) <= n - 1
  <2>1. IsFiniteSet(ext.devs)
      BY DEF IInv, Phases
  <2>2. op = "mount" => Cardinality(ext.devs) <= n - 1
      BY DEF IInv, Phases
  <2>3. Cardinality(ext.devs) \in Nat
      BY <2>1, FS_CardinalityType
  <2>4. CASE ext'.devs = ext.devs
      BY <2>1, <2>2, <2>3, <2>4
  <2>5. CASE ext'.devs = ext.devs \cup {d}
    <3>1. /\ IsFiniteSet(ext.devs \cup {d})
          /\ \/ Cardinality(ext.devs \cup {d}) = Cardinality(ext.devs)
             \/ Cardinality(ext.devs \cup {d}) = Cardinality(ext.devs) + 1
        BY <2>1, FS_AddElement
    <3> QED
        BY <2>2, <2>3, <2>5, <3>1
  <2> QED
      BY <1>9, <2>4, <2>5
<1>11. Phases'
  <2>1. \A e \in listed' : \E i \in 1..n : tab[i] = e
      BY <1>1, <1>2 DEF IInv, Phases, d
  <2>2. op' = "mount" => (\A e \in listed' : \E i \in 1..n' - 1 : tab'[i] = e) /\ Cardinality(ext'.devs) <= n' - 1
    <3> SUFFICES ASSUME op' = "mount"
                 PROVE  (\A e \in listed' : \E i \in 1..n' - 1 : tab'[i] = e) /\ Cardinality(ext'.devs) <= n' - 1
        OBVIOUS
    <3>1. n' = n + 1 /\ n' - 1 = n /\ n \in Int
        BY <1>3, <1>6
    <3>2. Cardinality(ext'.devs) <= n' - 1
        BY <1>10, <3>1
    <3> QED
        BY <1>2, <2>1, <3>1, <3>2
  <2>3. \A e \in listed' : \E i \in 1..Len(tab') : tab'[i] = e
      BY <1>1, <1>2, <2>1
  <2> QED
      BY <1>1, <1>2, <1>3, <1>10, <2>2, <2>3 DEF Phases
<1>12. MountsBacked'
  <2> SUFFICES ASSUME NEW e \in listed'
               PROVE  /\ type[e] = "ext4" => /\ data'[e] = "live" /\ InExt4(e)'
                                             /\ e \in ext'.journals \cup refused' \cup tried
                      /\ type[e] # "ext4" /\ data'[e] # "live" => e \in tried
                      /\ type[e] = "vfat" /\ drive'[e] # "live" => e \in tried
      BY <1>2 DEF MountsBacked
  <2>1. CASE e = d
    <3>1. CASE type[d] = "ext4"
      <4>1. ext'.volumes[d] > 0
          BY <1>1, <1>5, <1>6, <3>1
      <4> QED
          BY <1>1, <1>5, <1>6, <2>1, <3>1, <4>1 DEF InExt4
    <3>2. CASE type[d] # "ext4"
        BY <1>1, <1>5, <1>6, <1>7, <2>1, <3>2
    <3> QED
        BY <3>1, <3>2
  <2>2. CASE e # d
    <3>1. e \in listed /\ e \in Devices
        BY <1>2, <1>6, <2>2
    <3>2. /\ type[e] = "ext4" => data[e] = "live" /\ InExt4(e) /\ e \in ext.journals \cup refused \cup tried
          /\ type[e] # "ext4" /\ data[e] # "live" => e \in tried
          /\ type[e] = "vfat" /\ drive[e] # "live" => e \in tried
        BY <1>1, <3>1 DEF IInv, MountsBacked
    <3>3. data'[e] = data[e] /\ drive'[e] = drive[e]
        BY <1>1, <1>5, <1>6, <1>7, <2>2, <3>1
    <3>4. InExt4(e) => InExt4(e)'
        BY <1>1, <1>5, <1>6, <1>7, <2>2, <3>1 DEF InExt4
    <3>5. ext.journals \cup refused \subseteq ext'.journals \cup refused'
        BY <1>5, <1>7
    <3> QED
        BY <3>2, <3>3, <3>4, <3>5
  <2> QED
      BY <2>1, <2>2
<1>13. LibrariesBalanced'
  <2>1. /\ Of("ext4")' = IF type[d] = "ext4" THEN Of("ext4") \cup {d} ELSE Of("ext4")
        /\ Of("vfat")' = IF type[d] = "vfat" THEN Of("vfat") \cup {d} ELSE Of("vfat")
      BY <1>2 DEF Of
  <2>2. ext'.devs = Of("ext4")' /\ ext'.points = Of("ext4")'
      BY <1>1, <1>5, <1>7, <2>1
  <2>3. \A e \in Devices : drive'[e] # "none" <=> e \in Of("vfat")'
    <3>1. CASE type[d] = "vfat"
        BY <1>1, <1>5, <1>6, <2>1, <3>1
    <3>2. CASE type[d] # "vfat"
        BY <1>1, <1>5, <1>7, <2>1, <3>2
    <3> QED
        BY <3>1, <3>2
  <2>4. \A e \in Devices : ext'.volumes[e] = left[e] + (IF e \in ext'.devs THEN 1 ELSE 0)
    <3>1. \A e \in Devices : ext.volumes[e] = left[e] + (IF e \in ext.devs THEN 1 ELSE 0)
        BY DEF IInv, LibrariesBalanced
    <3>2. \A e \in Devices : left[e] \in Nat
        BY <1>6, DriversAssumption
    <3>3. CASE type[d] = "ext4"
        BY <1>1, <1>5, <1>6, <3>1, <3>2, <3>3
    <3>4. CASE type[d] # "ext4"
        BY <1>5, <1>7, <3>1, <3>4
    <3> QED
        BY <3>3, <3>4
  <2>5. op' = "mount" => tab'[n'] \notin ext'.devs /\ Cardinality(ext'.devs) < ExtDevices
    <3> SUFFICES ASSUME op' = "mount" PROVE tab[n'] \notin ext'.devs /\ Cardinality(ext'.devs) < ExtDevices
        BY <1>2
    <3>1. n' = n + 1 /\ n < Len(tab) /\ n' \in 1..Len(tab)
        BY <1>1, <1>3, <1>6
    <3>2. \A e \in listed' : \E i \in 1..n : tab[i] = e
        BY <1>1, <1>2 DEF IInv, Phases, d
    <3>3. ext'.devs \subseteq listed'
        BY <2>2 DEF Of
    <3>4. tab[n'] \notin ext'.devs
      <4> SUFFICES ASSUME tab[n'] \in ext'.devs PROVE FALSE
          OBVIOUS
      <4>1. PICK i \in 1..n : tab[i] = tab[n']
          BY <3>2, <3>3
      <4> QED
          BY <1>1, <1>4, <3>1, <4>1
    <3>5. Cardinality(ext'.devs) < ExtDevices
        BY <1>1, <1>4, <1>6, <1>10, <3>1, DriversAssumption
    <3> QED
        BY <3>4, <3>5
  <2> QED
      BY <1>1, <1>2, <2>2, <2>3, <2>4, <2>5 DEF LibrariesBalanced, Lost
<1> QED
    BY <1>8, <1>11, <1>12, <1>13 DEF IInv

\* The element about to be unmounted is where its mount says.
LEMMA NextToUnmount ==
    ASSUME IInv, op = "unmount", tab[n] \in listed
    PROVE  /\ tab[n] \in Devices /\ registered /\ tab # <<>>
           /\ n \in 1..Len(tab) /\ Len(tab) \in Nat /\ tab \in Seq(Devices)
           /\ \A i, j \in DOMAIN tab : tab[i] = tab[j] => i = j
           /\ ext.devs = Of("ext4") /\ ext.points = Of("ext4")
           /\ \A d \in Devices : drive[d] # "none" <=> d \in Of("vfat")
           /\ type[tab[n]] = "ext4" => ext.volumes[tab[n]] > 0
<1>1. /\ tab[n] \in Devices /\ n \in 1..Len(tab) /\ Len(tab) \in Nat
      /\ n \in DOMAIN tab /\ tab \in Seq(Devices)
      /\ \A i, j \in DOMAIN tab : tab[i] = tab[j] => i = j
    BY TabType DEF IInv
<1>2. registered /\ tab # <<>>
    BY <1>1 DEF IInv, Phases
<1>3. type[tab[n]] = "ext4" => ext.volumes[tab[n]] > 0
    BY <1>2 DEF IInv, MountsBacked, InExt4
<1> QED
    BY <1>1, <1>2, <1>3 DEF IInv, LibrariesBalanced, Lost

\* A driver's unmount that failed takes at most its own journal or data.
LEMMA FailedUnmountEffect ==
    ASSUME IInv, NEW d \in Devices, DriverUnmount(d, FALSE)
    PROVE  /\ ext'.devs = ext.devs /\ ext'.points = ext.points /\ ext'.volumes = ext.volumes
           /\ \A e \in Devices \ {d} : /\ data'[e] = data[e] /\ drive'[e] = drive[e]
                                       /\ e \in ext.journals => e \in ext'.journals
           /\ type[d] = "ext4" => data' = data /\ drive' = drive
           /\ type[d] = "littlefs" => drive' = drive
           /\ type[d] = "vfat" => drive'[d] = "freed"
<1>1. ext \in ExtTables /\ data \in [Devices -> {"null", "live", "freed"}]
      /\ drive \in [Devices -> {"none", "live", "freed"}]
    BY DEF IInv, TypeOK, ExtTables
<1>2. CASE type[d] = "ext4" /\ ExtUnmount(d, FALSE)
  <2>1. ext' \in {ext, WithoutJournal(ext, d)} /\ data' = data /\ drive' = drive
      BY <1>2 DEF ExtUnmount
  <2>2. ext'.devs = ext.devs /\ ext'.points = ext.points /\ ext'.volumes = ext.volumes
      BY <1>1, <2>1, JournalChanged
  <2>3. WithoutJournal(ext, d).journals = ext.journals \ {d}
      BY <1>1 DEF WithoutJournal, ExtTables
  <2> QED
      BY <1>2, <2>1, <2>2, <2>3
<1>3. CASE type[d] = "vfat" /\ FatUnmount(d, FALSE)
    BY <1>1, <1>3 DEF FatUnmount
<1>4. CASE type[d] = "littlefs" /\ LfsUnmount(d, FALSE)
    BY <1>1, <1>4 DEF LfsUnmount, libs
<1> QED
    BY <1>2, <1>3, <1>4 DEF DriverUnmount

\* A driver's unmount that worked.
LEMMA DoneUnmountEffect ==
    ASSUME IInv, NEW d \in Devices, DriverUnmount(d, TRUE),
           type[d] = "ext4" => ext.volumes[d] > 0
    PROVE  /\ \A e \in Devices \ {d} : data'[e] = data[e]
           /\ type[d] = "ext4" =>
                  /\ ext'.devs = ext.devs \ {d} /\ ext'.points = ext.points \ {d}
                  /\ ext'.volumes = [ext.volumes EXCEPT ![d] = @ - 1]
                  /\ ext'.journals = ext.journals \ {d} /\ drive' = drive
           /\ type[d] = "vfat" => ext' = ext /\ drive' = [drive EXCEPT ![d] = "none"]
           /\ type[d] = "littlefs" => ext' = ext /\ drive' = drive
<1>1. ext \in ExtTables /\ data \in [Devices -> {"null", "live", "freed"}]
    BY DEF IInv, TypeOK, ExtTables
<1>2. CASE type[d] = "ext4" /\ ExtUnmount(d, TRUE)
  <2>1. PICK x \in {ext, WithoutJournal(ext, d)} :
            /\ ext' = WithoutVolume(WithoutDevice(WithoutPoint(x, d), d), d)
            /\ data' = [data EXCEPT ![d] = "freed"]
      BY <1>2 DEF ExtUnmount
  <2>2. /\ ext'.devs = ext.devs \ {d} /\ ext'.points = ext.points \ {d}
        /\ ext'.volumes = [ext.volumes EXCEPT ![d] = @ - 1] /\ ext'.journals = ext.journals \ {d}
      BY <1>1, <1>2, <2>1, GoneExt
  <2> QED
      BY <1>1, <1>2, <2>1, <2>2 DEF ExtUnmount
<1>3. CASE type[d] = "vfat" /\ FatUnmount(d, TRUE)
    BY <1>1, <1>3 DEF FatUnmount
<1>4. CASE type[d] = "littlefs" /\ LfsUnmount(d, TRUE)
    BY <1>1, <1>4 DEF LfsUnmount, libs
<1> QED
    BY <1>2, <1>3, <1>4 DEF DriverUnmount

LEMMA UnmountFailedIInv == ASSUME IInv, op = "unmount", UnmountFailed PROVE IInv'
<1> DEFINE d == tab[n]
<1>1. /\ d \in Devices /\ d \in listed /\ registered /\ tab # <<>>
      /\ ext.devs = Of("ext4") /\ ext.points = Of("ext4")
      /\ \A e \in Devices : drive[e] # "none" <=> e \in Of("vfat")
      /\ type[d] = "ext4" => ext.volumes[d] > 0
      /\ DriverUnmount(d, FALSE) /\ op' = "idle" /\ n' = 0 /\ tried' = tried \cup {d}
      /\ type' = type /\ registered' = registered /\ tab' = tab /\ listed' = listed
      /\ refused' = refused /\ left' = left
    BY NextToUnmount DEF UnmountFailed, Return
<1>2. /\ ext'.devs = ext.devs /\ ext'.points = ext.points /\ ext'.volumes = ext.volumes
      /\ \A e \in Devices \ {d} : /\ data'[e] = data[e] /\ drive'[e] = drive[e]
                                  /\ e \in ext.journals => e \in ext'.journals
      /\ type[d] = "ext4" => data' = data /\ drive' = drive
      /\ type[d] = "littlefs" => drive' = drive
      /\ type[d] = "vfat" => drive'[d] = "freed"
    BY <1>1, FailedUnmountEffect
<1> HIDE DEF d
<1>3. type[d] \in {"ext4", "vfat", "littlefs"}
    BY <1>1 DEF IInv, TypeOK, Types
<1>4. TypeOK'
    BY <1>1, DriverUnmountType DEF IInv, TypeOK, ExtTables
<1>5. Phases'
    BY <1>1, <1>2 DEF IInv, Phases
<1>6. MountsBacked'
  <2> SUFFICES ASSUME NEW e \in listed
               PROVE  /\ type[e] = "ext4" => /\ data'[e] = "live" /\ InExt4(e)'
                                             /\ e \in ext'.journals \cup refused \cup tried'
                      /\ type[e] # "ext4" /\ data'[e] # "live" => e \in tried'
                      /\ type[e] = "vfat" /\ drive'[e] # "live" => e \in tried'
      BY <1>1 DEF MountsBacked
  <2>1. /\ type[e] = "ext4" => data[e] = "live" /\ InExt4(e) /\ e \in ext.journals \cup refused \cup tried
        /\ type[e] # "ext4" /\ data[e] # "live" => e \in tried
        /\ type[e] = "vfat" /\ drive[e] # "live" => e \in tried
      BY <1>1 DEF IInv, MountsBacked
  <2>2. InExt4(e) => InExt4(e)'
      BY <1>2 DEF InExt4
  <2>3. CASE e = d
      BY <1>1, <1>2, <2>1, <2>2, <2>3
  <2>4. CASE e # d
    <3>1. e \in Devices \ {d}
        BY <2>4 DEF IInv, TypeOK
    <3> QED
        BY <1>1, <1>2, <2>1, <2>2, <3>1
  <2> QED
      BY <2>3, <2>4
<1>7. LibrariesBalanced'
  <2>1. Of("ext4")' = Of("ext4") /\ Of("vfat")' = Of("vfat")
      BY <1>1 DEF Of
  <2>2. \A e \in Devices : drive'[e] # "none" <=> e \in Of("vfat")
    <3>1. type[d] = "vfat" <=> d \in Of("vfat")
        BY <1>1 DEF Of
    <3> QED
        BY <1>1, <1>2, <1>3, <3>1
  <2> QED
      BY <1>1, <1>2, <2>1, <2>2 DEF IInv, LibrariesBalanced, Lost
<1> QED
    BY <1>4, <1>5, <1>6, <1>7 DEF IInv

LEMMA UnmountedIInv == ASSUME IInv, op = "unmount", Unmounted PROVE IInv'
<1> DEFINE d == tab[n]
<1>1. /\ d \in Devices /\ d \in listed /\ registered /\ tab # <<>>
      /\ n \in 1..Len(tab) /\ Len(tab) \in Nat /\ tab \in Seq(Devices)
      /\ \A i, j \in DOMAIN tab : tab[i] = tab[j] => i = j
      /\ ext.devs = Of("ext4") /\ ext.points = Of("ext4")
      /\ \A e \in Devices : drive[e] # "none" <=> e \in Of("vfat")
      /\ type[d] = "ext4" => ext.volumes[d] > 0
    BY NextToUnmount DEF Unmounted
<1>2. /\ DriverUnmount(d, TRUE) /\ listed' = listed \ {d} /\ tried' = tried \ {d}
      /\ type' = type /\ refused' = refused /\ left' = left
    BY DEF Unmounted
<1>3. \/ n = Len(tab) /\ op' = "idle" /\ n' = 0 /\ tab' = <<>> /\ registered' = FALSE
      \/ n # Len(tab) /\ op' = op /\ n' = n + 1 /\ tab' = tab /\ registered' = registered
    BY DEF Unmounted, Return
<1>4. /\ \A e \in Devices \ {d} : data'[e] = data[e]
      /\ type[d] = "ext4" =>
             /\ ext'.devs = ext.devs \ {d} /\ ext'.points = ext.points \ {d}
             /\ ext'.volumes = [ext.volumes EXCEPT ![d] = @ - 1]
             /\ ext'.journals = ext.journals \ {d} /\ drive' = drive
      /\ type[d] = "vfat" => ext' = ext /\ drive' = [drive EXCEPT ![d] = "none"]
      /\ type[d] = "littlefs" => ext' = ext /\ drive' = drive
    BY <1>1, <1>2, DoneUnmountEffect
<1>5. \A e \in listed' : \E i \in n + 1..Len(tab) : tab[i] = e
  <2> SUFFICES ASSUME NEW e \in listed' PROVE \E i \in n + 1..Len(tab) : tab[i] = e
      OBVIOUS
  <2>1. PICK i \in n..Len(tab) : tab[i] = e
      BY <1>2 DEF IInv, Phases
  <2>2. i # n
      BY <1>2, <2>1
  <2> QED
      BY <1>1, <2>1, <2>2
<1>6. n = Len(tab) => listed' = {}
    BY <1>1, <1>5
<1> HIDE DEF d
<1>7. /\ type \in [Devices -> Types] /\ listed \subseteq Devices /\ n \in Nat
      /\ drive \in [Devices -> {"none", "live", "freed"}] /\ IsFiniteSet(ext.devs)
      /\ ext.volumes \in [Devices -> Nat] /\ left \in [Devices -> 0..MaxConversions]
    BY DEF IInv, TypeOK, Phases
<1>8. type[d] \in {"ext4", "vfat", "littlefs"}
    BY <1>1, <1>7 DEF Types
<1>9. TypeOK'
  <2>1. n' \in Nat /\ (op' # "idle" => n' \in DOMAIN tab')
    <3>1. CASE n = Len(tab)
        BY <1>3, <3>1
    <3>2. CASE n # Len(tab)
      <4>1. n + 1 \in 1..Len(tab) /\ 1..Len(tab) = DOMAIN tab
          BY <1>1, <1>7, <3>2
      <4> QED
          BY <1>3, <1>7, <3>2, <4>1
    <3> QED
        BY <3>1, <3>2
  <2>2. op' \in {"idle", "mount", "unmount"} /\ registered' \in BOOLEAN /\ tab' \in Fstabs \cup {<<>>}
      BY <1>3 DEF IInv, TypeOK
  <2>3. /\ ext' \in ExtTables /\ data' \in [Devices -> {"null", "live", "freed"}]
        /\ drive' \in [Devices -> {"none", "live", "freed"}]
        /\ contexts' \in 0..MaxLfsMounts
        /\ fault' \in {"none", "null_data", "freed_drive", "freed_config"}
      BY <1>1, <1>2, DriverUnmountType DEF IInv
  <2>4. /\ type \in [Devices -> Types] /\ refused \subseteq Devices
        /\ listed \subseteq Devices /\ tried \subseteq Devices /\ left \in [Devices -> 0..MaxConversions]
      BY DEF IInv, TypeOK
  <2> QED
      BY <1>2, <2>1, <2>2, <2>3, <2>4 DEF TypeOK, ExtTables
<1>10. Phases'
  <2>1. ext'.devs = ext.devs \/ ext'.devs = ext.devs \ {d}
      BY <1>4, <1>8
  <2>2. IsFiniteSet(ext'.devs)
      BY <1>7, <2>1, FS_RemoveElement
  <2>3. op' # "mount"
      BY <1>3
  <2>4. op' = "unmount" => \A e \in listed' : \E i \in n'..Len(tab') : tab'[i] = e
      BY <1>3, <1>5
  <2>5. tab' # <<>> => \A e \in listed' : \E i \in 1..Len(tab') : tab'[i] = e
      BY <1>2, <1>3 DEF IInv, Phases
  <2> QED
      BY <1>1, <1>3, <2>2, <2>3, <2>4, <2>5 DEF Phases
<1>11. MountsBacked'
  <2> SUFFICES ASSUME NEW e \in listed'
               PROVE  /\ type[e] = "ext4" => /\ data'[e] = "live" /\ InExt4(e)'
                                             /\ e \in ext'.journals \cup refused \cup tried'
                      /\ type[e] # "ext4" /\ data'[e] # "live" => e \in tried'
                      /\ type[e] = "vfat" /\ drive'[e] # "live" => e \in tried'
      BY <1>2 DEF MountsBacked
  <2>1. e \in listed /\ e # d /\ e \in Devices
      BY <1>2, <1>7
  <2>2. /\ type[e] = "ext4" => data[e] = "live" /\ InExt4(e) /\ e \in ext.journals \cup refused \cup tried
        /\ type[e] # "ext4" /\ data[e] # "live" => e \in tried
        /\ type[e] = "vfat" /\ drive[e] # "live" => e \in tried
      BY <1>1, <2>1 DEF IInv, MountsBacked
  <2>3. data'[e] = data[e] /\ drive'[e] = drive[e]
      BY <1>4, <1>7, <1>8, <2>1
  <2>4. (InExt4(e) => InExt4(e)') /\ (e \in ext.journals => e \in ext'.journals)
      BY <1>4, <1>7, <1>8, <2>1 DEF InExt4
  <2> QED
      BY <1>2, <2>1, <2>2, <2>3, <2>4
<1>12. LibrariesBalanced'
  <2>1. /\ Of("ext4")' = IF type[d] = "ext4" THEN Of("ext4") \ {d} ELSE Of("ext4")
        /\ Of("vfat")' = IF type[d] = "vfat" THEN Of("vfat") \ {d} ELSE Of("vfat")
      BY <1>2 DEF Of
  <2>2. ext'.devs = Of("ext4")' /\ ext'.points = Of("ext4")'
      BY <1>1, <1>4, <1>8, <2>1
  <2>3. \A e \in Devices : drive'[e] # "none" <=> e \in Of("vfat")'
    <3>1. CASE type[d] = "vfat"
        BY <1>1, <1>4, <1>7, <2>1, <3>1
    <3>2. CASE type[d] # "vfat"
        BY <1>1, <1>4, <1>8, <2>1, <3>2
    <3> QED
        BY <3>1, <3>2
  <2>4. \A e \in Devices : ext'.volumes[e] = left[e] + (IF e \in ext'.devs THEN 1 ELSE 0)
    <3>1. \A e \in Devices : ext.volumes[e] = left[e] + (IF e \in ext.devs THEN 1 ELSE 0)
        BY DEF IInv, LibrariesBalanced
    <3>2. \A e \in Devices : left[e] \in Nat
        BY <1>7, DriversAssumption
    <3>3. CASE type[d] = "ext4"
      <4>1. d \in ext.devs
          BY <1>1, <3>3 DEF Of
      <4> SUFFICES ASSUME NEW e \in Devices
                   PROVE  ext'.volumes[e] = left[e] + (IF e \in ext'.devs THEN 1 ELSE 0)
          OBVIOUS
      <4>2. CASE e = d
          BY <1>4, <1>7, <3>1, <3>2, <3>3, <4>1, <4>2
      <4>3. CASE e # d
          BY <1>4, <1>7, <3>1, <3>3, <4>3
      <4> QED
          BY <4>2, <4>3
    <3>4. CASE type[d] # "ext4"
        BY <1>4, <1>8, <3>1, <3>4
    <3> QED
        BY <3>3, <3>4
  <2>5. ~registered' => listed' = {}
      BY <1>1, <1>3, <1>6
  <2>6. ~Lost'
      BY <1>1, <1>3 DEF Lost
  <2>7. op' # "mount"
      BY <1>3
  <2> QED
      BY <1>2, <2>2, <2>3, <2>4, <2>5, <2>6, <2>7 DEF LibrariesBalanced
<1> QED
    BY <1>9, <1>10, <1>11, <1>12 DEF IInv

LEMMA StepIInv == IInv /\ [Next]_vars => IInv'
<1> SUFFICES ASSUME IInv, [Next]_vars PROVE IInv'
    OBVIOUS
<1>1. ASSUME NEW t \in Fstabs, MountInit(t) PROVE IInv'
    BY <1>1, MountInitIInv
<1>2. CASE MountEntry
  <2>1. CASE NotDetected
      BY <1>2, <2>1, ReturnIInv DEF MountEntry, NotDetected
  <2> QED
      BY <1>2, <2>1, MountFailedIInv, MountedIInv DEF MountEntry
<1>3. CASE UnmountDeinit
    BY <1>3, UnmountDeinitIInv
<1>4. CASE UnmountEntry
  <2>1. CASE NotMounted
      BY <1>4, <2>1, ReturnIInv DEF UnmountEntry, NotMounted
  <2> QED
      BY <1>4, <2>1, UnmountFailedIInv, UnmountedIInv DEF UnmountEntry
<1>5. ASSUME NEW d \in Devices, Use(d) PROVE IInv'
    BY <1>5, UseIInv
<1>6. ASSUME NEW d \in Devices, Convert(d) PROVE IInv'
    BY <1>6, ConvertIInv
<1>7. CASE UNCHANGED vars
  <2> USE <1>7 DEF IInv, vars, vfs, libs, history
  <2>1. TypeOK'
      BY DEF TypeOK
  <2>2. Phases'
      BY DEF Phases
  <2>3. MountsBacked'
      BY DEF MountsBacked, InExt4
  <2>4. LibrariesBalanced'
      BY DEF LibrariesBalanced, Lost, Of
  <2> QED
      BY <2>1, <2>2, <2>3, <2>4
<1> QED
    BY <1>1, <1>2, <1>3, <1>4, <1>5, <1>6, <1>7 DEF Next

LEMMA Inductive == Spec => []IInv
    BY InitIInv, StepIInv, PTL DEF Spec

\* Every variable always has its type.
THEOREM TypeCorrect == Spec => []TypeOK
<1>1. IInv => TypeOK
    BY DEF IInv
<1> QED
    BY <1>1, Inductive, PTL

\* A listed mount has what its driver needs, unless an unmount of it failed;
\* an ext4 mount has it even then, but for its journal.
THEOREM MountsAreBacked == Spec => []MountsBacked
<1>1. IInv => MountsBacked
    BY DEF IInv
<1> QED
    BY <1>1, Inductive, PTL

\* The libraries hold what the mounts say, nothing of a refused or a past one
\* stays, and lwext4's tables have room whenever the next element is mounted.
THEOREM LibrariesAreBalanced == Spec => []LibrariesBalanced
<1>1. IInv => LibrariesBalanced
    BY DEF IInv
<1> QED
    BY <1>1, Inductive, PTL

-----------------------------------------------------------------------------
(* The mount table above the drivers *)

\* What is still to be unmounted is mounted.
Complete ==
    LET from == IF op = "unmount" THEN n ELSE 1 IN
    tab # <<>> /\ \A k \in DOMAIN tab : k >= from => tab[k] \in listed
State ==
    IF op = "mount" \/ ~registered THEN "down"
    ELSE IF Complete THEN "up" ELSE "wedged"

\* The drivers, with all that can fail inside them, leave the table what
\* MountLifecycle promises - as TinyVfs has it of drivers that just fail: the
\* whole table mounted, or nothing, or wedged until a restart
\* (tinyvfs_mount.c 26-54, 72-104).
Lifecycle == INSTANCE MountLifecycle WITH state <- State
DriversMountTogether == Lifecycle!Spec

LEMMA MountSteps == ASSUME IInv, MountEntry PROVE [Lifecycle!Next]_State
<1> USE DEF Lifecycle!Next, Lifecycle!MountAll
<1>1. op = "mount" /\ State = "down"
    BY DEF MountEntry, State
<1>2. /\ tab[n] \notin listed /\ registered /\ n \in 1..Len(tab) /\ n \in DOMAIN tab
    BY <1>1, NextToMount, TabType DEF IInv
<1>3. State' \in {"down", "up", "wedged"}
    BY DEF State
<1> QED
    BY <1>1, <1>3

LEMMA UnmountSteps == ASSUME IInv, UnmountEntry PROVE [Lifecycle!Next]_State
<1> USE DEF Lifecycle!Next, Lifecycle!UnmountAll
<1>1. /\ op = "unmount" /\ registered /\ n \in 1..Len(tab) /\ n \in DOMAIN tab /\ tab \in Seq(Devices)
      /\ Len(tab) \in Nat /\ DOMAIN tab = 1..Len(tab) /\ tab # <<>>
      /\ \A j, k \in DOMAIN tab : tab[j] = tab[k] => j = k
      /\ \A d \in listed : \E j \in n..Len(tab) : tab[j] = d
  <2>1. op = "unmount"
      BY DEF UnmountEntry
  <2> QED
      BY <2>1, TabType DEF IInv, Phases
<1>2. State = IF Complete THEN "up" ELSE "wedged"
    BY <1>1 DEF State
<1>3. State' \in {"down", "up", "wedged"}
    BY DEF State
<1>4. CASE State = "up"
    BY <1>3, <1>4
<1>5. CASE ~Complete
  <2>1. PICK k \in DOMAIN tab : k >= n /\ tab[k] \notin listed
      BY <1>1, <1>5 DEF Complete
  <2>2. CASE NotMounted
    <3>1. op' = "idle" /\ tab' = tab /\ listed' = listed /\ registered' = registered
        BY <2>2 DEF NotMounted, Return
    <3>2. ~Complete'
        BY <1>1, <2>1, <3>1 DEF Complete
    <3> QED
        BY <1>1, <1>2, <1>5, <3>1, <3>2 DEF State
  <2>3. CASE UnmountFailed
    <3>1. op' = "idle" /\ tab' = tab /\ listed' = listed /\ registered' = registered
        BY <2>3 DEF UnmountFailed, Return
    <3>2. ~Complete'
        BY <1>1, <2>1, <3>1 DEF Complete
    <3> QED
        BY <1>1, <1>2, <1>5, <3>1, <3>2 DEF State
  <2>4. CASE Unmounted
    <3>1. tab[n] \in listed /\ listed' = listed \ {tab[n]} /\ k # n /\ n # Len(tab)
        BY <1>1, <2>1, <2>4 DEF Unmounted
    <3>2. n' = n + 1 /\ op' = op /\ tab' = tab /\ registered' = registered
        BY <2>4, <3>1 DEF Unmounted
    <3>3. k >= n + 1 /\ tab[k] \notin listed'
        BY <1>1, <2>1, <3>1
    <3>4. ~Complete'
        BY <1>1, <2>1, <3>2, <3>3 DEF Complete
    <3> QED
        BY <1>1, <1>2, <1>5, <3>2, <3>4 DEF State
  <2> QED
      BY <2>2, <2>3, <2>4 DEF UnmountEntry
<1> QED
    BY <1>2, <1>4, <1>5

\* Every step of the drivers maps to a step of MountLifecycle or to a stutter.
LEMMA DriverSteps == IInv /\ [Next]_vars => [Lifecycle!Next]_State
<1> SUFFICES ASSUME IInv, [Next]_vars PROVE [Lifecycle!Next]_State
    OBVIOUS
<1>1. ASSUME NEW t \in Fstabs, MountInit(t) PROVE [Lifecycle!Next]_State
  <2>1. State = "down" /\ registered' /\ op = "idle" /\ tab = <<>>
      BY <1>1 DEF MountInit, Idle, State, IInv, Phases
  <2>2. op' = "mount" \/ tab' = <<>>
      BY <1>1, <2>1 DEF MountInit
  <2>3. State' \in {"down", "wedged"}
      BY <2>1, <2>2 DEF State, Complete
  <2> QED
      BY <2>1, <2>3 DEF Lifecycle!Next, Lifecycle!MountAll
<1>2. CASE UnmountDeinit
  <2>1. op = "idle" /\ op' = "unmount" /\ n' = 1 /\ UNCHANGED <<registered, tab, listed>>
      BY <1>2 DEF UnmountDeinit, Idle
  <2>2. Complete' = Complete
      BY <2>1 DEF Complete
  <2> QED
      BY <2>1, <2>2 DEF State
<1>3. ASSUME NEW d \in Devices, Use(d) PROVE [Lifecycle!Next]_State
    BY <1>3 DEF Use, vfs, State, Complete
<1>4. ASSUME NEW d \in Devices, Convert(d) PROVE [Lifecycle!Next]_State
    BY <1>4 DEF Convert, vfs, State, Complete
<1>5. CASE UNCHANGED vars
    BY <1>5 DEF vars, vfs, State, Complete
<1> QED
    BY <1>1, <1>2, <1>3, <1>4, <1>5, MountSteps, UnmountSteps DEF Next

\* The drivers implement MountLifecycle, whatever they leave in their libraries.
THEOREM DriversImplementLifecycle == Spec => DriversMountTogether
<1>1. Init => Lifecycle!Init
    BY DEF Init, State, Lifecycle!Init
<1> QED
    BY <1>1, Inductive, DriverSteps, PTL DEF Spec, DriversMountTogether, Lifecycle!Spec
=============================================================================
