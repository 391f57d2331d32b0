-------------------------- MODULE BootloaderProofs --------------------------
(***************************************************************************)
(* Theorems about the bootloader update, for every transfer size, boot     *)
(* area and set of images.  The argument: while verify_ecoboot runs, what  *)
(* it has passed is the image (VerifyInv), so what it ends with is the     *)
(* whole image; and the boot area stays selected only while an image is    *)
(* waiting (SelectInv), so nothing spoils an installed one.                *)
(***************************************************************************)
EXTENDS Bootloader, TLAPS

Results == {"none", "ok", "errno", "EIO", "ERANGE", "eco_verify", "eco_vfs"}

\* The boot area before the loop's block address holds the image.
Passed == \A i \in 0..file.size - 1 : i < lba => area[i] = [img |-> file, at |-> i]

LoopInv ==
    /\ pc # "idle" => file # None /\ result = "none"
    /\ pc \in {"flash", "verify"} => sz <= file.size
VerifyInv ==
    /\ pc = "verify" => /\ lba <= AreaBytes /\ Passed
                        /\ sz > 0 => lba + sz = file.size
                        /\ sz = 0 => file.size <= lba
    /\ pc = "unlink" => Holds(area, file) /\ selected = "user"
SelectInv == selected = "boot" => file # None
RemovalInv == result = "eco_vfs" => Holds(area, file) /\ selected = "user" /\ file # None

-----------------------------------------------------------------------------
(* Type correctness *)

\* What fread leaves in the buffer is a buffer.
LEMMA LoadedType ==
    ASSUME TypeOK, file # None, sz <= file.size, NEW junk
    PROVE  /\ Loaded(junk) \in [0..Chunk - 1 -> Cells]
           /\ \A b \in CutOffs(junk) : b \in [0..Chunk - 1 -> Cells]
<1>1. /\ Junk \in Cells /\ Zero \in Cells /\ buf \in [0..Chunk - 1 -> Cells]
      /\ file \in Images /\ sz \in Nat /\ file.size \in Nat
  BY BootAssumption DEF TypeOK, Cells
<1>2. ASSUME NEW i \in 0..Chunk - 1 PROVE FileByte(junk, i) \in Cells
  <2>1. (file.size - sz) + i \in Nat
    BY <1>1, BootAssumption
  <2> QED BY <1>1, <2>1 DEF FileByte, Cells
<1>3. Loaded(junk) \in [0..Chunk - 1 -> Cells]
  BY <1>1, <1>2 DEF Loaded
<1>4. ASSUME NEW n PROVE CutOff(junk, n) \in [0..Chunk - 1 -> Cells]
  BY <1>1, <1>2 DEF CutOff
<1> QED BY <1>3, <1>4 DEF CutOffs

\* Storing part of a buffer leaves an area.
LEMMA StoreType ==
    ASSUME TypeOK, NEW b \in [0..Chunk - 1 -> Cells], NEW k \in 0..SectorsPerTransfer, Store(b, k)
    PROVE  area' \in [0..AreaBytes - 1 -> Cells]
<1>1. k * SectorBytes \in Nat /\ k * SectorBytes <= Chunk
  <2>1. k \in Nat /\ k <= SectorsPerTransfer /\ SectorBytes \in Nat
    BY BootAssumption
  <2>2. \E d \in Nat : SectorsPerTransfer = k + d
    BY <2>1, BootAssumption
  <2>3. PICK d \in Nat : SectorsPerTransfer = k + d
    BY <2>2
  <2>4. SectorBytes * SectorsPerTransfer = SectorBytes * k + SectorBytes * d
    BY <2>1, <2>3
  <2>5. SectorBytes * d \in Nat /\ SectorBytes * k \in Nat /\ k * SectorBytes = SectorBytes * k
    BY <2>1
  <2> QED BY <2>4, <2>5 DEF Chunk
<1>2. ASSUME NEW i \in 0..AreaBytes - 1, lba <= i, i < lba + k * SectorBytes
      PROVE  b[i - lba] \in Cells
  <2>1. i - lba \in 0..Chunk - 1
    BY <1>1, <1>2, BootAssumption DEF TypeOK
  <2> QED BY <2>1
<1> QED BY <1>2 DEF Store, TypeOK

\* One round of flash_ecoboot keeps the types.
LEMMA FlashChunkType ==
    ASSUME TypeOK, LoopInv, FlashChunk
    PROVE  TypeOK'
<1>1. /\ file # None /\ sz <= file.size /\ pc = "flash" /\ file' = file
      /\ SectorsPerTransfer \in 0..SectorsPerTransfer
      /\ lba + Chunk \in Nat /\ Rest \in Nat
  BY BootAssumption DEF FlashChunk, LoopInv, TypeOK, Rest
<1>2. ASSUME NEW ret \in Results, Return(ret), selected' \in {"user", "boot"},
             area' \in [0..AreaBytes - 1 -> Cells]
      PROVE  TypeOK'
  BY <1>1, <1>2 DEF Return, loop, TypeOK, Results
<1>3. ASSUME NEW b \in [0..Chunk - 1 -> Cells], Written(b)
      PROVE  area' \in [0..AreaBytes - 1 -> Cells] /\ selected' \in {"user", "boot"}
  BY <1>1, <1>3, StoreType DEF Written
<1>4. ASSUME NEW b \in [0..Chunk - 1 -> Cells], WriteFailed(b)
      PROVE  TypeOK'
  BY <1>2, <1>3, <1>4, StoreType DEF WriteFailed, TypeOK, Results
<1>5. CASE UNCHANGED <<area, selected>> /\ Return("errno")
  BY <1>2, <1>5 DEF TypeOK, Results
<1>6. ASSUME NEW junk \in Sources,
             \/ \E b \in CutOffs(junk) : WriteFailed(b) \/ (Written(b) /\ Return("errno"))
             \/ WriteFailed(Loaded(junk))
             \/ Written(Loaded(junk)) /\ Advance(Loaded(junk))
      PROVE  TypeOK'
  <2>2. /\ Loaded(junk) \in [0..Chunk - 1 -> Cells]
        /\ \A b \in CutOffs(junk) : b \in [0..Chunk - 1 -> Cells]
    BY <1>1, LoadedType
  <2>3. CASE Written(Loaded(junk)) /\ Advance(Loaded(junk))
    BY <1>1, <1>3, <2>2, <2>3 DEF Advance, TypeOK
  <2>4. CASE \E b \in CutOffs(junk) : Written(b) /\ Return("errno")
    BY <1>2, <1>3, <2>2, <2>4 DEF Results
  <2> QED BY <1>4, <1>6, <2>2, <2>3, <2>4
<1> QED BY <1>5, <1>6 DEF FlashChunk

\* One round of verify_ecoboot keeps the types.
LEMMA VerifyChunkType ==
    ASSUME TypeOK, LoopInv, VerifyChunk
    PROVE  TypeOK'
<1>1. /\ file # None /\ sz <= file.size /\ file' = file /\ area' = area /\ pc = "verify"
      /\ lba + Chunk \in Nat /\ Rest \in Nat
  BY BootAssumption DEF VerifyChunk, LoopInv, TypeOK, Rest, disk
<1>2. selected' \in {"user", "boot"}
  BY DEF VerifyChunk, ReadFailed, TypeOK
<1>3. ASSUME NEW ret \in Results, Return(ret)
      PROVE  TypeOK'
  BY <1>1, <1>2, <1>3 DEF Return, loop, TypeOK, Results
<1>4. Loaded({}) \in [0..Chunk - 1 -> Cells]
  BY <1>1, LoadedType
<1>5. CASE Advance(Loaded({}))
  BY <1>1, <1>2, <1>4, <1>5 DEF Advance, TypeOK
<1>6. CASE pc' = "unlink" /\ UNCHANGED <<loop, result>>
  BY <1>1, <1>2, <1>6 DEF TypeOK, loop
<1>7. (\E ret \in Results : Return(ret)) \/ Advance(Loaded({}))
      \/ (pc' = "unlink" /\ UNCHANGED <<loop, result>>)
  BY DEF VerifyChunk, ReadFailed, Results
<1> QED BY <1>3, <1>5, <1>6, <1>7

\* The buffer as malloc leaves it is a buffer.
LEMMA GarbageType == Garbage \in [0..Chunk - 1 -> Cells]
BY DEF Garbage, Cells

\* Every step keeps the types.
LEMMA TypePreserved ==
    ASSUME TypeOK, LoopInv, [Next]_vars
    PROVE  TypeOK'
<1>1. CASE FlashChunk
  BY <1>1, FlashChunkType
<1>2. CASE VerifyChunk
  BY <1>2, VerifyChunkType
<1>3. CASE FlashBootloader
  BY <1>3, GarbageType, BootAssumption DEF FlashBootloader, Accepted, Return, Enter, disk, loop, TypeOK
<1>4. CASE Flashed
  BY <1>4, GarbageType, BootAssumption DEF Flashed, LoopInv, Return, Enter, disk, loop, TypeOK
<1>5. CASE Unlink
  BY <1>5 DEF Unlink, Return, loop, TypeOK
<1>6. CASE \E img \in Images : PutImage(img)
  BY <1>6 DEF PutImage, loop, TypeOK
<1>7. ASSUME NEW at, UserWrite(at) PROVE TypeOK'
  BY <1>7 DEF UserWrite, loop, TypeOK, Cells
<1>8. CASE PowerCycle
  BY <1>8, GarbageType DEF PowerCycle, disk, TypeOK
<1>9. CASE UNCHANGED vars
  BY <1>9 DEF vars, disk, loop, TypeOK
<1> QED BY <1>1, <1>2, <1>3, <1>4, <1>5, <1>6, <1>7, <1>8, <1>9 DEF Next

\* Every step keeps the image in place while the loops run.
LEMMA LoopPreserved ==
    ASSUME TypeOK, LoopInv, [Next]_vars
    PROVE  LoopInv'
<1>1. CASE FlashChunk \/ VerifyChunk
  <2>1. file # None /\ sz <= file.size /\ file' = file /\ result = "none"
    BY <1>1 DEF FlashChunk, VerifyChunk, LoopInv, disk
  <2>2. Rest <= file.size
    <3>1. file.size \in Nat /\ sz \in Nat /\ Chunk \in Nat
      BY <2>1, BootAssumption DEF TypeOK
    <3> QED BY <2>1, <3>1 DEF Rest
  <2>3. \/ pc' = "idle"
        \/ \E b : Advance(b)
        \/ pc' = "unlink" /\ UNCHANGED <<loop, result>>
    BY <1>1 DEF FlashChunk, VerifyChunk, WriteFailed, ReadFailed, Return
  <2> QED BY <2>1, <2>2, <2>3 DEF LoopInv, Advance, loop
<1>2. CASE FlashBootloader
  BY <1>2, BootAssumption DEF FlashBootloader, Accepted, Return, Enter, disk, loop, LoopInv, TypeOK
<1>3. CASE Flashed
  BY <1>3, BootAssumption DEF Flashed, Return, Enter, disk, loop, LoopInv, TypeOK
<1>4. CASE ~(FlashChunk \/ VerifyChunk \/ FlashBootloader \/ Flashed)
  BY <1>4 DEF Next, Unlink, Return, PutImage, UserWrite, PowerCycle, vars, disk, loop, LoopInv
<1> QED BY <1>1, <1>2, <1>3, <1>4

\* Bootloader is type correct for every transfer size, area and set of images.
THEOREM TypeCorrect == Spec => []TypeOK
<1>1. Init => TypeOK /\ LoopInv
  BY GarbageType DEF Init, TypeOK, LoopInv, Cells
<1>2. TypeOK /\ LoopInv /\ [Next]_vars => (TypeOK /\ LoopInv)'
  BY TypePreserved, LoopPreserved
<1> QED BY <1>1, <1>2, PTL DEF Spec

-----------------------------------------------------------------------------
(* What verify_ecoboot has passed is the image *)

\* A transfer that compares equal extends what the boot area holds of the image.
LEMMA ComparePasses ==
    ASSUME TypeOK, LoopInv, VerifyInv, pc = "verify", sz > 0, InArea, Same(Loaded({})),
           Advance(Loaded({})), UNCHANGED disk
    PROVE  VerifyInv'
<1>1. /\ lba + sz = file.size /\ lba \in Nat /\ sz \in Nat /\ file.size \in Nat
      /\ Chunk \in Nat \ {0} /\ file' = file /\ area' = area /\ pc' = "verify"
      /\ lba' = lba + Chunk /\ sz' = Rest
  BY BootAssumption DEF VerifyInv, TypeOK, LoopInv, disk, Advance
<1>2. ASSUME NEW i \in 0..file.size - 1, i < lba + Chunk
      PROVE  area[i] = [img |-> file, at |-> i]
  <2>1. CASE i < lba
    BY <1>2, <2>1 DEF VerifyInv, Passed
  <2>2. CASE lba <= i
    <3>1. i - lba \in 0..Chunk - 1 /\ i - lba < sz /\ (file.size - sz) + (i - lba) = i
          /\ lba + (i - lba) = i
      BY <1>1, <1>2, <2>2
    <3>2. area[lba + (i - lba)] = Loaded({})[i - lba]
      BY <3>1 DEF Same
    <3>3. Loaded({})[i - lba] = [img |-> file, at |-> i]
      BY <3>1 DEF Loaded, FileByte
    <3> QED BY <3>1, <3>2, <3>3
  <2> QED BY <1>1, <2>1, <2>2
<1>3. Passed'
  BY <1>1, <1>2 DEF Passed
<1>4. lba' <= AreaBytes
  BY <1>1 DEF InArea
<1>5. /\ sz' > 0 => lba' + sz' = file.size
      /\ sz' = 0 => file.size <= lba'
  BY <1>1 DEF Rest
<1> QED BY <1>1, <1>3, <1>4, <1>5 DEF VerifyInv

\* A round of verify_ecoboot that has nothing left to compare has passed the
\* whole image.
LEMMA VerifyEnds ==
    ASSUME TypeOK, VerifyInv, pc = "verify", sz = 0, file # None
    PROVE  Holds(area, file)
<1>1. file.size <= lba /\ lba <= AreaBytes /\ Passed /\ file.size \in Nat /\ lba \in Nat
      /\ AreaBytes \in Nat
  BY BootAssumption DEF VerifyInv, TypeOK
<1> QED BY <1>1 DEF Holds, Passed

\* Every step keeps what is passed, what is installed, and the selection.
LEMMA InvPreserved ==
    ASSUME TypeOK, LoopInv, VerifyInv, SelectInv, RemovalInv, [Next]_vars
    PROVE  VerifyInv' /\ SelectInv' /\ RemovalInv'
<1>1. CASE FlashBootloader
  BY <1>1 DEF FlashBootloader, Return, Enter, disk, loop, VerifyInv, SelectInv, RemovalInv
<1>2. CASE FlashChunk
  <2>1. file # None /\ file' = file /\ pc' \in {"idle", "flash"} /\ result' # "eco_vfs"
    BY <1>2 DEF FlashChunk, WriteFailed, Return, Advance, LoopInv
  <2> QED BY <2>1 DEF VerifyInv, SelectInv, RemovalInv
<1>3. CASE Flashed
  <2>1. file # None /\ file' = file /\ area' = area /\ selected' = selected /\ result' # "eco_vfs"
    BY <1>3 DEF Flashed, Return, Enter, LoopInv, disk
  <2>2. \/ pc' = "idle"
        \/ pc' = "verify" /\ lba' = 0 /\ sz' = file.size
    BY <1>3 DEF Flashed, Return, Enter
  <2>3. VerifyInv'
    BY <2>1, <2>2, BootAssumption DEF VerifyInv, Passed, TypeOK
  <2> QED BY <2>1, <2>3 DEF SelectInv, RemovalInv
<1>4. CASE VerifyChunk
  <2>1. file # None /\ UNCHANGED disk /\ pc = "verify" /\ result = "none"
    BY <1>4 DEF VerifyChunk, LoopInv
  <2>2. result' # "eco_vfs"
    BY <1>4, <2>1 DEF VerifyChunk, ReadFailed, Return, Advance
  <2>3. CASE pc' = "idle"
    BY <2>1, <2>2, <2>3 DEF VerifyInv, SelectInv, RemovalInv, disk
  <2>4. CASE sz = 0 /\ pc' = "unlink"
    <3>1. Holds(area, file)
      BY <2>1, <2>4, VerifyEnds
    <3>2. selected' = "user"
      BY <1>4, <2>1, <2>4 DEF VerifyChunk, ReadFailed, Return, Advance
    <3> QED BY <2>1, <2>2, <2>4, <3>1, <3>2 DEF VerifyInv, SelectInv, RemovalInv, disk, Holds
  <2>5. CASE sz > 0 /\ InArea /\ Same(Loaded({})) /\ Advance(Loaded({}))
    BY <2>1, <2>2, <2>5, ComparePasses DEF SelectInv, RemovalInv, disk
  <2> QED BY <1>4, <2>3, <2>4, <2>5 DEF VerifyChunk, ReadFailed, Return
<1>5. CASE Unlink
  <2>1. Holds(area, file) /\ area' = area /\ selected' = "user" /\ pc' = "idle" /\ file # None
    BY <1>5 DEF Unlink, VerifyInv, LoopInv, Return
  <2> QED
    BY <1>5, <2>1 DEF Unlink, Return, VerifyInv, SelectInv, RemovalInv, Holds
<1>6. CASE \E img \in Images : PutImage(img)
  BY <1>6 DEF PutImage, VerifyInv, SelectInv, RemovalInv
<1>7. ASSUME NEW at, UserWrite(at) PROVE VerifyInv' /\ SelectInv' /\ RemovalInv'
  BY <1>7 DEF UserWrite, VerifyInv, SelectInv, RemovalInv
<1>8. CASE PowerCycle
  BY <1>8 DEF PowerCycle, VerifyInv, SelectInv, RemovalInv
<1>9. CASE UNCHANGED vars
  BY <1>9 DEF vars, disk, loop, VerifyInv, SelectInv, RemovalInv, Passed, Holds
<1> QED BY <1>1, <1>2, <1>3, <1>4, <1>5, <1>6, <1>7, <1>8, <1>9 DEF Next

-----------------------------------------------------------------------------
(* Theorems *)

IInv == TypeOK /\ LoopInv /\ VerifyInv /\ SelectInv /\ RemovalInv

\* The invariant holds initially and is inductive.
LEMMA Inductive == (Init => IInv) /\ (IInv /\ [Next]_vars => IInv')
<1>1. Init => IInv
  BY GarbageType
     DEF Init, IInv, TypeOK, Cells, LoopInv, VerifyInv, SelectInv, RemovalInv
<1>2. IInv /\ [Next]_vars => IInv'
  BY TypePreserved, LoopPreserved, InvPreserved DEF IInv
<1> QED BY <1>1, <1>2

\* When only the removal of the file failed, the boot area holds the image.
THEOREM RemovalFailed == Spec => []RemovalFailedIsInstalled
<1>1. IInv => RemovalFailedIsInstalled
  BY DEF IInv, RemovalInv, RemovalFailedIsInstalled
<1> QED BY <1>1, Inductive, PTL DEF Spec

\* Every step of the update is one BootInstall allows.
LEMMA StepInstalls ==
    ASSUME IInv, [Next]_vars
    PROVE  Install!Next \/ UNCHANGED <<file, area>>
<1>1. CASE FlashChunk
  BY <1>1 DEF FlashChunk, LoopInv, IInv, Install!Next, Install!Rewrite
<1>2. CASE Unlink
  BY <1>2 DEF Unlink, LoopInv, VerifyInv, IInv, Install!Next, Install!Remove
<1>3. CASE \E img \in Images : PutImage(img)
  BY <1>3 DEF PutImage, Install!Next, Install!Put
<1>4. ASSUME NEW at, UserWrite(at) PROVE Install!Next
  BY <1>4 DEF UserWrite, SelectInv, IInv, Install!Next, Install!Rewrite
<1>5. CASE FlashBootloader \/ Flashed \/ VerifyChunk \/ PowerCycle \/ UNCHANGED vars
  BY <1>5 DEF FlashBootloader, Flashed, VerifyChunk, PowerCycle, disk, vars
<1> QED BY <1>1, <1>2, <1>3, <1>4, <1>5 DEF Next

\* The update implements BootInstall: an image file is removed only when the
\* boot area holds all of it, and nothing spoils an installed one.
THEOREM InstallImplemented == Spec => Installs
<1>1. Init => Install!Init
  BY DEF Init, Install!Init
<1>2. IInv /\ [Next]_vars => [Install!Next]_<<file, area>>
  BY StepInstalls
<1> QED BY <1>1, <1>2, Inductive, PTL DEF Spec, Installs, Install!Spec
-----------------------------------------------------------------------------
(* An image refused with -ERANGE leaves no room for one transfer more *)

\* The loops count whole transfers, and none begins behind the image's last.
RangeInv ==
    /\ pc \in {"flash", "verify"} =>
          /\ \E k \in Nat : lba = k * Chunk
          /\ lba < file.size + Chunk
          /\ sz > 0 => lba + sz = file.size
    /\ RangeErrorExplained

\* Products with the transfer size keep their order.
LEMMA ChunksInOrder ==
    ASSUME NEW j \in Nat, NEW k \in Nat, j <= k
    PROVE  j * Chunk <= k * Chunk
<1>1. PICK d \in Nat : k = j + d
  <2>1. k - j \in Nat /\ k = j + (k - j)
    OBVIOUS
  <2> QED BY <2>1
<1>2. Chunk \in Nat /\ k * Chunk = j * Chunk + d * Chunk
  BY <1>1, BootAssumption
<1>3. d * Chunk \in Nat /\ j * Chunk \in Nat
  BY <1>2
<1> QED BY <1>2, <1>3

\* A transfer that falls out of the area belongs to an image without that room.
LEMMA NoRoom ==
    ASSUME TypeOK, file # None, NEW k \in Nat, lba = k * Chunk, lba < file.size + Chunk, ~InArea
    PROVE  ~RoomFor(file)
<1> SUFFICES ASSUME NEW n \in 0..AreaBytes, file.size <= n * Chunk, (n + 1) * Chunk <= AreaBytes
             PROVE  FALSE
  BY DEF RoomFor
<1>1. /\ Chunk \in Nat \ {0} /\ AreaBytes \in Nat /\ file.size \in Nat /\ n \in Nat
      /\ n * Chunk \in Nat /\ k * Chunk \in Nat /\ (n + 1) * Chunk = n * Chunk + Chunk
  BY BootAssumption DEF TypeOK
<1>2. k * Chunk < (n + 1) * Chunk
  BY <1>1
<1>3. k <= n
  <2>1. CASE n + 1 <= k
    <3>1. (n + 1) * Chunk <= k * Chunk
      BY <1>1, <2>1, ChunksInOrder
    <3> QED BY <1>1, <1>2, <3>1
  <2> QED BY <1>1, <2>1
<1>4. k * Chunk <= n * Chunk
  BY <1>1, <1>3, ChunksInOrder
<1> QED BY <1>1, <1>4 DEF InArea

\* A transfer that succeeds goes on at the next one.
LEMMA AdvanceInRange ==
    ASSUME TypeOK, LoopInv, RangeInv, pc \in {"flash", "verify"}, sz > 0, NEW b, Advance(b),
           file' = file
    PROVE  RangeInv'
<1>1. /\ file # None /\ result = "none" /\ result' = "none" /\ pc' = pc
      /\ lba' = lba + Chunk /\ sz' = Rest
  BY DEF LoopInv, Advance
<1>2. /\ file.size \in Nat /\ Chunk \in Nat \ {0} /\ lba \in Nat /\ sz \in Nat
      /\ lba + sz = file.size
  BY <1>1, BootAssumption DEF TypeOK, RangeInv
<1>3. PICK k \in Nat : lba = k * Chunk
  BY DEF RangeInv
<1>4. lba' = (k + 1) * Chunk /\ k + 1 \in Nat
  BY <1>1, <1>2, <1>3
<1>5. lba' < file.size + Chunk /\ (sz' > 0 => lba' + sz' = file.size)
  BY <1>1, <1>2 DEF Rest
<1> QED BY <1>1, <1>4, <1>5 DEF RangeInv, RangeErrorExplained

\* A call that returns leaves no loop; -ERANGE needs a transfer out of the area.
LEMMA ReturnInRange ==
    ASSUME TypeOK, LoopInv, RangeInv, pc \in {"flash", "verify"}, file' = file, pc' = "idle",
           result' = "ERANGE" => ~InArea
    PROVE  RangeInv'
<1>1. file # None /\ \E k \in Nat : lba = k * Chunk /\ lba < file.size + Chunk
  BY DEF LoopInv, RangeInv
<1>2. result' = "ERANGE" => ~RoomFor(file)
  BY <1>1, NoRoom
<1> QED BY <1>2 DEF RangeInv, RangeErrorExplained, RoomFor

\* Every step keeps it.
LEMMA RangePreserved ==
    ASSUME TypeOK, LoopInv, RangeInv, [Next]_vars
    PROVE  RangeInv'
<1>1. CASE FlashChunk \/ VerifyChunk
  <2>1. pc \in {"flash", "verify"} /\ file' = file
    BY <1>1 DEF FlashChunk, VerifyChunk, disk
  <2>2. CASE \E b : sz > 0 /\ Advance(b)
    BY <2>1, <2>2, AdvanceInRange
  <2>3. CASE pc' = "unlink" /\ UNCHANGED <<loop, result>>
    BY <2>1, <2>3 DEF LoopInv, RangeInv, RangeErrorExplained
  <2>4. CASE pc' = "idle" /\ (result' = "ERANGE" => ~InArea)
    BY <2>1, <2>4, ReturnInRange
  <2>5. \/ \E b : sz > 0 /\ Advance(b)
        \/ pc' = "unlink" /\ UNCHANGED <<loop, result>>
        \/ pc' = "idle" /\ (result' = "ERANGE" => ~InArea)
    BY <1>1 DEF FlashChunk, VerifyChunk, WriteFailed, ReadFailed, Return
  <2> QED BY <2>2, <2>3, <2>4, <2>5
<1>2. ASSUME NEW where, Enter(where), UNCHANGED <<file, selected>>, result' = "none", file # None
      PROVE  RangeInv'
  <2>1. file.size \in Nat /\ Chunk \in Nat \ {0} /\ 0 \in Nat /\ 0 = 0 * Chunk
    BY <1>2, BootAssumption DEF TypeOK
  <2> QED BY <1>2, <2>1 DEF Enter, RangeInv, RangeErrorExplained
<1>3. CASE FlashBootloader
  BY <1>2, <1>3 DEF FlashBootloader, Accepted, Return, disk, RangeInv, RangeErrorExplained
<1>4. CASE Flashed
  <2>1. file # None /\ result = "none"
    BY <1>4 DEF Flashed, LoopInv
  <2> QED BY <1>2, <1>4, <2>1 DEF Flashed, Return, disk, RangeInv, RangeErrorExplained
<1>5. CASE ~(FlashChunk \/ VerifyChunk \/ FlashBootloader \/ Flashed \/ UNCHANGED vars)
  BY <1>5 DEF Next, Unlink, Return, PutImage, UserWrite, PowerCycle, disk, RangeInv,
              RangeErrorExplained, RoomFor
<1>6. CASE UNCHANGED vars
  BY <1>6 DEF vars, disk, loop, RangeInv, RangeErrorExplained, RoomFor
<1> QED BY <1>1, <1>3, <1>4, <1>5, <1>6

\* -ERANGE is returned only for an image behind which the boot area has no
\* room for the transfer that verify_ecoboot reads too much.
THEOREM RangeErrors == Spec => []RangeErrorExplained
<1>1. Init => RangeInv
  BY DEF Init, RangeInv, RangeErrorExplained
<1>2. IInv /\ RangeInv /\ [Next]_vars => RangeInv'
  BY RangePreserved DEF IInv
<1>3. RangeInv => RangeErrorExplained
  BY DEF RangeInv
<1> QED BY <1>1, <1>2, <1>3, Inductive, PTL DEF Spec
=============================================================================
