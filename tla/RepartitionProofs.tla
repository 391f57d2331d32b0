------------------------- MODULE RepartitionProofs -------------------------
(***************************************************************************)
(* Theorems about the conversion, for every set of log files.  The         *)
(* inductive invariant says what is mounted and open at each place of the  *)
(* program (RamInv), how far the partition is converted there (StageInv),  *)
(* and where the log files are (LogInv).                                   *)
(***************************************************************************)
EXTENDS Repartition, TLAPS

Unmounted == Converting \cup {"info", "remount"}
Silent == Unmounted \cup {"off", "ended", "backup", "unmount", "restore", "cleanup"}

RamInv ==
    /\ pc \notin Unmounted \cup {"off", "ended", "script"} => vfs = "up"
    /\ pc \in Unmounted \cup {"off"} => vfs = "down"
    /\ pc \in Silent => ~log
    /\ log => vfs = "up"

\* What the partition in conversion holds and its entry in the table says.
StageInv ==
    /\ \A s \in Slots : s # current => code[s] = content[s]
    /\ vfs = "up" => code[current] = content[current]
    /\ pc \in {"backup", "unmount", "erase"} => content[current] = "fat" /\ code[current] = "fat"
    /\ pc \in {"append", "format"} => content[current] = "erased" /\ code[current] = "fat"
    /\ pc = "formatting" => content[current] = "partial" /\ code[current] = "fat"
    /\ pc = "table" => content[current] = "ext4" /\ code[current] = "fat"
    /\ pc \in {"info", "remount", "restore", "cleanup", "relog", "label"} =>
           content[current] = "ext4" /\ code[current] = "ext4"

LogInv ==
    /\ pc \in {"unmount", "erase"} /\ listed => logs \subseteq backup.files
    /\ pc = "cleanup" /\ listed => backup.files \subseteq logs
    /\ pc = "relog" => ~backup.dir

ResultInv ==
    /\ pc \in {"table", "info", "remount", "restore", "cleanup", "relog"} =>
           label[current] = "system_a"
    /\ pc = "label" => /\ result \in {"SUCCESS", "NOT_REQUIRED"}
                       /\ result = "SUCCESS" => label[current] = "system_a" /\ ~backup.dir
    /\ pc \notin {"script", "label", "ended"} => result \notin {"SUCCESS", "NOT_REQUIRED"}
    /\ SuccessIsComplete

IInv == TypeOK /\ RamInv /\ StageInv /\ LogInv /\ ResultInv

\* All the actions but the conversion's own.
Around == Boot \/ Exit \/ PowerCycle \/ RepartitionFs \/ CheckTempDir \/ UNCHANGED vars
\* The conversion up to the update of the table, and after it.
Before == Convert \/ BackupLogs \/ UnmountForConversion
Within == EraseFatBootRecord \/ AppendVolume \/ StartFormat \/ CreateExt4Fs \/ UpdateTable
After == ReadInfo \/ Remount \/ RestoreLogs \/ RemoveLogsBackup \/ RedirectLogs
         \/ ChangePartitionLabel

\* A step is one of the four parts.
LEMMA Parts == [Next]_vars => Around \/ Before \/ Within \/ After
BY DEF Next, Around, Before, Within, After

-----------------------------------------------------------------------------
(* Type correctness *)

\* Removing a file or the directory leaves a backup.
LEMMA RemoveBackupType ==
    ASSUME TypeOK, NEW next \in Places, RemoveBackup(next)
    PROVE  /\ backup' \in [dir: BOOLEAN, files: SUBSET LogFiles]
           /\ pc' \in Places /\ result' = result
<1>1. backup \in [dir: BOOLEAN, files: SUBSET LogFiles] /\ pc \in Places
  BY DEF TypeOK
<1>2. ASSUME NEW f, backup' = [backup EXCEPT !.files = @ \ {f}]
      PROVE  backup' \in [dir: BOOLEAN, files: SUBSET LogFiles]
  BY <1>1, <1>2
<1>3. ASSUME backup' = [backup EXCEPT !.dir = FALSE]
      PROVE  backup' \in [dir: BOOLEAN, files: SUBSET LogFiles]
  BY <1>1, <1>3
<1> QED BY <1>1, <1>2, <1>3 DEF RemoveBackup, GoTo

\* Every step keeps the types.
LEMMA TypePreserved == TypeOK /\ [Next]_vars => TypeOK'
<1> SUFFICES ASSUME TypeOK, [Next]_vars PROVE TypeOK'
  OBVIOUS
<1> USE DEF GoTo, Return, Fail, device, partitions, files, emmc, ram, Places, Converting
<1>1. CASE Boot \/ PowerCycle
  BY <1>1 DEF Boot, PowerCycle, TypeOK
<1>11. ASSUME Unmount
      PROVE  /\ label' \in [Slots -> {"other", "system_a", "system_b"}]
             /\ vfs' \in {"down", "up", "wedged"} /\ relabelled' \in BOOLEAN
  BY <1>11 DEF Unmount, Relabelled, Vfs!UnmountAll, TypeOK, Slots
<1>12. CASE Exit
  BY <1>11, <1>12 DEF Exit, TypeOK
<1>2. CASE AppendVolume \/ ReadInfo \/ UNCHANGED vars
  BY <1>2 DEF AppendVolume, ReadInfo, vars, TypeOK
<1>15. CASE RepartitionFs
  <2>1. UNCHANGED <<emmc, vfs, log, relabelled>> /\ listed' \in BOOLEAN
        /\ pc' \in Places /\ result' \in {"none", "FAILED"}
    BY <1>15 DEF RepartitionFs, TypeOK
  <2> QED BY <2>1 DEF TypeOK
<1>13. CASE Convert
  BY <1>13 DEF Convert, TypeOK
<1>14. CASE RedirectLogs
  BY <1>14 DEF RedirectLogs, TypeOK
<1>3. CASE CheckTempDir \/ RemoveLogsBackup
  <2>1. "convert" \in Places /\ "relog" \in Places
    OBVIOUS
  <2>2. backup' \in [dir: BOOLEAN, files: SUBSET LogFiles] /\ pc' \in Places
        /\ result' \in {result, "FAILED"}
    BY <1>3, <2>1, RemoveBackupType DEF CheckTempDir, RemoveLogsBackup, TypeOK
  <2> QED BY <1>3, <2>2 DEF CheckTempDir, RemoveLogsBackup, TypeOK
<1>4. CASE BackupLogs
  <2>1. backup \in [dir: BOOLEAN, files: SUBSET LogFiles] /\ logs \subseteq LogFiles
    BY DEF TypeOK
  <2>2. backup' \in [dir: BOOLEAN, files: SUBSET LogFiles]
    <3>1. [backup EXCEPT !.dir = TRUE] \in [dir: BOOLEAN, files: SUBSET LogFiles]
      BY <2>1
    <3>2. ASSUME NEW f \in logs
          PROVE  [dir |-> TRUE, files |-> backup.files \cup {f}] \in [dir: BOOLEAN, files: SUBSET LogFiles]
      BY <2>1
    <3> QED BY <1>4, <2>1, <3>1, <3>2 DEF BackupLogs
  <2> QED BY <1>4, <2>2 DEF BackupLogs, TypeOK
<1>5. CASE UnmountForConversion
  BY <1>5, <1>11 DEF UnmountForConversion, TypeOK
<1>6. CASE EraseFatBootRecord \/ StartFormat \/ UpdateTable
  BY <1>6 DEF EraseFatBootRecord, StartFormat, UpdateTable, TypeOK
<1>7. CASE CreateExt4Fs
  BY <1>7 DEF CreateExt4Fs, FormatLabelled, TypeOK
<1>8. CASE Remount
  BY <1>8 DEF Remount, Vfs!MountAll, TypeOK
<1>9. CASE RestoreLogs
  BY <1>9 DEF RestoreLogs, TypeOK
<1>10. CASE ChangePartitionLabel
  BY <1>10 DEF ChangePartitionLabel, Relabelled, TypeOK
<1> QED BY <1>1, <1>2, <1>3, <1>4, <1>5, <1>6, <1>7, <1>8, <1>9, <1>10, <1>12, <1>13, <1>14, <1>15 DEF Next

\* The types hold initially.
LEMMA InitType == Init => TypeOK
<1> SUFFICES ASSUME Init PROVE TypeOK
  OBVIOUS
<1>1. content \in [Slots -> {"fat", "erased", "partial", "ext4"}] /\ code \in [Slots -> {"fat", "ext4"}]
  BY DEF Init
<1>2. label \in [Slots -> {"other", "system_a", "system_b"}]
  BY DEF Init
<1>3. backup \in [dir: BOOLEAN, files: SUBSET LogFiles]
  BY DEF Init
<1> QED BY <1>1, <1>2, <1>3 DEF Init, TypeOK, Places

\* Repartition is type correct for every set of log files.
THEOREM TypeCorrect == Spec => []TypeOK
<1> QED BY InitType, TypePreserved, PTL DEF Spec

-----------------------------------------------------------------------------
(* The inductive invariant *)

\* The parts of the program outside the conversion keep the invariant.
LEMMA AroundKeeps ==
    ASSUME IInv, Around, TypeOK'
    PROVE  IInv'
<1> USE DEF GoTo, Return, Fail, device, partitions, files, emmc, ram, Unmounted, Silent, Converting
<1>1. RamInv'
  BY DEF IInv, TypeOK, Around, Boot, Exit, PowerCycle, RepartitionFs, CheckTempDir, RemoveBackup,
         Unmount, Vfs!UnmountAll, vars, RamInv
<1>2. StageInv'
  BY DEF IInv, TypeOK, Around, Boot, Exit, PowerCycle, RepartitionFs, CheckTempDir, RemoveBackup,
         Unmount, Vfs!UnmountAll, vars, RamInv, StageInv, Mountable, Slots
<1>3. LogInv'
  BY DEF IInv, TypeOK, Around, Boot, Exit, PowerCycle, RepartitionFs, CheckTempDir, RemoveBackup,
         vars, LogInv
<1>4. ResultInv'
  BY DEF IInv, TypeOK, Around, Boot, Exit, PowerCycle, RepartitionFs, CheckTempDir, RemoveBackup,
         vars, ResultInv, SuccessIsComplete
<1> QED BY <1>1, <1>2, <1>3, <1>4 DEF IInv

\* So does the conversion up to the erasure of the boot record,
LEMMA BeforeKeeps ==
    ASSUME IInv, Before, TypeOK'
    PROVE  IInv'
<1> USE DEF GoTo, Return, Fail, device, partitions, files, emmc, ram, Unmounted, Silent, Converting
<1>1. RamInv'
  BY DEF IInv, TypeOK, Before, Convert, BackupLogs, UnmountForConversion, Unmount, Vfs!UnmountAll, RamInv
<1>2. StageInv'
  BY DEF IInv, TypeOK, Before, Convert, BackupLogs, UnmountForConversion, Unmount, Vfs!UnmountAll,
         RamInv, StageInv
<1>3. LogInv'
  BY DEF IInv, TypeOK, Before, Convert, BackupLogs, UnmountForConversion, LogInv
<1>4. ResultInv'
  BY DEF IInv, TypeOK, Before, Convert, BackupLogs, UnmountForConversion, ResultInv, SuccessIsComplete
<1> QED BY <1>1, <1>2, <1>3, <1>4 DEF IInv

\* from there to the update of the partition table,
LEMMA WithinKeeps ==
    ASSUME IInv, Within, TypeOK'
    PROVE  IInv'
<1> USE DEF GoTo, Return, Fail, device, partitions, files, emmc, ram, Unmounted, Silent, Converting
<1>1. RamInv'
  BY DEF IInv, TypeOK, Within, EraseFatBootRecord, AppendVolume, StartFormat, CreateExt4Fs,
         FormatLabelled, UpdateTable, RamInv
<1>2. StageInv'
  BY DEF IInv, TypeOK, Within, EraseFatBootRecord, AppendVolume, StartFormat, CreateExt4Fs,
         FormatLabelled, UpdateTable, RamInv, StageInv
<1>3. LogInv'
  BY DEF IInv, TypeOK, Within, EraseFatBootRecord, AppendVolume, StartFormat, CreateExt4Fs,
         FormatLabelled, UpdateTable, LogInv
<1>4. ResultInv'
  BY DEF IInv, TypeOK, Within, EraseFatBootRecord, AppendVolume, StartFormat, CreateExt4Fs,
         FormatLabelled, UpdateTable, ResultInv, SuccessIsComplete
<1> QED BY <1>1, <1>2, <1>3, <1>4 DEF IInv

\* and from there to the end.
LEMMA AfterKeeps ==
    ASSUME IInv, After, TypeOK'
    PROVE  IInv'
<1> USE DEF GoTo, Return, Fail, device, partitions, files, emmc, ram, Unmounted, Silent, Converting
<1>1. RamInv'
  BY DEF IInv, TypeOK, After, ReadInfo, Remount, Vfs!MountAll, RestoreLogs, RemoveLogsBackup,
         RemoveBackup, RedirectLogs, ChangePartitionLabel, RamInv
<1>2. StageInv'
  BY DEF IInv, TypeOK, After, ReadInfo, Remount, Vfs!MountAll, RestoreLogs, RemoveLogsBackup,
         RemoveBackup, RedirectLogs, ChangePartitionLabel, RamInv, StageInv, Mountable, Slots
<1>3. LogInv'
  BY DEF IInv, TypeOK, After, ReadInfo, Remount, RestoreLogs, RemoveLogsBackup,
         RemoveBackup, RedirectLogs, ChangePartitionLabel, LogInv
<1>4. ResultInv'
  BY DEF IInv, TypeOK, After, ReadInfo, Remount, RestoreLogs, RemoveLogsBackup,
         RemoveBackup, RedirectLogs, ChangePartitionLabel, Relabelled, NotExt4, NoSuchMount, Slots,
         RamInv, StageInv, LogInv, ResultInv, SuccessIsComplete
<1> QED BY <1>1, <1>2, <1>3, <1>4 DEF IInv

\* The invariant holds initially and is inductive.
LEMMA Inductive == (Init => IInv) /\ (IInv /\ [Next]_vars => IInv')
<1>1. Init => IInv
  BY InitType DEF Init, IInv, Converting, Unmounted, Silent, RamInv, StageInv, LogInv,
         ResultInv, SuccessIsComplete
<1>2. IInv /\ [Next]_vars => IInv'
  BY TypePreserved, Parts, AroundKeeps, BeforeKeeps, WithinKeeps, AfterKeeps DEF IInv
<1> QED BY <1>1, <1>2

\* So it always holds.
LEMMA Invariant == Spec => []IInv
<1> QED BY Inductive, PTL DEF Spec

-----------------------------------------------------------------------------
(* Consequences *)

\* A conversion that reports success has converted the partition, updated the
\* table, given both partitions their labels and removed the backup.
THEOREM Success == Spec => []SuccessIsComplete
<1>1. IInv => SuccessIsComplete
  BY DEF IInv, ResultInv
<1> QED BY <1>1, Invariant, PTL

\* The log file is never open across an unmount.
THEOREM LogClosed == Spec => []LogClosedWhileDown
<1>1. IInv => LogClosedWhileDown
  BY DEF IInv, RamInv, LogClosedWhileDown
<1> QED BY <1>1, Invariant, PTL

\* Whenever the file systems are mounted the device would boot again.
THEOREM Boots == Spec => []BootsAgain
<1>1. IInv => BootsAgain
  BY DEF IInv, StageInv, BootsAgain, Mountable
<1> QED BY <1>1, Invariant, PTL

\* The steps that lose no log file for want of touching one.
LEMMA LogsUntouched ==
    ASSUME TypeOK, [Next]_vars, ~EraseFatBootRecord, ~CheckTempDir, ~RemoveLogsBackup
    PROVE  logs \subseteq logs' /\ backup.files \subseteq backup'.files
<1> USE DEF device, partitions, files, emmc, ram
<1>1. CASE BackupLogs
  <2>1. backup \in [dir: BOOLEAN, files: SUBSET LogFiles]
    BY DEF TypeOK
  <2>2. [backup EXCEPT !.dir = TRUE].files = backup.files
    BY <2>1
  <2>3. backup.files \subseteq backup'.files
    <3> DEFINE created == [backup EXCEPT !.dir = TRUE]
    <3>1. \/ backup' \in {backup, created}
          \/ \E f \in logs : backup' = [dir |-> TRUE, files |-> backup.files \cup {f}]
      BY <1>1 DEF BackupLogs
    <3>2. created.files = backup.files
      BY <2>2
    <3> HIDE DEF created
    <3> QED BY <3>1, <3>2
  <2> QED BY <1>1, <2>3 DEF BackupLogs
<1>2. CASE RestoreLogs
  BY <1>2 DEF RestoreLogs
<1>3. CASE Boot \/ Exit \/ PowerCycle \/ RepartitionFs \/ Convert \/ UnmountForConversion
  BY <1>3 DEF Boot, Exit, PowerCycle, RepartitionFs, Convert, UnmountForConversion
<1>4. CASE AppendVolume \/ StartFormat \/ CreateExt4Fs \/ UpdateTable \/ ReadInfo
  BY <1>4 DEF AppendVolume, StartFormat, CreateExt4Fs, FormatLabelled, UpdateTable, ReadInfo
<1>5. CASE Remount \/ RedirectLogs \/ ChangePartitionLabel \/ UNCHANGED vars
  BY <1>5 DEF Remount, RedirectLogs, ChangePartitionLabel, vars
<1> QED BY <1>1, <1>2, <1>3, <1>4, <1>5 DEF Next

\* No conversion loses a log file unless a listing ends early: the boot record
\* is erased when the backup has all files listed, and the backup removed when
\* /system has them again.
THEOREM LogsKept == Spec => LogsSurvive
<1> DEFINE Survives ==
      \A f \in LogFiles : Lost(f) => pc = "check" \/ ~listed
<1>1. IInv /\ [Next]_vars => Survives
  <2> SUFFICES ASSUME IInv, [Next]_vars, NEW f \in LogFiles, Lost(f)
               PROVE  pc = "check" \/ ~listed
    OBVIOUS
  <2>1. CASE EraseFatBootRecord
    BY <2>1 DEF EraseFatBootRecord, IInv, LogInv, Lost
  <2>2. CASE CheckTempDir
    BY <2>2 DEF CheckTempDir
  <2>3. CASE RemoveLogsBackup
    <3>1. pc = "cleanup" /\ logs' = logs
      BY <2>3 DEF RemoveLogsBackup
    <3> QED BY <3>1 DEF IInv, LogInv, Lost
  <2> QED BY <2>1, <2>2, <2>3, LogsUntouched DEF IInv, Lost
<1>2. IInv /\ [Next]_vars => [Survives]_vars
  BY <1>1
<1> HIDE DEF Survives
<1>3. Spec => [][Survives]_vars
  BY <1>2, Invariant, PTL DEF Spec
<1> QED BY <1>3 DEF LogsSurvive, Survives

-----------------------------------------------------------------------------
(* Refinement *)

\* The program's steps outside the five of the conversion itself leave the
\* partition's stage alone.
LEMMA StageKept ==
    ASSUME IInv, IInv', Around \/ Before \/ After
    PROVE  Stage' = Stage
<1> USE DEF device, partitions, files, emmc, ram
<1>1. current' = current /\ code' = code /\ content' = content
  <2>1. CASE Around
    BY <2>1 DEF Around, Boot, Exit, PowerCycle, RepartitionFs, CheckTempDir, vars
  <2>2. CASE Before
    BY <2>2 DEF Before, Convert, BackupLogs, UnmountForConversion
  <2>3. CASE After
    BY <2>3 DEF After, ReadInfo, Remount, RestoreLogs, RemoveLogsBackup, RedirectLogs,
                ChangePartitionLabel
  <2> QED BY <2>1, <2>2, <2>3
<1> QED BY <1>1 DEF Stage

\* The conversion is one-way: it passes through a broken stage, and only the
\* conversion that entered that stage leaves it.
THEOREM OneWayImplemented == Spec => OneWay
<1> DEFINE Busy == pc \in Converting
<1> USE DEF GoTo, Return, Fail, device, partitions, files, emmc, ram, Converting
<1>1. Init => Conversion_!Init
  BY DEF Init, Conversion_!Init, Stage
<1>2. IInv /\ IInv' /\ [Next]_vars => [Conversion_!Next]_<<Stage, Busy>>
  <2> SUFFICES ASSUME IInv, IInv', [Next]_vars
               PROVE  [Conversion_!Next]_<<Stage, Busy>>
    OBVIOUS
  <2> USE DEF Conversion_!Next, Conversion_!Begin, Conversion_!Break, Conversion_!Complete,
              Conversion_!Stop
  <2>1. CASE Around
    <3>1. Busy' = Busy \/ (Busy /\ ~Busy')
      BY <2>1 DEF Around, Boot, Exit, PowerCycle, RepartitionFs, CheckTempDir, RemoveBackup, vars
    <3> QED BY <2>1, <3>1, StageKept
  <2>2. CASE Before
    <3>1. ~Busy
      BY <2>2 DEF Before, Convert, BackupLogs, UnmountForConversion
    <3>2. Busy' => Stage = "fat"
      BY <2>2 DEF Before, Convert, BackupLogs, UnmountForConversion, IInv, StageInv, Stage
    <3> QED BY <2>2, <3>1, <3>2, StageKept
  <2>3. CASE After
    <3>1. ~Busy /\ ~Busy'
      BY <2>3 DEF After, ReadInfo, Remount, RestoreLogs, RemoveLogsBackup, RemoveBackup,
                  RedirectLogs, ChangePartitionLabel
    <3> QED BY <2>3, <3>1, StageKept
  <2>4. CASE Within
    <3>1. Busy /\ current' = current /\ current \in Slots
      BY <2>4 DEF Within, EraseFatBootRecord, AppendVolume, StartFormat, CreateExt4Fs,
                  FormatLabelled, UpdateTable, IInv, TypeOK
    <3>2. content \in [Slots -> {"fat", "erased", "partial", "ext4"}]
          /\ code \in [Slots -> {"fat", "ext4"}]
      BY DEF IInv, TypeOK
    <3>3. CASE EraseFatBootRecord
      BY <3>1, <3>2, <3>3 DEF EraseFatBootRecord, IInv, StageInv, Stage
    <3>4. CASE AppendVolume
      BY <3>1, <3>4 DEF AppendVolume, Stage
    <3>5. CASE StartFormat
      BY <3>1, <3>2, <3>5 DEF StartFormat, IInv, StageInv, Stage
    <3>6. CASE CreateExt4Fs
      BY <3>1, <3>2, <3>6 DEF CreateExt4Fs, FormatLabelled, IInv, StageInv, Stage
    <3>7. CASE UpdateTable
      BY <3>1, <3>2, <3>7 DEF UpdateTable, IInv, StageInv, Stage
    <3> QED BY <2>4, <3>3, <3>4, <3>5, <3>6, <3>7 DEF Within
  <2> QED BY <2>1, <2>2, <2>3, <2>4, Parts
<1> QED BY <1>1, <1>2, Invariant, PTL DEF Spec, OneWay, Conversion_!Spec
=============================================================================
