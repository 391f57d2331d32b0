---------------------------- MODULE Repartition ----------------------------
(***************************************************************************)
(* The conversion of the running system's partition from FAT to ext4       *)
(* (recovery/convert_fs.c), between the start of the program and its end   *)
(* (recovery/main.c), over any number of boots.  Every call of the         *)
(* conversion into the file systems, the card or the partition table is a  *)
(* step of its own that may fail; the power may go before and after each.  *)
(*                                                                         *)
(* The mount table is taken at its specification, MountLifecycle, which    *)
(* TinyVfs implements.                                                     *)
(***************************************************************************)
EXTENDS FiniteSets

CONSTANTS LogFiles   \* the files of the log directory when the device starts

Slots == {"A", "B"}   \* boot slots: the partitions 1 and 2 of the user area
OwnLabel(s) == IF s = "A" THEN "system_a" ELSE "system_b"

VARIABLES
    \* On the eMMC:
    current,   \* the slot the device runs from: its partition is /system
    userFs,    \* /user: does its file system create missing parents (ext4)
    code,      \* the type each partition has in the partition table
    content,   \* what each partition holds
    label,     \* the volume label of each partition
    logs,      \* the log files on /system
    backup,    \* /user/tmp_backup: does it exist, and its files
    \* In RAM:
    vfs,       \* the mount table: "down", "up", "wedged"
    log,       \* is log_file_handle open
    relabelled,\* the cached superblock of slot B has the new label
    listed,    \* every listing of a log directory was read to its end
    pc,        \* the call the program is at
    result     \* what repartition_fs returned last, or is going to

device == <<current, userFs>>
partitions == <<code, content, label>>
files == <<logs, backup>>
emmc == <<device, partitions, files>>
ram == <<vfs, log, relabelled, listed>>
vars == <<emmc, ram, pc, result>>

Vfs == INSTANCE MountLifecycle WITH state <- vfs
Mountable == \A s \in Slots : code[s] = content[s]

Init ==
    /\ current \in Slots /\ userFs \in {"ext4", "other"}
    /\ content \in [Slots -> {"fat", "ext4"}] /\ code = content
    /\ label = [s \in Slots |-> "other"]
    /\ logs \in SUBSET LogFiles /\ backup = [dir |-> FALSE, files |-> {}]
    /\ vfs = "down" /\ log = FALSE /\ relabelled = FALSE /\ listed = TRUE
    /\ pc = "off" /\ result = "none"

GoTo(where) == pc' = where /\ UNCHANGED result
Return(ret) == pc' = "script" /\ result' = ret
Fail == Return("FAILED")

-----------------------------------------------------------------------------
(* main *)

\* prepare_environment: a file system that does not mount ends the program.
Boot ==
    /\ pc = "off"
    /\ \/ vfs' \in {"down", "wedged"} /\ GoTo("ended") /\ UNCHANGED log
       \/ Mountable /\ vfs' = "up" /\ log' \in BOOLEAN /\ GoTo("script")
    /\ UNCHANGED <<emmc, relabelled, listed>>

\* Unmounting slot B writes its cached superblock.  When already the first
\* partition of the table cannot be unmounted, all of them stay mounted.
Relabelled == [label EXCEPT !["B"] = "system_b"]
Unmount ==
    \/ vfs = "up" /\ UNCHANGED <<vfs, label, relabelled>>
    \/ /\ Vfs!UnmountAll
       /\ IF relabelled THEN label' = Relabelled \/ (vfs' = "wedged" /\ label' = label)
          ELSE label' = label
       /\ relabelled' = (relabelled /\ vfs' # "down")

\* destroy_environment: flush_logs, then vfs_unmount_deinit (-EINVAL if down).
Exit ==
    /\ pc = "script"
    /\ log' = FALSE
    /\ Unmount \/ (vfs # "up" /\ UNCHANGED <<vfs, label, relabelled>>)
    /\ GoTo("ended")
    /\ UNCHANGED <<device, code, content, files, listed>>

PowerCycle ==
    /\ vfs' = "down" /\ log' = FALSE /\ relabelled' = FALSE /\ listed' = TRUE
    /\ pc' = "off" /\ result' = "none"
    /\ UNCHANGED emmc

-----------------------------------------------------------------------------
(* repartition_fs: the mount points and the temporary directory *)

\* get_mount_points reads /user/boot.json.
RepartitionFs ==
    /\ pc = "script"
    /\ \/ Fail
       \/ vfs = "up" /\ pc' = "check" /\ result' = "none"
    /\ listed' = TRUE
    /\ UNCHANGED <<emmc, vfs, log, relabelled>>

\* recursive_unlink(/user/tmp_backup): one file, or the empty directory.
RemoveBackup(next) ==
    \/ /\ \E f \in backup.files : backup' = [backup EXCEPT !.files = @ \ {f}]
       /\ UNCHANGED <<pc, result>>
    \/ backup.files = {} /\ backup' = [backup EXCEPT !.dir = FALSE] /\ GoTo(next)

CheckTempDir ==
    /\ pc = "check"
    /\ \/ Fail /\ UNCHANGED backup
       \/ ~backup.dir /\ GoTo("convert") /\ UNCHANGED backup
       \/ backup.dir /\ RemoveBackup("convert")
    /\ UNCHANGED <<device, partitions, logs, ram>>

-----------------------------------------------------------------------------
(* convert_fs *)

ConvertKeepingLog ==
    /\ pc = "convert"
    /\ \/ /\ content[current] = "ext4"
          /\ pc' = "label" /\ result' = "NOT_REQUIRED"
       \/ content[current] = "fat" /\ GoTo("backup")
    /\ UNCHANGED <<emmc, ram>>
ConvertAlways ==
    /\ pc = "convert"
    /\ log' = FALSE /\ GoTo("backup")
    /\ UNCHANGED <<emmc, vfs, relabelled, listed>>
Convert ==
    /\ pc = "convert"
    /\ \/ /\ content[current] = "ext4"
          /\ pc' = "label" /\ result' = "NOT_REQUIRED" /\ UNCHANGED log
       \/ content[current] = "fat" /\ log' = FALSE /\ GoTo("backup")   \* flush_logs
    /\ UNCHANGED <<emmc, vfs, relabelled, listed>>

BackupUnchecked ==
    /\ pc = "backup"
    /\ GoTo("unmount")
    /\ UNCHANGED <<emmc, ram>>
\* recursive_cp(/system/log, /user/tmp_backup): one file a step.  Nothing makes
\* the directory but a file system that creates the parents of a new file.  The
\* copy succeeds wherever the listing ends: readdir fails as it ends, with NULL.
BackupLogs ==
    /\ pc = "backup"
    /\ \/ \* a failed copy may have created the directory
          /\ Fail
          /\ backup' \in {backup} \cup (IF userFs = "ext4" THEN {[backup EXCEPT !.dir = TRUE]} ELSE {})
          /\ UNCHANGED listed
       \/ \E f \in logs \ backup.files :
             /\ backup.dir \/ userFs = "ext4"
             /\ backup' = [dir |-> TRUE, files |-> backup.files \cup {f}]
             /\ UNCHANGED <<pc, result, listed>>
       \/ GoTo("unmount") /\ listed' = (logs \subseteq backup.files) /\ UNCHANGED backup
    /\ UNCHANGED <<device, partitions, logs, vfs, log, relabelled>>

UnmountForgotten ==
    /\ pc = "unmount"
    /\ GoTo("erase")
    /\ UNCHANGED <<emmc, ram>>
UnmountForConversion ==
    /\ pc = "unmount"
    /\ Unmount
    /\ IF vfs' = "down" THEN GoTo("erase") ELSE Fail
    /\ UNCHANGED <<device, code, content, files, log, listed>>

\* The write of the empty boot record may arrive though it is reported failed.
EraseFatBootRecord ==
    /\ pc = "erase"
    /\ \/ Fail /\ UNCHANGED <<content, logs>>
       \/ /\ content' = [content EXCEPT ![current] = "erased"] /\ logs' = {}
          /\ Fail \/ GoTo("append")
    /\ UNCHANGED <<device, code, label, backup, ram>>

AppendVolume ==
    /\ pc = "append"
    /\ Fail \/ GoTo("format")
    /\ UNCHANGED <<emmc, ram>>

FormatLabelled(l) ==
    /\ pc = "formatting"
    /\ \/ Fail /\ UNCHANGED <<content, label>>
       \/ /\ content' = [content EXCEPT ![current] = "ext4"]
          /\ label' = [label EXCEPT ![current] = l]
          /\ GoTo("table")
    /\ UNCHANGED <<device, code, files, ram>>
StartFormat ==
    /\ pc = "format"
    /\ content' = [content EXCEPT ![current] = "partial"] /\ GoTo("formatting")
    /\ UNCHANGED <<device, code, label, files, ram>>
CreateUnlabelled == FormatLabelled("")
\* Every slot's partition gets the label of slot A.
CreateExt4Fs == FormatLabelled("system_a")

\* mbr_set_partition_type: see BlkDev for what may go wrong there.
UpdateTable ==
    /\ pc = "table"
    /\ \/ Fail /\ UNCHANGED code
       \/ code' = [code EXCEPT ![current] = "ext4"] /\ (Fail \/ GoTo("info"))
    /\ UNCHANGED <<device, content, label, files, ram>>

ReadInfo ==
    /\ pc = "info"
    /\ Fail \/ GoTo("remount")
    /\ UNCHANGED <<emmc, ram>>

Remount ==
    /\ pc = "remount"
    /\ \/ UNCHANGED vfs /\ Fail
       \/ /\ Vfs!MountAll
          /\ IF vfs' = "up" THEN Mountable /\ GoTo("restore") ELSE Fail
    /\ UNCHANGED <<emmc, log, relabelled, listed>>

\* recursive_cp(/user/tmp_backup, /system/log)
RestoreLogs ==
    /\ pc = "restore"
    /\ \/ Fail /\ UNCHANGED <<logs, listed>>
       \/ /\ \E f \in backup.files \ logs : logs' = logs \cup {f}
          /\ UNCHANGED <<pc, result, listed>>
       \/ /\ backup.dir /\ GoTo("cleanup")
          /\ listed' = (listed /\ backup.files \subseteq logs)
          /\ UNCHANGED logs
    /\ UNCHANGED <<device, partitions, backup, vfs, log, relabelled>>

RemoveLogsBackup ==
    /\ pc = "cleanup"
    /\ (Fail /\ UNCHANGED backup) \/ RemoveBackup("relog")
    /\ UNCHANGED <<device, partitions, logs, ram>>

RedirectLogs ==
    /\ pc = "relog"
    /\ log' \in BOOLEAN
    /\ pc' = "label" /\ result' = "SUCCESS"
    /\ UNCHANGED <<emmc, vfs, relabelled, listed>>

-----------------------------------------------------------------------------
(* change_partition_label, of get_prefix(Slot_B) *)

\* Running from slot B, its partition is mounted as /system and nowhere else.
\* The cached superblock gets the label before anything can fail; it reaches
\* the partition with the copies written here, or when it is unmounted.
NoSuchMount == current = "B"
NotExt4 == NoSuchMount \/ content["B"] # "ext4"
ChangePartitionLabel ==
    /\ pc = "label"
    /\ \/ /\ NotExt4
          /\ Fail /\ UNCHANGED <<label, relabelled>>
       \/ /\ ~NotExt4
          /\ relabelled' = TRUE
          /\ \/ Fail /\ (UNCHANGED label \/ label' = Relabelled)
             \/ label' = Relabelled /\ GoTo("script")
    /\ UNCHANGED <<device, code, content, files, vfs, log, listed>>

-----------------------------------------------------------------------------
Next ==
    \/ Boot \/ Exit \/ PowerCycle
    \/ RepartitionFs \/ CheckTempDir \/ Convert \/ BackupLogs \/ UnmountForConversion
    \/ EraseFatBootRecord \/ AppendVolume \/ StartFormat \/ CreateExt4Fs \/ UpdateTable
    \/ ReadInfo \/ Remount \/ RestoreLogs \/ RemoveLogsBackup \/ RedirectLogs
    \/ ChangePartitionLabel

Spec == Init /\ [][Next]_vars

-----------------------------------------------------------------------------
(* Properties *)

Converting == {"erase", "append", "format", "formatting", "table"}
Places ==
    Converting \cup {"off", "ended", "script", "check", "convert", "backup", "unmount",
                     "info", "remount", "restore", "cleanup", "relog", "label"}

\* Every variable has its type.
TypeOK ==
    /\ current \in Slots /\ userFs \in {"ext4", "other"}
    /\ code \in [Slots -> {"fat", "ext4"}]
    /\ content \in [Slots -> {"fat", "erased", "partial", "ext4"}]
    /\ label \in [Slots -> {"other", "system_a", "system_b"}]
    /\ logs \subseteq LogFiles
    /\ backup \in [dir: BOOLEAN, files: SUBSET LogFiles]
    /\ vfs \in {"down", "up", "wedged"} /\ log \in BOOLEAN /\ relabelled \in BOOLEAN
    /\ listed \in BOOLEAN
    /\ pc \in Places
    /\ result \in {"none", "SUCCESS", "NOT_REQUIRED", "FAILED"}

\* No conversion that lists the log directories to their ends loses a log
\* file, wherever it fails or is cut off: each stays on /system or in the
\* backup.  Only the next call of repartition_fs, which starts by removing the
\* backup it finds, may lose one.
Lost(f) == f \in logs \cup backup.files /\ f \notin logs' \cup backup'.files
LogsSurvive == [][\A f \in LogFiles : Lost(f) => pc = "check" \/ ~listed]_vars

\* No conversion loses a log file.  Violated: a directory listing that fails
\* ends the copy like one that ends (direntsyscalls.c 69-73, dir_walker.c 62),
\* and the partition is erased with the backup incomplete.
NoLogLost == [][\A f \in LogFiles : Lost(f) => pc = "check"]_vars

\* A conversion that reports success has done all it is for, and one that
\* reports that it was not required has found it so.
SuccessIsComplete ==
    pc = "script" /\ result \in {"SUCCESS", "NOT_REQUIRED"} =>
        /\ vfs = "up"
        /\ \A s \in Slots : code[s] = "ext4" /\ content[s] = "ext4"
        /\ label["B"] = "system_b"
        /\ result = "SUCCESS" => label["A"] = "system_a" /\ ~backup.dir

\* The log file is never left open across an unmount: its descriptor would
\* lead into a mount table that is gone (TinyVfs, FaultsExplained).
LogClosedWhileDown == log => vfs = "up"

\* As long as the file systems are mounted the power may go: the device boots
\* again.
BootsAgain == vfs = "up" => Mountable

\* Between the erasure of the boot record and the update of the partition
\* table lies a stage that a conversion which fails or is cut off there leaves
\* for good: no later boot mounts the partitions.
Stage == IF code[current] = content[current] THEN content[current] ELSE "broken"
Conversion_ == INSTANCE Conversion WITH stage <- Stage, busy <- pc \in Converting
OneWay == Conversion_!Spec

\* A partition has no other slot's label.  Violated: running from slot B its
\* partition is formatted with slot A's (convert_fs.c 368), and the change to
\* slot B's looks for a mount point that does not exist then (385, 256).
LabelsFixed == \A s \in Slots : label[s] \in {"other", OwnLabel(s)}
=============================================================================
