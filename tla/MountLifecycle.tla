--------------------------- MODULE MountLifecycle ---------------------------
(***************************************************************************)
(* What vfs_mount_init and vfs_unmount_deinit promise between them         *)
(* (hal/src/tinyvfs/tinyvfs_mount.c): the mount table is all there, or not *)
(* at all, or it is "wedged" - partly there - and then neither call can    *)
(* ever bring it back: every later mount and unmount fails until the       *)
(* device restarts.                                                        *)
(***************************************************************************)
VARIABLE state

Init == state = "down"
MountAll   == state = "down" /\ state' \in {"up", "wedged"}
UnmountAll == state = "up"   /\ state' \in {"down", "wedged"}
Next == MountAll \/ UnmountAll
Spec == Init /\ [][Next]_state
=============================================================================
