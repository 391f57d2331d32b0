---------------------------- MODULE BootInstall ----------------------------
(***************************************************************************)
(* What flash_bootloader (recovery/flash_bootloader.c) promises: the boot  *)
(* area changes only while an image is waiting to be installed, and an     *)
(* image stops waiting only when the boot area holds all of it.  Whatever  *)
(* fails or is cut off in between, the update can be started again.        *)
(***************************************************************************)
CONSTANTS Images, None, Holds(_, _)
VARIABLES file, area

Init == file \in Images \cup {None}
Put     == file' \in Images /\ area' = area
Rewrite == file # None /\ file' = file
Remove  == file # None /\ Holds(area, file) /\ file' = None /\ area' = area
Next == Put \/ Rewrite \/ Remove
Spec == Init /\ [][Next]_<<file, area>>
=============================================================================
