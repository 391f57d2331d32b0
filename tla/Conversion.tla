----------------------------- MODULE Conversion -----------------------------
(***************************************************************************)
(* What repartition_fs (recovery/convert_fs.c) makes of the partition it   *)
(* converts: a FAT file system becomes an ext4 one through a stage in      *)
(* which it is neither.  That stage is left only by the conversion that    *)
(* entered it: one that is cut off or fails there is never taken up again. *)
(***************************************************************************)
VARIABLES stage, busy

Init == stage \in {"fat", "ext4"} /\ busy = FALSE
Begin    == stage = "fat" /\ ~busy /\ busy' = TRUE /\ stage' = stage
Break    == busy /\ stage = "fat" /\ stage' = "broken" /\ busy' \in BOOLEAN
Complete == busy /\ stage = "broken" /\ stage' = "ext4" /\ busy' \in BOOLEAN
Stop     == busy /\ busy' = FALSE /\ stage' = stage
Next == Begin \/ Break \/ Complete \/ Stop
Spec == Init /\ [][Next]_<<stage, busy>>
=============================================================================
