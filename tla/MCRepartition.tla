--------------------------- MODULE MCRepartition ---------------------------
(* Two log files: one can be copied and the other not yet. *)
EXTENDS Repartition

MCLogFiles == {"recovery.log", "update.log"}
=============================================================================
