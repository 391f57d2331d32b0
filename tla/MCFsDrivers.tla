----------------------------- MODULE MCFsDrivers -----------------------------
(* The two tables of the program, of one and of three mounts, with every    *)
(* type of file system on each partition - the third has a number that is  *)
(* no FatFs drive - and one conversion each.                               *)
EXTENDS FsDrivers

MCFstabs == {<<"user">>, <<"system", "other", "user">>}
=============================================================================
