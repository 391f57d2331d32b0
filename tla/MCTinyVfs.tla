------------------------------ MODULE MCTinyVfs ------------------------------
(* The two tables main.c mounts one after the other - the user partition,   *)
(* then the three of mount_points.c 27-46, with prefixes of the slots one   *)
(* of which begins with the other - and a table that names one mount point  *)
(* twice; two descriptors; absolute and relative names that lie in a mount, *)
(* in none - beside one whose name they begin with - or are too short.      *)
EXTENDS TinyVfs

D(point) == [point |-> point, type |-> FsAuto]
MCFstabs ==
    {<<D("user")>>, <<D("system"), D("system_b"), D("user")>>,
     <<D("system"), [point |-> "system", type |-> "vfat"]>>}

Abs(comps) == [abs |-> TRUE, comps |-> comps]
Rel(comps) == [abs |-> FALSE, comps |-> comps]
MCPaths ==
    {Abs(<<>>), Abs(<<"system", "log">>), Abs(<<"user">>), Abs(<<"tmp", "log">>),
     Abs(<<"system_b", "f">>), Abs(<<"user2", "f">>), Rel(<<"log">>), Rel(<<"a">>)}
MCExtensions == {<<"user", "user2">>, <<"system", "system_b">>}
MCSomeTypes == {{}, {"vfat"}}
=============================================================================
