\* The drivers' mounts and unmounts, with every step of each failing.
SPECIFICATION Spec
CONSTANTS
    Devices = {"system", "other", "user"}
    FatDrives = {"system", "user"}
    Fstabs <- MCFstabs
    ExtDevices = 3
    MaxConversions = 1
    MaxLfsMounts = 4
\* Nothing runs after a fault, or once a mount of the table has failed.
CHECK_DEADLOCK FALSE
INVARIANTS
    TypeOK
    MountsBacked
    LibrariesBalanced
