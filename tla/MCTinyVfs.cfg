\* Mount table, names and descriptors under every failure of a mount or unmount.
SPECIFICATION Spec
CONSTANTS
    FsTypes = {"vfat", "ext4"}
    FsAuto = "auto"
    SomeTypes <- MCSomeTypes
    Fstabs <- MCFstabs
    Paths <- MCPaths
    ShortNames = {"a"}
    MaxDepth = 3
    Extensions <- MCExtensions
    Slots = {1, 2}
    Null = Null
    Freed = Freed
    NotFound = NotFound
\* Nothing runs after a fault.
CHECK_DEADLOCK FALSE
INVARIANTS
    TypeOK
    ListIsMounted
    FaultsExplained
    NamesAgree
    RenamesStay
PROPERTY MountsTogether
