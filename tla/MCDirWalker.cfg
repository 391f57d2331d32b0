\* Copies and removals of small trees with a failure at every call.
SPECIFICATION Spec
CONSTANTS
    Root = "log"
    Dirs <- MCDirs
    Files <- MCFiles
    Parent <- MCParent
    Below <- MCBelow
    Trees <- MCTrees
    LongPaths = {"long"}
    Named <- MCNamed
    Chunks <- MCChunks
    Limit = 3
    Huge = Huge
INVARIANTS
    TypeOK
    CopyIsWhole
    RemovalIsWhole
PROPERTY Terminates
