\* The scan of every disk of the instance, with a failure at every read.
SPECIFICATION Spec
CONSTANTS
    Images <- MCImages
    Garbage <- MCGarbage
    Codes = {"data", "extended"}
    ExtCodes = {"extended"}
    UserBlocks = 10
    SectorSize = 2
    WordSize = 16
    MaxParts = 7
    Tries = 2
INVARIANTS
    TypeOK
    OverrunExplained
    LogicalsInside
    FindsAll
PROPERTY ScanEnds
