\* The block layer under every sequence of calls, failed commands and power cycles.
SPECIFICATION Spec
CONSTANTS
    UserBlocks = 6
    BootBlocks = 2
    WordSize = 8
    Lbas = {0, 1, 7}
    MaxCount = 2
    UpdatedParts = {1, 2}
    Codes <- MCCodes
    ExtCodes = {"extended"}
    NewCodes = {"ext4"}
    Mbrs <- MCMbrs
    DataSectors <- MCData
    LogicalTables <- MCLogical
    Garbage <- MCGarbage
INVARIANTS
    TypeOK
    MisroutedOnlyAfterBootError
    InsidePartition
    CountedPartsExist
    GeometryCoherent
PROPERTY UpdateHitsItsPartition
