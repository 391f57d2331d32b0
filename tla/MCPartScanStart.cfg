\* A logical partition whose entry has an offset is stored at its record.
SPECIFICATION Spec
CONSTANTS
    Images <- MCImages
    Garbage <- MCGarbage
    Codes = {"data", "extended"}
    ExtCodes = {"extended"}
    UserBlocks = 10
    SectorSize = 2
    WordSize = 16
    MaxParts = 7
    Tries = 2
INVARIANT StartIsFirstSector
