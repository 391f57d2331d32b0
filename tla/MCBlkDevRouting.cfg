\* A user access after a failed boot access goes to the boot area.
SPECIFICATION Spec
CONSTANTS
    UserBlocks = 6
    BootBlocks = 2
    WordSize = 8
    Lbas = {0, 1, 7}
    MaxCount = 2
    UpdatedParts = {1, 2}
    Codes <- MCCodes
    ExtCodes = {"extended"}
    NewCodes = {"ext4"}
    Mbrs <- MCMbrs
    DataSectors <- MCData
    LogicalTables <- MCLogical
    Garbage <- MCGarbage
INVARIANT RoutedToAddressedArea
