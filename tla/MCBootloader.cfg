\* The bootloader update under failing card commands, file errors and power loss.
SPECIFICATION Spec
CONSTANTS
    SectorBytes = 2
    SectorsPerTransfer = 2
    AreaBytes = 12
    MinimalSize = 4
    Images <- MCImages
    None = None
    Old = Old
    Zero = Zero
    Junk = Junk
INVARIANTS
    TypeOK
    RemovalFailedIsInstalled
    RangeErrorExplained
PROPERTY Installs
