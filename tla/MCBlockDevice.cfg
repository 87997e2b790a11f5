SPECIFICATION Spec
CONSTANTS
    Drive = {"hda", "hdb"}
    Bus <- MCBus
    Master <- MCMaster
    Lba48 <- MCLba48
    Sectors <- MCSectors
    SECTOR_SIZE = 2
    CountBase = 2
    AddrBase = 4
    MaxFaults = 2
    BootOrder <- MCBootOrder
    Table <- MCTable
    Request <- MCRequest
    MaxRequests = 2
    MaxDepth = 2
INVARIANTS
    ReadDeliversContent
    WriteChangesOnlyRange
PROPERTIES
    DrivesKeptApart
    RequestsReturn
CHECK_DEADLOCK FALSE
