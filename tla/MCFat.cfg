SPECIFICATION Spec
CONSTANTS
    bytes_per_sector = 1
    sector_per_cluster = 2
    reserved_sectors = 1
    sectors_per_fat = 1
    fat_copies = 1
    max_dir_entrys_in_root = 2
    DirEntrySize = 1
    LastCluster = 5
    TableEntries = 7
    Word = 8
    MaxOffset = 6
    Lengths = {1, 3}
    MaxTransfers = 2
    Behind = {0, 2, 7}
    MaxSize = 6
INVARIANTS
    OnlyFileBytes
    WholeRange
PROPERTIES
    WritesStayInFile
CHECK_DEADLOCK FALSE
