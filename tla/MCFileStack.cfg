SPECIFICATION Spec
CONSTANTS
    Partitions <- MCPartitions
    HeadSize = 1
    EntrySize = 1
    NamesSize = 1
    MaxEntries = 2
    MinCoverage = 55
    PageSize = 8
    Stride = 5
    CtrSectorSize = 3
    XtsSectorSize = 2
    CipherBlock = 16
    HeaderSectors = 6
CHECK_DEADLOCK FALSE
INVARIANTS
    EntryIsItsFile ArchiveDeciphered
