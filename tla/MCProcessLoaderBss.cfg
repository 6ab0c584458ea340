SPECIFICATION Spec
CONSTANTS
    Modules <- MCModules
    MaxModules = 3
    StackSizes = {1, 2}
    UserBase = 1
    UserPages = 3
    TlsSlotCount = 2
    MaxTls = 9
    HostPages = 16
    RegionPages = 4
    AliasPages = 0
    HeapPages = 1
    StackSegmentPages = 2
    TlsIoPages = 4
CHECK_DEADLOCK FALSE
INVARIANT DataCoversBss
