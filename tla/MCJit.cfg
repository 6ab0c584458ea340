SPECIFICATION Spec
CONSTANTS
    Threads = {t1, t2}
    Cores = {c0, c1}
    Words <- MCWords
    Entry = 1
    Stack = 2
    Contexts <- MCContexts
    Supported = {6}
    Calls = {6, 7}
    Turns = 2
    Quantum = 2
    StreamThreshold = 2
    FileThreshold = 3
    MaxText = 3
    Nobody = Nobody
CHECK_DEADLOCK FALSE
INVARIANTS
    TypeOK AloneKeepsState LinesReachBacking
PROPERTIES
    ImplementsOwnRegisters SliceEnds
