SYMMETRY AnyInstance
SPECIFICATION Spec
CONSTANTS
    Rights = {"a", "b"}
    Keys = {"k1", "k2"}
    None = None
    TarBlockSize = 2
    CopySize = 3
    Instances = {i1, i2}
    Games <- MCGames
    KeySizes = {2}
    TicketSize = 3
    CutSize = 1
    MaxTape = 12
INVARIANTS
    TypeOK OneInstance OwnTicketDecrypts ClearRemovesTickets FirstGameStarts ArchiveHoldsAll
