SPECIFICATION Spec
CONSTANTS
    Bytes <- MCBytes
    Newline = 1
    MaxFile = 4
    MaxRead = 4
    MaxWrite = 2
    Chunk = 3
    LineBuffer = 1
INVARIANTS
    TypeOK SmallReadsReturnFile LinesReturnFile
