SPECIFICATION Spec
CONSTANTS
    Max16 = 2
    Max32 = 5
    BufSize = 2
    MaxEntries = 2
    Kinds <- MCKinds
    WriteSizes = {2}
    MaxBlocks = 4
    MaxFaults = 1
    MaxOpens = 2
INVARIANTS
    BufferFits
    DirectoryComplete
    Readable
PROPERTIES
    ImplementsArchive
    ErrorReturned
