SPECIFICATION Spec
CONSTANTS
    Files <- MCFiles
    Window = 3
    MaxBack = 26
    BlockSize = 2
    Byte = 2
    Short = 2
    Long = 5
    EndSize = 20
    End64Size = 4
    MaxFaults = 1
INVARIANTS
    FindsLastEnd
    DirectoryRead
    CommentFollowsEnd
