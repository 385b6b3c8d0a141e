SPECIFICATION Spec
CONSTANTS
    Requests = {r1, r2}
    Dirs = {d1, d2}
    Names = {a, b}
    NoFile = NoFile
    Originals <- MCOriginals
    Sizes = {0, 3}
    UploadSize = 1
    Numbers = {0, 2}
    Chunk = 2
    Max = 10
    MaxChanges = 1
    MaxFaults = 1
    MaxBytes = 5
    d1 = d1
    d2 = d2
    a = a
    b = b
INVARIANTS
    UploadKept
    ListsWhatIsThere
    PreviewWhole
    NothingLeft
    RangeServed
CHECK_DEADLOCK FALSE
