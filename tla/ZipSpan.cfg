SPECIFICATION FairSpec
CONSTANTS
    DiskSize = 4
    Wrap = 16
    Base = 2
    HeaderSize = 2
    DescSize = 1
    MarkerSize = 1
    Amounts = {1, 3}
    Numbers = 8
    Short = 4
    MaxEntries = 3
    MaxFlushes = 1
    MaxFaults = 2
    MaxOpens = 2
INVARIANTS
    HeaderWhereRecorded
PROPERTIES
    OthersUntouched
    CallsReturn
