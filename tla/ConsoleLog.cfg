SPECIFICATION FairSpec
CONSTANTS
    Sessions = {s1, s2}
    Console = console
    None = none
    MaxLines = 2
INVARIANTS
    Recovered
    GetsEveryLine
PROPERTIES
    OpenIsFed
CHECK_DEADLOCK FALSE
