SPECIFICATION ManagerSpec
CONSTANTS
    MaxStarts = 2
    MaxPanels = 2
    MaxPosts = 2
    MaxResolves = 4
INVARIANTS
    SwitchShowsServer
    ResolvingIsMarked
    LastResolveIsOfServer
CHECK_DEADLOCK FALSE
