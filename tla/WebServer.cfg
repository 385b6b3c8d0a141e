SPECIFICATION FairSpec
CONSTANTS
    Conns = {c1, c2, c3}
    NoConn = NoConn
    OptionSets <- MCOptionSets
    NoOptions = NoOptions
    MaxMain = 3
INVARIANTS
    NoAbort
    ConnectedFollowsConnections
    BackgroundTaskHeld
    ConnectionsKept
PROPERTIES
    ImplementsConnectionSeries
    StopReturns
    EventuallyDisconnected
