SPECIFICATION FairSpec
CONSTANTS
    Clients <- ChunkedClient
    Responses <- MCResponses
    NoResponse = NoResponse
    HeaderLen = 2
    MaxData = 2
PROPERTY
    ReceivedIsProcessed
CHECK_DEADLOCK FALSE
