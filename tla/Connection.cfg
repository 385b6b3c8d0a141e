SPECIFICATION FairSpec
CONSTANTS
    Clients <- MCClients
    Responses <- MCResponses
    NoResponse = NoResponse
    HeaderLen = 2
    MaxData = 2
INVARIANTS
    ContentDelivered
    AnswerShape
PROPERTIES
    ImplementsExchange
    ShutClientAnswered
    BodyEndsConnection
CHECK_DEADLOCK FALSE
