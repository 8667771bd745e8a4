CONSTANTS
    c1 = c1
    Clients <- OneClient
    MaxChunks <- Three
    Departures <- AnyDeparture
SPECIFICATION FairSpec
INVARIANTS TypeOK ReleasedOnce NoTeardownBeforeRequest ServerDataForwarded ClientDataForwarded
PROPERTIES ThreadsStop ImplementsService ServiceProgress
CHECK_DEADLOCK FALSE
