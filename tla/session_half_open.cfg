CONSTANTS
    c1 = c1
    Clients <- OneClient
    MaxChunks <- One
    Departures <- AnyDeparture
SPECIFICATION FairSpec
PROPERTY ServerGoneClosesBoth
CHECK_DEADLOCK FALSE
