CONSTANTS
    c1 = c1
    c2 = c2
    Clients <- OneClient
    TlsClients <- OneTls
    ServerCount = 2
    LoadBalancing = FALSE
    MaxChunks <- OneRequest
    Departures <- AnyDeparture
SPECIFICATION FairSpec
PROPERTIES ClientGoneReleases
