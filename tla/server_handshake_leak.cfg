CONSTANTS
    c1 = c1
    c2 = c2
    Clients <- OneClient
    TlsClients <- OneTls
    ServerCount = 1
    LoadBalancing = TRUE
    MaxChunks <- OneRequest
    Departures <- JustCloses
SPECIFICATION FairSpec
PROPERTY OpenedConnectionsClose
