CONSTANTS
    c1 = c1
    c2 = c2
    c3 = c3
    Clients <- TwoClients
    TlsClients <- OneTls
    ServerCount = 2
    LoadBalancing = TRUE
SPECIFICATION FairSpec
INVARIANTS TypeOK CountExact LeastLoaded FailOver
PROPERTIES Recovery Decided
