CONSTANTS
    c1 = c1
    c2 = c2
    c3 = c3
    Clients <- TwoClients
    TlsClients <- NoClients
    ServerCount = 2
    LoadBalancing = TRUE
SPECIFICATION Spec
INVARIANT LoadIsAliveConnections
