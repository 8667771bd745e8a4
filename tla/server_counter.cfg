CONSTANTS
    c1 = c1
    c2 = c2
    Clients <- TwoClients
    TlsClients <- NoClients
    ServerCount = 1
    LoadBalancing = TRUE
    MaxChunks <- OneRequest
    Departures <- JustCloses
SYMMETRY PlainSymmetry
SPECIFICATION Spec
INVARIANTS CountIsOpenSockets
