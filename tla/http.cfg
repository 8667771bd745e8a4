CONSTANTS
    MaxChunks <- TwoEach
    MaxRoutes = 2
SPECIFICATION FairSpec
INVARIANTS TypeOK EstablishedFirst AnsweredOnce
PROPERTY ConnectionEnds
CHECK_DEADLOCK FALSE
