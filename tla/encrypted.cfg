CONSTANTS
    c1 = c1
    Connections <- OneConnection
    TIMEOUT = 1
SPECIFICATION FairSpec
INVARIANTS TypeOK TimeoutCovers
PROPERTIES SweepSpares PairEnds StaleEntryGone IdleCloses
CHECK_DEADLOCK FALSE
