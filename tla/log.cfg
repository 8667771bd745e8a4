CONSTANTS
    t1 = t1
    t2 = t2
    Callers <- TwoCallers
    maxLogFiles = 2
    maxLogFileSize = 2
    Sizes <- ShortAndLong
    MaxLines = 4
    LastSecond = 2
SPECIFICATION FairSpec
INVARIANTS TypeOK FilesBounded LogsInOrder
PROPERTIES OldLinesGo CallsReturn
CHECK_DEADLOCK FALSE
