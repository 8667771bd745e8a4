CONSTANTS
    get = get
    next = next
    p1 = p1
    i1 = i1
    i2 = i2
    table = table
    entry = entry
    Requests <- GetAndNext
    GetNext <- NextOnly
    Ports <- OnePort
    Ids <- TwoIds
    Short <- OneShort
    Objects <- Tree
    Within <- Subtree
    MaxPackets = 1
SPECIFICATION FairSpec
INVARIANTS TypeOK MisledOnly NullExplained
PROPERTIES RequestEnds ReceiverEnds
CHECK_DEADLOCK FALSE
