SPECIFICATION FairSpec
CONSTANTS
    StreamLen = 4
    MaxSeg = 2
    SeqSpace = 32
    Isn = 29
    Iss = 31
    MaxRecvBuffer = 3
    MaxOooSize = 2
    MaxWindow = 3
    Mss = 1
    FlushAt = 3
    MaxDown = 1
INVARIANTS AckedExactlyOnce HoldingIsKnown
PROPERTIES NoAckIntoAHole FlowSettles
CHECK_DEADLOCK FALSE
