SPECIFICATION WebSpec
CONSTANTS
    ana = ana
    beto = beto
    Account = {ana, beto}
    FlowSlot = {1, 2}
    CacheTtl = 2
    Revalidate = 1
    RateTtl = 1
    PointGap = 2
    Day = 3
    MaxPoints = 2
    Handler = {1, 2}
    Panel = 1
    Card = 2
    MaxNow = 6
INVARIANT ValidIsFresh
CHECK_DEADLOCK FALSE
