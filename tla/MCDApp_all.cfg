SPECIFICATION InstancesSpec
CONSTANTS
    ana = ana
    beto = beto
    Account = {ana, beto}
    FlowSlot = {1, 2}
    CacheTtl = 2
    Revalidate = 1
    RateTtl = 1
    PointGap = 2
    Day = 3
    MaxPoints = 2
    Handler = {1, 2, 3}
    Panel = 1
    Card = 2
    MaxNow = 4
INVARIANTS DAppTypeOK SuccessIsReal FreshUnlessMarked HistorySpaced
PROPERTY ButtonComesBack
CHECK_DEADLOCK FALSE
