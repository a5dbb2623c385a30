CONSTANTS
    p1 = p1  p2 = p2  p3 = p3
    Peer = {p1, p2, p3}
    Block = {1, 2}
    Headers <- HeadersInOrder
    InitWnd = 1
    MaxAnnounce = 3
    MaxLoss = 2
    MaxReconnect = 1
SPECIFICATION FetchFairSpec
INVARIANTS
    BlocksAreTracked
PROPERTIES
    EveryBlockArrives
CHECK_DEADLOCK FALSE
