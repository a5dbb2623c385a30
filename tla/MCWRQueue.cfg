CONSTANTS
    r1 = r1  r2 = r2  r3 = r3
    w1 = w1  w2 = w2  w3 = w3
    ReadTask = {r1, r2, r3}
    WriteTask = {w1, w2, w3}
    MayHang = {w3}
SPECIFICATION FairSpec
INVARIANTS
    TasksAreServed
PROPERTIES
    EveryRequestAnswered
    LanesAreBatchServers
CHECK_DEADLOCK FALSE
