SPECIFICATION FairSpec
CONSTANTS
    None = None
    a = a
    b = b
    c3 = c3
    Node = {a, b, c3}
    Kind <- MCKind
    Static <- MCStatic
    Needed <- MCNeeded
    Chains <- MCChains
    Clock = {1, 2}
    MaxConn = 3
    MaxTrouble = 1
    HeaderLength = 2
INVARIANTS
    PeersAgree
    PackagesSurvive
PROPERTIES
    BannedStayOut
    DialsAreReported
CHECK_DEADLOCK FALSE
